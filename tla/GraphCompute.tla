---------------------------- MODULE GraphCompute ----------------------------
(***************************************************************************)
(* A CPU backend at work: graphs are allocated (GraphAlloc) and computed   *)
(* (Threadpool) one after the other, in one buffer.  A graph that fits the *)
(* plan of an earlier one is computed with that plan.  mem says, for each  *)
(* cell of the buffer, which tensor was last written there.                *)
(***************************************************************************)
EXTENDS Threadpool

CONSTANT
  Workloads   \* [graphs |-> the graphs to compute, pool |-> threads]

ASSUME WorkloadsAssumption ==
  \A w \in Workloads : /\ w.graphs \in Seq(Graphs) \ {<<>>}
                       /\ w.pool \in 1..MaxThreads

VARIABLES
  graph, free, addr, allocated, n_children, n_views, todo,   \* of GraphAlloc
  mem,
  workload     \* the graphs still to compute

GA == INSTANCE GraphAlloc

plan == <<graph, free, addr, allocated, n_children, n_views, todo>>
system == <<vars, plan, mem, workload>>

InitCompute ==
  \E w \in Workloads :
    /\ workload = w.graphs
    /\ New(w.pool, FALSE)
    /\ GA!InitWith(Head(w.graphs))
    /\ mem = [c \in 0..Capacity - 1 |-> 0]

\* Where the plan puts a tensor of the graph being computed.
Root(g, t) == IF g.view[t] = 0 THEN t ELSE g.view[t]
Cells(g, t) == addr[Root(g, t)]..addr[Root(g, t)] + g.size[t] - 1

Written(g, ts) ==
  [c \in DOMAIN mem |-> IF \E t \in ts : c \in Cells(g, t)
                        THEN CHOOSE t \in ts : c \in Cells(g, t) ELSE mem[c]]

-----------------------------------------------------------------------------

PlanStep == GA!Step /\ UNCHANGED <<vars, mem, workload>>

\* ggml_gallocr_alloc_graph: the next graph has outgrown the plan.
Replan ==
  /\ pc[0] = "idle" /\ workload # <<>>
  /\ GA!NeedsRealloc(Head(workload))
  /\ GA!Reserve(Head(workload))
  /\ UNCHANGED <<vars, mem, workload>>

\* The graph has its memory; the caller writes the inputs and computes it.
SetInputsAndCompute ==
  /\ todo = <<>> /\ workload # <<>>
  /\ ~GA!NeedsRealloc(Head(workload))
  /\ Reset(Head(workload))
  /\ LET g == Head(workload) IN mem' = Written(g, 1..g.leafs \ g.external)
  /\ workload' = Tail(workload)
  /\ UNCHANGED plan

Node(t) == cgraph.leafs + node_n[t]

\* One piece of a node; quantising only fills the work buffer.
Work(t) ==
  /\ Forward(t)
  /\ mem' = IF pc[t] = "loop" /\ cgraph.op[node_n[t]] = "mul_mat" THEN mem
            ELSE Written(cgraph, {Node(t)})
  /\ UNCHANGED <<plan, workload>>

Quietly(A) == A /\ UNCHANGED <<plan, mem, workload>>

ThreadStep(t) == Quietly(Graph(t) \/ Between(t))
Wakeup(t) == Quietly(SpuriousWakeup(t))
CallerStep == Quietly(Caller)

NextCompute == \/ PlanStep \/ Replan \/ SetInputsAndCompute \/ CallerStep
               \/ \E t \in Thread : Work(t) \/ ThreadStep(t) \/ Wakeup(t)

\* The kernel runs every thread, and the caller finishes what it began.
FairCompute ==
  /\ \A t \in Thread : WF_system(Work(t) \/ ThreadStep(t))
  /\ WF_system(CallerStep /\ pc[0] # "idle")

SpecCompute == InitCompute /\ [][NextCompute]_system /\ FairCompute

-----------------------------------------------------------------------------
(* Properties                                                              *)

\* The pool computes a graph as GraphRun promises: whatever the threads do,
\* nodes in order, no piece before the stage ahead of it is complete, and an
\* aborted run stops at the same node in every thread.
RunsInOrder == GR!Spec

\* No piece is computed twice: chunks handed out by the shared counter never
\* collide with the ones the threads start with.
EachPieceOnce ==
  [][\A t \in Thread : Forward(t) => computed' # computed]_system

\* ggml_graph_compute's comment at the reset: no worker is still looking at
\* the graph, the plan, the abort mark or the chunk counter of the last one.
\* (One may still be on its way out of the last barrier.)
ResetUnobserved ==
  pc[0] = "idle" =>
    \A t \in Thread \ {0} : \/ pc[t] \in {"top", "paused", "poll", "locked", "asleep", "exited"}
                            \/ pc[t] = "spin" /\ n_barrier_passed # seen[t]

\* A kicked-off graph is computed to the end and a freed pool is joined: no
\* wake-up is lost between polling, sleeping and pausing, and no thread is
\* left behind at a barrier.
ComputeReturns ==
  /\ (pc[0] \notin {"idle", "joining", "freed"}) ~> (pc[0] = "idle")
  /\ (pc[0] = "joining") ~> (pc[0] = "freed")

\* The sources a piece of work reads.
Reads(t) == IF pc[t] = "loop" /\ cgraph.op[node_n[t]] = "mul_mat" THEN {cgraph.src[Node(t)][2]}
            ELSE GA!Range(cgraph.src[Node(t)])

\* p still holds its value, save what t has overwritten of it in place.
Intact(p, t) ==
  LET r == Root(cgraph, p) IN
    \/ r \in cgraph.external
    \/ \A c \in Cells(cgraph, p) :
         \/ mem[c] = r
         \/ mem[c] = t /\ cgraph.op[t - cgraph.leafs] = "rows" /\ addr[t] = addr[r]

\* What is read, by the threads at work and by the caller at the end, is what was
\* computed: no tensor's memory is given to another one before the last thread has
\* read it for the last time, and none of an output (ggml-alloc.h: never
\* overwritten) before the graph is done.
ReadsIntact ==
  [][/\ \A t \in Thread : Forward(t) => \A p \in Reads(t) : Intact(p, Node(t))
     /\ Return /\ ec = "success" =>
          \A o \in cgraph.outputs : \A c \in Cells(cgraph, o) : mem[c] = o]_system

\* The plan's memory (see GraphAlloc).
Apart == GA!Apart
Coalesced == GA!Coalesced

=============================================================================
