----------------------------- MODULE Threadpool -----------------------------
(***************************************************************************)
(* The thread pool of ggml's CPU backend (ggml-cpu.c, built without        *)
(* OpenMP): thread 0 is the one that calls ggml_graph_compute, the others  *)
(* are pthreads that poll, then sleep, until a graph is kicked off.  What  *)
(* a thread does while it holds the mutex is one step; every access to an  *)
(* atomic outside it is a step of its own.  The pool of the application    *)
(* lives for one graph (no threadpool is attached to its backend); the     *)
(* paths of a pool that is kept, paused and resumed are modelled with it.  *)
(***************************************************************************)
EXTENDS ComputeGraph, FiniteSets

CONSTANTS
  MaxThreads,    \* the largest pool
  MaxGraphs      \* bound: graphs a pool computes

ASSUME ThreadsAssumption == MaxThreads \in Nat \ {0}

Thread == 0..MaxThreads - 1

VARIABLES
  n_threads,                               \* of the pool
  cgraph, abort, ec, current_chunk,        \* set before each graph
  n_graph, n_barrier, n_barrier_passed, stop, pause,
  pc, node_n, chunk, seen, after,          \* locals of each thread
  pending, last_graph,                     \* of its ggml_compute_state
  computed                                 \* history: pieces of this graph

params  == <<cgraph, abort, ec, current_chunk>>
barrier == <<n_barrier, n_barrier_passed, seen>>
control == <<n_graph, stop, pause>>
worker  == <<pending, last_graph>>
vars == <<n_threads, params, barrier, control, worker, pc, node_n, chunk, after, computed>>

\* A plan asks for no more threads than the pool has.
Capped(g, n) == [g EXCEPT !.n_threads = IF @ > n THEN n ELSE @]
Runnable == {Capped(g, n) : g \in Graphs, n \in 1..MaxThreads}

\* Between graphs the caller holds the result of the last one.
Status == IF pc[0] \notin {"idle", "joining", "freed"} THEN "running"
          ELSE IF n_graph.count = 0 THEN "idle" ELSE ec

GR == INSTANCE GraphRun WITH Graphs <- Runnable, run <- cgraph,
                             status <- Status

None == -1      \* abort: no node to stop before
Nth == n_graph.n_threads

Goto(t, from, to) == pc[t] = from /\ pc' = [pc EXCEPT ![t] = to]

\* ggml_threadpool_new_impl
New(n, paused) ==
  /\ n_threads = n
  /\ cgraph = CHOOSE g \in Runnable : TRUE     \* NULL until the first graph
  /\ abort = None /\ ec = "success" /\ current_chunk = 0
  /\ n_graph = [count |-> 0, n_threads |-> 0]
  /\ n_barrier = 0 /\ n_barrier_passed = 0
  /\ stop = FALSE /\ pause = paused
  /\ pc = [t \in Thread |-> IF t = 0 THEN "idle" ELSE IF t < n THEN "top" ELSE "exited"]
  /\ node_n = [t \in Thread |-> 1]
  /\ chunk = [t \in Thread |-> 0]
  /\ seen = [t \in Thread |-> 0]
  /\ after = [t \in Thread |-> "final"]
  /\ pending = [t \in Thread |-> FALSE]
  /\ last_graph = [t \in Thread |-> n_graph]
  /\ computed = {}

-----------------------------------------------------------------------------
(* The caller                                                              *)

\* ggml_graph_compute, up to the kick-off: the parameters are set outside
\* the mutex.
Reset(g) ==
  /\ Goto(0, "idle", "kickoff")
  /\ n_graph.count < MaxGraphs
  /\ cgraph' = Capped(g, n_threads) /\ abort' = None /\ ec' = "success" /\ current_chunk' = 0
  /\ computed' = {}
  /\ UNCHANGED <<n_threads, barrier, control, worker, node_n, chunk, after>>

Woken(p) == CASE p = "asleep" -> "locked" [] p = "paused" -> "top" [] OTHER -> p

\* What pc becomes when the caller goes on to pc to and broadcasts.
Broadcast(to) == pc' = [t \in Thread |-> IF t = 0 THEN to ELSE Woken(pc[t])]

\* Mutant: the broadcast is left out, polling workers will see the graph.
KickoffQuietly ==
  /\ pc[0] = "kickoff"
  /\ n_graph' = [count |-> n_graph.count + 1, n_threads |-> cgraph.n_threads]
  /\ pause' = FALSE
  /\ pc' = [pc EXCEPT ![0] = "loop"]
  /\ node_n' = [node_n EXCEPT ![0] = 1]
  /\ UNCHANGED <<n_threads, params, barrier, stop, worker, chunk, after, computed>>

Kickoff ==
  /\ pc[0] = "kickoff"
  /\ n_graph' = [count |-> n_graph.count + 1, n_threads |-> cgraph.n_threads]
  /\ pause' = FALSE
  /\ Broadcast("loop")
  /\ node_n' = [node_n EXCEPT ![0] = 1]
  /\ UNCHANGED <<n_threads, params, barrier, stop, worker, chunk, after, computed>>

\* The result is read once the caller is through the last barrier.
Return ==
  /\ Goto(0, "done", "idle")
  /\ UNCHANGED <<n_threads, params, barrier, control, worker, node_n, chunk, after, computed>>

PauseOrResume ==
  /\ pc[0] = "idle"
  /\ pause' = ~pause
  /\ Broadcast("idle")
  /\ UNCHANGED <<n_threads, params, barrier, n_graph, stop, worker, node_n, chunk, after,
                 computed>>

Free ==
  /\ pc[0] = "idle"
  /\ stop' = TRUE /\ pause' = FALSE
  /\ Broadcast("joining")
  /\ UNCHANGED <<n_threads, params, barrier, n_graph, worker, node_n, chunk, after, computed>>

Join ==
  /\ Goto(0, "joining", "freed")
  /\ \A t \in Thread \ {0} : pc[t] = "exited"
  /\ UNCHANGED <<n_threads, params, barrier, control, worker, node_n, chunk, after, computed>>

-----------------------------------------------------------------------------
(* A worker between graphs: ggml_graph_compute_secondary_thread            *)

Top(t) ==
  /\ Goto(t, "top", IF pause THEN "paused" ELSE IF stop THEN "exited" ELSE "poll")
  /\ UNCHANGED <<n_threads, params, barrier, control, worker, node_n, chunk, after, computed>>

Ready(t) == pending[t] \/ stop \/ pause \/ n_graph # last_graph[t]

\* ggml_graph_compute_thread_ready: its effects when it returns true.
TakeWork(t) ==
  IF pending[t] \/ stop \/ pause THEN UNCHANGED worker
  ELSE /\ pending' = [pending EXCEPT ![t] = t < Nth]
       /\ last_graph' = [last_graph EXCEPT ![t] = n_graph]

\* Polling finds something, or its rounds are used up.
Poll(t) ==
  /\ \/ Ready(t) /\ TakeWork(t)
     \/ ~Ready(t) /\ UNCHANGED worker
  /\ Goto(t, "poll", IF pending'[t] THEN "run" ELSE "locked")
  /\ UNCHANGED <<n_threads, params, barrier, control, node_n, chunk, after, computed>>

\* The hybrid wait, under the mutex.
CheckForWork(t) ==
  /\ \/ Ready(t) /\ TakeWork(t) /\ Goto(t, "locked", IF pending'[t] THEN "run" ELSE "top")
     \/ ~Ready(t) /\ UNCHANGED worker /\ Goto(t, "locked", "asleep")
  /\ UNCHANGED <<n_threads, params, barrier, control, node_n, chunk, after, computed>>

\* POSIX lets a wait end without a broadcast.
SpuriousWakeup(t) ==
  /\ pc[t] \in {"asleep", "paused"}
  /\ Goto(t, pc[t], Woken(pc[t]))
  /\ UNCHANGED <<n_threads, params, barrier, control, worker, node_n, chunk, after, computed>>

Run(t) ==
  /\ Goto(t, "run", "loop")
  /\ pending' = [pending EXCEPT ![t] = FALSE]
  /\ node_n' = [node_n EXCEPT ![t] = 1]
  /\ UNCHANGED <<n_threads, params, barrier, control, last_graph, chunk, after, computed>>

-----------------------------------------------------------------------------
(* Every thread in a graph: ggml_graph_compute_thread                      *)

\* Mutant: abort is a flag, obeyed at once.
InLoopFlag(t) == node_n[t] <= Len(cgraph.op) /\ abort = None

InLoop(t) == node_n[t] <= Len(cgraph.op) /\ abort # node_n[t]

Skip(t) ==
  /\ InLoop(t) /\ Skipped(cgraph, node_n[t])
  /\ Goto(t, "loop", "loop")
  /\ node_n' = [node_n EXCEPT ![t] = @ + 1]
  /\ UNCHANGED <<n_threads, params, barrier, control, worker, chunk, after, computed>>

\* Mutant: no barrier after the last node.
LeaveLoopAtOnce(t) ==
  /\ ~InLoop(t)
  /\ Goto(t, "loop", IF t = 0 THEN "done" ELSE "top")
  /\ UNCHANGED <<n_threads, params, barrier, control, worker, node_n, chunk, after, computed>>

LeaveLoop(t) ==
  /\ ~InLoop(t)
  /\ Goto(t, "loop", "barrier")
  /\ after' = [after EXCEPT ![t] = "final"]
  /\ UNCHANGED <<n_threads, params, barrier, control, worker, node_n, chunk, computed>>

AtOp(t, ops) == pc[t] = "loop" /\ InLoop(t) /\ cgraph.op[node_n[t]] \in ops

\* After ggml_compute_forward: thread 0 asks the abort callback; then the
\* barrier, except after the last node.
Forwarded(t) ==
  /\ \/ UNCHANGED <<abort, ec>>
     \/ t = 0 /\ cgraph.abortable /\ abort' = node_n[t] + 1 /\ ec' = "aborted"
  /\ IF node_n[t] < Len(cgraph.op)
       THEN /\ pc' = [pc EXCEPT ![t] = "barrier"]
            /\ after' = [after EXCEPT ![t] = "next"]
            /\ UNCHANGED node_n
       ELSE /\ pc' = [pc EXCEPT ![t] = "loop"]
            /\ node_n' = [node_n EXCEPT ![t] = @ + 1]
            /\ UNCHANGED after

\* An operation whose rows are shared out by thread number.
Share(t) ==
  /\ AtOp(t, {"rows", "gather"})
  /\ computed' = computed \cup {GR!Piece(node_n[t], 1, t)}
  /\ Forwarded(t)
  /\ UNCHANGED <<n_threads, cgraph, current_chunk, barrier, control, worker, chunk>>

\* Mutant: the counter starts one chunk too low.
QuantiseFromLast(t) ==
  /\ AtOp(t, {"mul_mat"})
  /\ computed' = computed \cup {GR!Piece(node_n[t], 1, t)}
  /\ current_chunk' = IF t = 0 THEN Nth - 1 ELSE current_chunk
  /\ chunk' = [chunk EXCEPT ![t] = t]
  /\ pc' = [pc EXCEPT ![t] = "barrier"]
  /\ after' = [after EXCEPT ![t] = "tiles"]
  /\ UNCHANGED <<n_threads, cgraph, abort, ec, barrier, control, worker, node_n>>

\* mul_mat: the thread's share of the input is converted into the work
\* buffer, thread 0 sets the first chunk to be given away.
Quantise(t) ==
  /\ AtOp(t, {"mul_mat"})
  /\ computed' = computed \cup {GR!Piece(node_n[t], 1, t)}
  /\ current_chunk' = IF t = 0 THEN Nth ELSE current_chunk
  /\ chunk' = [chunk EXCEPT ![t] = t]
  /\ pc' = [pc EXCEPT ![t] = "barrier"]
  /\ after' = [after EXCEPT ![t] = "tiles"]
  /\ UNCHANGED <<n_threads, cgraph, abort, ec, barrier, control, worker, node_n>>

Tile(t) ==
  /\ pc[t] = "tiles"
  /\ chunk[t] < Chunks(cgraph)
  /\ computed' = computed \cup {GR!Piece(node_n[t], 2, chunk[t])}
  /\ IF Nth >= Chunks(cgraph)
       THEN Forwarded(t)
       ELSE pc' = [pc EXCEPT ![t] = "steal"] /\ UNCHANGED <<abort, ec, node_n, after>>
  /\ UNCHANGED <<n_threads, cgraph, current_chunk, barrier, control, worker, chunk>>

Steal(t) ==
  /\ Goto(t, "steal", "tiles")
  /\ chunk' = [chunk EXCEPT ![t] = current_chunk]
  /\ current_chunk' = current_chunk + 1
  /\ UNCHANGED <<n_threads, cgraph, abort, ec, barrier, control, worker, node_n, after,
                 computed>>

TilesDone(t) ==
  /\ pc[t] = "tiles"
  /\ chunk[t] >= Chunks(cgraph)
  /\ Forwarded(t)
  /\ UNCHANGED <<n_threads, cgraph, current_chunk, barrier, control, worker, chunk, computed>>

-----------------------------------------------------------------------------
(* ggml_barrier                                                            *)

\* What a thread does once it is through.
Through(t) ==
  /\ pc' = [pc EXCEPT ![t] = CASE after[t] = "tiles" -> "tiles"
                                [] after[t] = "next" -> "loop"
                                [] after[t] = "final" -> IF t = 0 THEN "done" ELSE "top"]
  /\ node_n' = IF after[t] = "next" THEN [node_n EXCEPT ![t] = @ + 1] ELSE node_n

BarrierAlone(t) ==
  /\ pc[t] = "barrier" /\ Nth = 1
  /\ Through(t)
  /\ UNCHANGED <<n_threads, params, barrier, control, worker, chunk, after, computed>>

BarrierLoad(t) ==
  /\ Nth # 1
  /\ Goto(t, "barrier", "enter")
  /\ seen' = [seen EXCEPT ![t] = n_barrier_passed]
  /\ UNCHANGED <<n_threads, params, n_barrier, n_barrier_passed, control, worker, node_n, chunk,
                 after, computed>>

BarrierEnter(t) ==
  /\ Goto(t, "enter", IF n_barrier = Nth - 1 THEN "open" ELSE "spin")
  /\ n_barrier' = IF n_barrier = Nth - 1 THEN 0 ELSE n_barrier + 1
  /\ UNCHANGED <<n_threads, params, n_barrier_passed, seen, control, worker, node_n, chunk,
                 after, computed>>

BarrierOpen(t) ==
  /\ pc[t] = "open"
  /\ n_barrier_passed' = n_barrier_passed + 1
  /\ Through(t)
  /\ UNCHANGED <<n_threads, params, n_barrier, seen, control, worker, chunk, after, computed>>

BarrierSpin(t) ==
  /\ pc[t] = "spin"
  /\ n_barrier_passed # seen[t]
  /\ Through(t)
  /\ UNCHANGED <<n_threads, params, barrier, control, worker, chunk, after, computed>>

-----------------------------------------------------------------------------

Barrier(t) == \/ BarrierAlone(t) \/ BarrierLoad(t) \/ BarrierEnter(t) \/ BarrierOpen(t)
              \/ BarrierSpin(t)
Forward(t) == Share(t) \/ Quantise(t) \/ Tile(t)
Graph(t) == Skip(t) \/ LeaveLoop(t) \/ Steal(t) \/ TilesDone(t) \/ Barrier(t)
Between(t) == t # 0 /\ (Top(t) \/ Poll(t) \/ CheckForWork(t) \/ Run(t))
Caller == Kickoff \/ Return \/ PauseOrResume \/ Free \/ Join

Init == \E n \in 1..MaxThreads, paused \in BOOLEAN : New(n, paused)

Next == \/ Caller \/ \E g \in Graphs : Reset(g)
        \/ \E t \in Thread : Forward(t) \/ Graph(t) \/ Between(t) \/ SpuriousWakeup(t)

Spec == Init /\ [][Next]_vars

=============================================================================
