------------------------------ MODULE GraphRun ------------------------------
(***************************************************************************)
(* What computing a ggml graph promises, however many threads share the    *)
(* work: the nodes are computed in their order, a node cut into pieces,    *)
(* each piece computed once and none before all the pieces of the stages   *)
(* ahead of it.  A run that succeeds has computed everything, one that is  *)
(* aborted has computed whole nodes only.                                  *)
(***************************************************************************)
EXTENDS ComputeGraph

VARIABLES run, computed, status

graphRun == <<run, computed, status>>

Piece(node, stage, part) == [node |-> node, stage |-> stage, part |-> part]

\* An operation is one stage, a share for each thread; a matrix product first
\* has its input quantised in shares, then its tiles are computed.
Pieces(g, i) ==
  {Piece(i, 1, t) : t \in IF Skipped(g, i) THEN {} ELSE 0..g.n_threads - 1}
    \cup {Piece(i, 2, c) : c \in IF g.op[i] = "mul_mat" THEN 0..Chunks(g) - 1 ELSE {}}

AllPieces(g) == UNION {Pieces(g, i) : i \in DOMAIN g.op}

Ahead(p, q) == p.node < q.node \/ (p.node = q.node /\ p.stage < q.stage)

WholeNodes(g) == \A i \in DOMAIN g.op : Pieces(g, i) \subseteq computed
                                          \/ Pieces(g, i) \cap computed = {}

-----------------------------------------------------------------------------

Init == run \in Graphs /\ computed = {} /\ status = "idle"

Start ==
  /\ status # "running"
  /\ status' = "running"
  /\ run' \in Graphs
  /\ computed' = {}

Compute(p) ==
  /\ status = "running"
  /\ p \notin computed /\ computed' = computed \cup {p}
  /\ {q \in AllPieces(run) : Ahead(q, p)} \subseteq computed
  /\ UNCHANGED <<run, status>>

Return ==
  /\ status = "running"
  /\ \/ status' = "success" /\ computed = AllPieces(run)
     \/ status' = "aborted" /\ run.abortable /\ computed # {} /\ WholeNodes(run)
  /\ UNCHANGED <<run, computed>>

Next == Start \/ Return \/ \E p \in AllPieces(run) : Compute(p)

Spec == Init /\ [][Next]_graphRun

=============================================================================
