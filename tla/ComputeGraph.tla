---------------------------- MODULE ComputeGraph ----------------------------
(***************************************************************************)
(* ggml's computation graphs, as far as they decide where tensors live and *)
(* which thread does what.  Tensors are numbered: the leafs, then the      *)
(* nodes in the order in which they are computed.  A graph is a record     *)
(*   leafs      how many of the tensors are leafs                          *)
(*   op         of each node: "empty" (a view: nothing to compute), "rows" *)
(*              (row by row, may work in place), "gather" (row by row, may *)
(*              not) or "mul_mat"                                          *)
(*   src        the sources of each tensor                                 *)
(*   view       the tensor that each is a view of, or 0                    *)
(*   size       in units of the alignment; one size is one layout          *)
(*   external   tensors with memory of their own: weights, the KV cache    *)
(*   outputs    tensors flagged as outputs                                 *)
(*   tiles      how many tiles a matrix product is cut into                *)
(*   n_threads, abortable   the plan's threads, whether it has a callback  *)
(***************************************************************************)
EXTENDS Integers, Sequences

CONSTANTS
  Graphs,
  TilesPerTask,   \* with fewer tiles per thread, each thread gets one (4)
  Capacity        \* bound: the memory a chunk may grow to

Tensors(g) == DOMAIN g.size

Cgraph == [leafs : Nat, op : Seq({"empty", "rows", "gather", "mul_mat"}),
           src : Seq(Seq(Nat)), view : Seq(Nat), size : Seq(Nat \ {0}),
           external : SUBSET Nat, outputs : SUBSET Nat,
           tiles : Nat, n_threads : Nat \ {0}, abortable : BOOLEAN]

ASSUME GraphsAssumption ==
  \A g \in Graphs : /\ g \in Cgraph
                    /\ Tensors(g) \subseteq Nat
                    /\ g.size \in [Tensors(g) -> Nat \ {0}]
                    /\ g.view \in [Tensors(g) -> {0} \cup Tensors(g)]
                    /\ g.src \in [Tensors(g) -> Seq(Tensors(g))]
ASSUME CapacityAssumption == Capacity \in Nat \ {0}

InPlaceOp == {"rows"}      \* ggml_op_can_inplace
Skipped(g, i) == g.op[i] = "empty"

\* mul_mat's nchunk0 * nchunk1
Chunks(g) == IF g.tiles < g.n_threads * TilesPerTask THEN g.n_threads ELSE g.tiles

=============================================================================
