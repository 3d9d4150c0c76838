--------------------------- MODULE MCGraphCompute ---------------------------
(* Graphs for GraphCompute: every small chain of operations, computed by   *)
(* one thread, and two larger graphs computed by several.                  *)
EXTENDS GraphCompute

\* A graph of the given nodes over two leafs: weights (1) and an input (2).
N(op, size, src) == [op |-> op, size |-> size, src |-> src]

RootOf(nodes, t) ==
  LET f[u \in 1..Len(nodes) + 2] ==
        IF u <= 2 \/ nodes[u - 2].op # "empty" THEN u ELSE f[nodes[u - 2].src[1]]
  IN f[t]

Make(nodes, outputs, threads, abortable) ==
  [leafs |-> 2, external |-> {1}, outputs |-> outputs,
   op |-> [i \in DOMAIN nodes |-> nodes[i].op],
   size |-> <<1, 1>> \o [i \in DOMAIN nodes |-> nodes[i].size],
   src |-> <<<<>>, <<>>>> \o [i \in DOMAIN nodes |-> nodes[i].src],
   view |-> <<0, 0>> \o [i \in DOMAIN nodes |->
              IF nodes[i].op = "empty" THEN RootOf(nodes, i + 2) ELSE 0],
   tiles |-> threads * TilesPerTask, n_threads |-> threads, abortable |-> abortable]

\* The nodes that may follow the tensors 2..k, whose sizes are given.
Following(k, size) ==
  {N("rows", size[a], <<a>>) : a \in 2..k}
    \cup {N("rows", size[k], <<k, a>>) : a \in 2..k}
    \cup {N("gather", s, <<a>>) : s \in {1, 2}, a \in 2..k}
    \cup {N("empty", size[a], <<a>>) : a \in 2..k}

SizesOf(nodes) == <<1, 1>> \o [i \in DOMAIN nodes |-> nodes[i].size]

Chains ==
  LET f[n \in 0..3] == IF n = 0 THEN {<<>>}
                       ELSE UNION {{Append(c, x) : x \in Following(n + 1, SizesOf(c))} : c \in f[n - 1]}
  IN f[3]

Small == {Make(c, {5} \cup {t \in {3} : c[1].op # "empty"}, 1, FALSE) :
            c \in {d \in Chains : d[3].op # "empty"}}

\* Attention in small: two projections, a view of one, their product, a
\* softmax in place, a product with the input, a residual.
Attention(n, threads, abortable) ==
  Make(<<N("mul_mat", n, <<1, 2>>), N("mul_mat", n, <<1, 2>>), N("empty", n, <<3>>),
         N("mul_mat", 1, <<5, 4>>), N("rows", 1, <<6>>), N("rows", 1, <<7, 2>>)>>,
       {8}, threads, abortable)

\* Blocks freed between others, beside others and beside the last one.
Holes(n, threads) ==
  Make(<<N("gather", n, <<2>>), N("gather", 1, <<2>>), N("gather", 2, <<3>>),
         N("rows", 1, <<4, 2>>), N("gather", n, <<5, 6>>), N("gather", 1, <<7, 3>>)>>,
       {8}, threads, FALSE)

Large == {[graphs |-> <<Holes(1, 1), Holes(3, 1)>>, pool |-> 1],
          [graphs |-> <<Holes(3, 1), Holes(2, 1)>>, pool |-> 1],
          [graphs |-> <<Attention(2, 3, TRUE)>>, pool |-> 3],
          [graphs |-> <<Attention(2, 2, FALSE), Attention(1, 2, FALSE)>>, pool |-> 2],
          [graphs |-> <<Attention(1, 1, FALSE), Attention(2, 2, FALSE)>>, pool |-> 2]}

MCWorkloads == Large \cup {[graphs |-> <<g>>, pool |-> 1] : g \in Small}
MCGraphs == UNION {{w.graphs[i] : i \in DOMAIN w.graphs} : w \in MCWorkloads}
=============================================================================
