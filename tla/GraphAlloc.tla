----------------------------- MODULE GraphAlloc -----------------------------
(***************************************************************************)
(* ggml's graph allocator (ggml-alloc.c): it walks a graph once, in the    *)
(* order of its nodes, and plans where in one buffer each tensor will      *)
(* live, so that tensors not needed at the same time share memory.         *)
(* The buffer is the one chunk the CPU backend needs.                      *)
(***************************************************************************)
EXTENDS ComputeGraph, SequencesExt

VARIABLES
  graph,               \* the graph the plan was made for
  free,                \* the free blocks of the chunk
  addr, allocated,     \* hash_node: offset, and whether it is the plan's own
  n_children, n_views,
  todo                 \* what is left of the walk

vars == <<graph, free, addr, allocated, n_children, n_views, todo>>

Op(t) == IF t <= graph.leafs THEN "none" ELSE graph.op[t - graph.leafs]
IsView(t) == graph.view[t] # 0
IsAllocated(t) == t \in graph.external \/ allocated[t]

-----------------------------------------------------------------------------
(* ggml_dyn_tallocr: the free blocks of a chunk                            *)

Block(o, s) == [offset |-> o, size |-> s]
EndOf(b) == b.offset + b.size

IsLast(b) == \A c \in free : c.offset <= b.offset

\* The smallest block that is large enough, of equals the one with the
\* highest address; the last block only when no other will do.
Fits(s) == {b \in free : ~IsLast(b) /\ b.size >= s}
BestFit(b, s) ==
  IF Fits(s) = {} THEN b \in free /\ IsLast(b) /\ b.size >= s
  ELSE b \in Fits(s) /\ \A c \in Fits(s) : \/ b.size < c.size
                                           \/ b.size = c.size /\ b.offset >= c.offset

WithoutFront(b, s) ==
  (free \ {b}) \cup {c \in {Block(b.offset + s, b.size - s)} : c.size # 0}

\* Mutant: only the block in front is looked at.
FreeBytesForward(b) ==
  LET left  == {c \in free : EndOf(c) = b.offset}
      start == IF left = {} THEN b.offset ELSE (CHOOSE c \in left : TRUE).offset
  IN (free \ left) \cup {Block(start, EndOf(b) - start)}

\* The block joins the free blocks it touches, on either side.
FreeBytes(b) ==
  LET left  == {c \in free : EndOf(c) = b.offset}
      right == {c \in free : c.offset = EndOf(b)}
      start == IF left = {} THEN b.offset ELSE (CHOOSE c \in left : TRUE).offset
      end   == IF right = {} THEN EndOf(b) ELSE EndOf(CHOOSE c \in right : TRUE)
  IN (free \ (left \cup right)) \cup {Block(start, end - start)}

Place(t) == Block(addr[t], graph.size[t])

-----------------------------------------------------------------------------

\* Uses of t as a source, and its views, as they are counted before the walk.
Uses(g, t) == FoldSeq(LAMBDA s, n : n + (IF s = t THEN 1 ELSE 0), 0, FlattenSeq(g.src))
Views(g, t) == Len(SelectSeq(g.view, LAMBDA v : v = t))

Allocs(s) == [i \in DOMAIN s |-> [op |-> "allocate", tensor |-> s[i]]]
Updates(s) == [i \in DOMAIN s |-> [op |-> "update", tensor |-> s[i]]]

\* Leafs first; then for each node its sources, itself, its sources again.
Walk(g) ==
  Allocs([i \in 1..g.leafs |-> i])
    \o FlattenSeq([i \in 1..Len(g.op) |->
          LET t == g.leafs + i IN Allocs(g.src[t]) \o Allocs(<<t>>) \o Updates(g.src[t])])

\* Mutant: a graph of the same shape keeps the plan.
NeedsReallocByCount(g) == Len(g.op) # Len(graph.op) \/ g.leafs # graph.leafs

\* The plan is kept if the graph has as many nodes and leafs and none of
\* its tensors has outgrown its place; the edges are not compared.
NeedsRealloc(g) ==
  \/ Len(g.op) # Len(graph.op) \/ g.leafs # graph.leafs
  \/ \E t \in Tensors(g) \ g.external :
       /\ t > g.leafs \/ Uses(g, t) > 0
       /\ g.view[t] = 0 /\ g.size[t] > graph.size[t]

InitWith(g) ==
  /\ graph = g
  /\ free = {Block(0, Capacity)}
  /\ addr = [t \in Tensors(graph) |-> 0]
  /\ allocated = [t \in Tensors(graph) |-> FALSE]
  /\ n_children = [t \in Tensors(graph) |-> Uses(graph, t)]
  /\ n_views = [t \in Tensors(graph) |-> Views(graph, t)]
  /\ todo = Walk(graph)

Init == \E g \in Graphs : InitWith(g)

\* ggml_gallocr_reserve, up to the walk.
Reserve(g) ==
  /\ todo = <<>>
  /\ graph' = g
  /\ free' = {Block(0, Capacity)}
  /\ addr' = [t \in Tensors(g) |-> 0]
  /\ allocated' = [t \in Tensors(g) |-> FALSE]
  /\ n_children' = [t \in Tensors(g) |-> Uses(g, t)]
  /\ n_views' = [t \in Tensors(g) |-> Views(g, t)]
  /\ todo' = Walk(g)

Doing(op, t) == todo # <<>> /\ Head(todo) = [op |-> op, tensor |-> t] /\ todo' = Tail(todo)

-----------------------------------------------------------------------------
(* ggml_gallocr_allocate_node                                              *)

\* The node may take the place of its source p, the first such source.  (A
\* view is never the plan's own, so the branch for views is not reached.)
Reusable(t, p) ==
  /\ Op(t) \in InPlaceOp
  /\ allocated[p]
  /\ p \notin graph.outputs
  /\ graph.size[p] = graph.size[t]
  /\ n_children[p] = 1 /\ n_views[p] = 0

ToPlace(t) == ~IsAllocated(t) /\ ~IsView(t)
Parents(t) == Range(graph.src[t])

AllocateNothing(t) ==
  /\ Doing("allocate", t)
  /\ ~ToPlace(t)
  /\ UNCHANGED <<graph, free, addr, allocated, n_children, n_views>>

\* Mutant: the source still counts as allocated and will be freed.
AllocateInPlaceKeeps(t) ==
  /\ Doing("allocate", t)
  /\ ToPlace(t)
  /\ \E p \in Parents(t) : Reusable(t, p) /\ addr' = [addr EXCEPT ![t] = addr[p]]
  /\ allocated' = [allocated EXCEPT ![t] = TRUE]
  /\ UNCHANGED <<graph, free, n_children, n_views>>

AllocateInPlace(t) ==
  /\ Doing("allocate", t)
  /\ ToPlace(t)
  /\ \E i \in DOMAIN graph.src[t] :
       LET p == graph.src[t][i] IN
       /\ Reusable(t, p)
       /\ \A k \in 1..i - 1 : ~Reusable(t, graph.src[t][k])
       /\ addr' = [addr EXCEPT ![t] = addr[p]]
       /\ allocated' = [allocated EXCEPT ![t] = TRUE, ![p] = FALSE]
  /\ UNCHANGED <<graph, free, n_children, n_views>>

AllocateBlock(t) ==
  /\ Doing("allocate", t)
  /\ ToPlace(t)
  /\ ~\E p \in Parents(t) : Reusable(t, p)
  /\ \E b \in free : /\ BestFit(b, graph.size[t])
                     /\ free' = WithoutFront(b, graph.size[t])
                     /\ addr' = [addr EXCEPT ![t] = b.offset]
  /\ allocated' = [allocated EXCEPT ![t] = TRUE]
  /\ UNCHANGED <<graph, n_children, n_views>>

-----------------------------------------------------------------------------
(* After a node: one source the fewer                                      *)

\* ggml_gallocr_free_node
FreeNode(t) ==
  IF t \in graph.outputs THEN UNCHANGED <<free, allocated>>
  ELSE free' = FreeBytes(Place(t)) /\ allocated' = [allocated EXCEPT ![t] = FALSE]

LastUse(p) == n_children[p] = 1 /\ n_views[p] = 0

OneUseLess(p) == n_children' = [n_children EXCEPT ![p] = @ - 1]

UpdateParent(p) ==
  /\ Doing("update", p)
  /\ ~IsView(p)
  /\ OneUseLess(p)
  /\ IF LastUse(p) /\ allocated[p] THEN FreeNode(p) ELSE UNCHANGED <<free, allocated>>
  /\ UNCHANGED <<graph, addr, n_views>>

UpdateView(p) ==
  /\ Doing("update", p)
  /\ IsView(p)
  /\ OneUseLess(p)
  /\ LET s == graph.view[p] IN
       IF LastUse(p)
         THEN /\ n_views' = [n_views EXCEPT ![s] = @ - 1]
              /\ IF n_views[s] = 1 /\ n_children[s] = 0 /\ allocated[s]
                   THEN FreeNode(s) ELSE UNCHANGED <<free, allocated>>
         ELSE UNCHANGED <<n_views, free, allocated>>
  /\ UNCHANGED <<graph, addr>>

-----------------------------------------------------------------------------

Step == \E t \in Tensors(graph) :
          \/ AllocateNothing(t) \/ AllocateInPlace(t) \/ AllocateBlock(t)
          \/ UpdateParent(t) \/ UpdateView(t)

Next == Step \/ \E g \in Graphs : NeedsRealloc(g) /\ Reserve(g)

Spec == Init /\ [][Next]_vars

-----------------------------------------------------------------------------
(* Properties                                                              *)

Disjoint(a, b) == EndOf(a) <= b.offset \/ EndOf(b) <= a.offset

\* Two tensors the plan holds at the same time never share memory, and no
\* free block overlaps a tensor or another free block: what is given back
\* is given back once, where it was, and as large as it was.
Apart ==
  /\ \A t, u \in Tensors(graph) :
       t # u /\ allocated[t] /\ allocated[u] => Disjoint(Place(t), Place(u))
  /\ \A t \in Tensors(graph), b \in free : allocated[t] => Disjoint(Place(t), b)
  /\ \A b, c \in free : b # c => Disjoint(b, c)

\* Free blocks that touch are one block: the buffer is not fragmented by the
\* order in which tensors happen to be freed.
Coalesced == \A b, c \in free : EndOf(b) # c.offset

=============================================================================
