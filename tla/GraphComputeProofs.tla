-------------------------- MODULE GraphComputeProofs --------------------------
(***************************************************************************)
(* Proofs about GraphCompute, for any graphs, workloads and number of      *)
(* threads.  The allocator: what a plan holds and what it keeps as free    *)
(* never overlap, and free blocks that touch are merged.  The thread pool: *)
(* its threads come to the same barriers, when the caller is back from a   *)
(* graph nobody is at work on it any more, and the pieces of the graph     *)
(* were computed as GraphRun promises, each of them once.                  *)
(***************************************************************************)
EXTENDS GraphCompute, TLAPS, FiniteSetTheorems, WellFoundedInduction

\* GraphAlloc's copy of ComputeGraph and this module's speak of the same tensors.
USE DEF Tensors, GA!Tensors

Blocks == [offset : Nat, size : Nat \ {0}]

PlanTyped ==
  /\ graph \in Graphs
  /\ free \subseteq Blocks
  /\ addr \in [Tensors(graph) -> Nat]
  /\ allocated \in [Tensors(graph) -> BOOLEAN]

PlanInv == PlanTyped /\ GA!Apart /\ GA!Coalesced

\* A block that is given back joins its neighbours into a block that covers
\* them and no more: the free blocks stay disjoint from each other and from
\* everything the block itself was disjoint from.
LEMMA FreeBytesApart ==
  ASSUME free \subseteq Blocks,
         \A b, c \in free : b # c => GA!Disjoint(b, c),
         NEW p \in Blocks,
         \A b \in free : GA!Disjoint(p, b),
         \A b, c \in free : GA!EndOf(b) # c.offset
  PROVE  /\ GA!FreeBytes(p) \subseteq Blocks
         /\ \A b, c \in GA!FreeBytes(p) : b # c => GA!Disjoint(b, c)
         /\ \A q \in Blocks : GA!Disjoint(q, p) /\ (\A b \in free : GA!Disjoint(q, b))
                                => \A c \in GA!FreeBytes(p) : GA!Disjoint(q, c)
         /\ \A b, c \in GA!FreeBytes(p) : GA!EndOf(b) # c.offset
<1> DEFINE left  == {c \in free : GA!EndOf(c) = p.offset}
           right == {c \in free : c.offset = GA!EndOf(p)}
           start == IF left = {} THEN p.offset ELSE (CHOOSE c \in left : TRUE).offset
           end   == IF right = {} THEN GA!EndOf(p) ELSE GA!EndOf(CHOOSE c \in right : TRUE)
           rest  == free \ (left \cup right)
           joined == GA!Block(start, end - start)
<1>1. GA!FreeBytes(p) = rest \cup {joined}
  BY DEF GA!FreeBytes
<1>2. /\ start \in Nat /\ start <= p.offset
      /\ start = p.offset \/ \E c \in free : c.offset = start /\ GA!EndOf(c) = p.offset
      /\ \A b \in rest : GA!EndOf(b) # start
  <2>1. CASE left = {}
    BY <2>1 DEF Blocks
  <2>2. CASE left # {}
    <3>1. (CHOOSE c \in left : TRUE) \in left
      BY <2>2
    <3>2. PICK c \in free : GA!EndOf(c) = p.offset /\ start = c.offset
      BY <2>2, <3>1
    <3> HIDE DEF start, left
    <3>3. start \in Nat /\ start <= p.offset
      BY <3>2 DEF Blocks, GA!EndOf
    <3>. QED
      BY <3>2, <3>3
  <2>. QED
    BY <2>1, <2>2
<1>3. /\ end \in Nat /\ GA!EndOf(p) <= end
      /\ end = GA!EndOf(p) \/ \E c \in free : GA!EndOf(c) = end /\ c.offset = GA!EndOf(p)
      /\ \A b \in rest : b.offset # end
  <2>1. CASE right = {}
    BY <2>1 DEF Blocks, GA!EndOf
  <2>2. CASE right # {}
    <3>1. (CHOOSE c \in right : TRUE) \in right
      BY <2>2
    <3>2. PICK c \in free : c.offset = GA!EndOf(p) /\ end = GA!EndOf(c)
      BY <2>2, <3>1
    <3> HIDE DEF end, right
    <3>3. end \in Nat /\ GA!EndOf(p) <= end
      BY <3>2 DEF Blocks, GA!EndOf
    <3>. QED
      BY <3>2, <3>3
  <2>. QED
    BY <2>1, <2>2
<1> HIDE DEF start, end
<1>4. /\ joined \in Blocks
      /\ joined.offset = start /\ GA!EndOf(joined) = end
  BY <1>2, <1>3 DEF GA!Block, Blocks, GA!EndOf
\* What is disjoint from the block and from its neighbours lies before or
\* after all of them.
<1>5. ASSUME NEW q \in Blocks, GA!Disjoint(q, p), \A b \in free : q = b \/ GA!Disjoint(q, b),
             q \notin left, q \notin right
      PROVE  GA!Disjoint(q, joined)
  <2>1. CASE GA!EndOf(q) <= p.offset
    <3>1. GA!EndOf(q) <= start
      BY <1>2, <1>5, <2>1 DEF GA!Disjoint, GA!EndOf, Blocks
    <3>. QED
      BY <3>1, <1>4 DEF GA!Disjoint
  <2>2. CASE GA!EndOf(p) <= q.offset
    <3>1. end <= q.offset
      BY <1>3, <1>5, <2>2 DEF GA!Disjoint, GA!EndOf, Blocks
    <3>. QED
      BY <3>1, <1>4 DEF GA!Disjoint
  <2>. QED
    BY <1>5, <2>1, <2>2 DEF GA!Disjoint
<1> HIDE DEF joined
<1>6. \A b \in rest : GA!Disjoint(b, joined) /\ GA!Disjoint(joined, b)
  BY <1>5 DEF GA!Disjoint
<1>7. \A b, c \in GA!FreeBytes(p) : b # c => GA!Disjoint(b, c)
  BY <1>1, <1>6
<1>8. ASSUME NEW q \in Blocks, GA!Disjoint(q, p), \A b \in free : GA!Disjoint(q, b)
      PROVE  \A c \in GA!FreeBytes(p) : GA!Disjoint(q, c)
  <2>1. q \notin free
    BY <1>8 DEF GA!Disjoint, GA!EndOf, Blocks
  <2>. QED
    BY <2>1, <1>1, <1>5, <1>8
<1>9. ASSUME NEW b \in GA!FreeBytes(p), NEW c \in GA!FreeBytes(p)
      PROVE  GA!EndOf(b) # c.offset
  <2>1. GA!EndOf(joined) # joined.offset
    BY <1>4 DEF Blocks, GA!EndOf
  <2>. QED
    BY <1>1, <1>2, <1>3, <1>4, <2>1
<1>. QED
  BY <1>1, <1>4, <1>7, <1>8, <1>9

-----------------------------------------------------------------------------

LEMMA InitPlan == ASSUME NEW g \in Graphs, GA!InitWith(g)  PROVE PlanInv
<1>1. /\ GA!Block(0, Capacity) \in Blocks
      /\ GA!EndOf(GA!Block(0, Capacity)) # GA!Block(0, Capacity).offset
  BY CapacityAssumption DEF GA!Block, GA!EndOf, Blocks
<1>. QED
  BY <1>1 DEF GA!InitWith, PlanInv, PlanTyped, GA!Apart, GA!Coalesced

LEMMA ReservePlan == ASSUME NEW g \in Graphs, GA!Reserve(g)  PROVE PlanInv'
<1>1. /\ GA!Block(0, Capacity) \in Blocks
      /\ GA!EndOf(GA!Block(0, Capacity)) # GA!Block(0, Capacity).offset
  BY CapacityAssumption DEF GA!Block, GA!EndOf, Blocks
<1>. QED
  BY <1>1 DEF GA!Reserve, PlanInv, PlanTyped, GA!Apart, GA!Coalesced

\* The node's place is its source's, which is given up for it.
LEMMA InPlacePlan ==
  ASSUME PlanInv, NEW t \in Tensors(graph), GA!AllocateInPlace(t)
  PROVE  PlanInv'
<1>1. PICK i \in DOMAIN graph.src[t] :
        /\ GA!Reusable(t, graph.src[t][i])
        /\ addr' = [addr EXCEPT ![t] = addr[graph.src[t][i]]]
        /\ allocated' = [allocated EXCEPT ![t] = TRUE, ![graph.src[t][i]] = FALSE]
  BY DEF GA!AllocateInPlace
<1> DEFINE p == graph.src[t][i]
<1>2. graph.src[t] \in Seq(Tensors(graph))
  BY GraphsAssumption DEF PlanInv, PlanTyped
<1>3. p \in Tensors(graph)
  BY <1>1, <1>2
<1>4. allocated[p] /\ graph.size[p] = graph.size[t] /\ ~allocated[t]
  BY <1>1 DEF GA!Reusable, GA!AllocateInPlace, GA!ToPlace, GA!IsAllocated
<1>5. graph' = graph /\ free' = free
  BY DEF GA!AllocateInPlace
<1> HIDE DEF p
<1>6. /\ addr' = [addr EXCEPT ![t] = addr[p]]
      /\ allocated' = [allocated EXCEPT ![t] = TRUE, ![p] = FALSE]
  BY <1>1 DEF p
<1>7. PlanTyped'
  BY <1>3, <1>5, <1>6 DEF PlanInv, PlanTyped
<1>8. GA!Place(t)' = GA!Place(p)
  BY <1>3, <1>4, <1>5, <1>6 DEF GA!Place, PlanInv, PlanTyped
<1>9. \A u \in Tensors(graph) : u # t => GA!Place(u)' = GA!Place(u)
  BY <1>3, <1>5, <1>6 DEF GA!Place, PlanInv, PlanTyped
<1>10. \A u \in Tensors(graph) : u # t /\ allocated'[u] => u # p /\ allocated[u]
  BY <1>3, <1>4, <1>6 DEF PlanInv, PlanTyped
<1>11. GA!Apart'
  BY <1>3, <1>4, <1>5, <1>8, <1>9, <1>10 DEF GA!Apart, PlanInv, GA!Disjoint
<1>12. GA!Coalesced'
  BY <1>5 DEF GA!Coalesced, PlanInv
<1>. QED
  BY <1>7, <1>11, <1>12 DEF PlanInv

\* The node's place is the front of a free block.
LEMMA BlockPlan ==
  ASSUME PlanInv, NEW t \in Tensors(graph), GA!AllocateBlock(t)
  PROVE  PlanInv'
<1>1. PICK b \in free : /\ GA!BestFit(b, graph.size[t])
                        /\ free' = GA!WithoutFront(b, graph.size[t])
                        /\ addr' = [addr EXCEPT ![t] = b.offset]
  BY DEF GA!AllocateBlock
<1> DEFINE s == graph.size[t]
           rest == GA!Block(b.offset + s, b.size - s)
<1>2. s \in Nat \ {0}
  BY GraphsAssumption DEF PlanInv, PlanTyped
<1>3. b.size >= s /\ b \in Blocks
  BY <1>1 DEF GA!BestFit, GA!Fits, PlanInv, PlanTyped
<1>4. graph' = graph /\ allocated' = [allocated EXCEPT ![t] = TRUE] /\ ~allocated[t]
  BY DEF GA!AllocateBlock, GA!ToPlace, GA!IsAllocated
<1>5. /\ GA!Place(t)' = GA!Block(b.offset, s)
      /\ \A u \in Tensors(graph) : u # t => GA!Place(u)' = GA!Place(u)
  BY <1>1, <1>4 DEF GA!Place, PlanInv, PlanTyped
<1> HIDE DEF s
<1>6. free' = (free \ {b}) \cup {c \in {rest} : c.size # 0}
  BY <1>1 DEF GA!WithoutFront, s
<1>7. rest.size # 0 => rest \in Blocks
  BY <1>2, <1>3 DEF GA!Block, Blocks
<1>8. PlanTyped'
  BY <1>1, <1>3, <1>4, <1>6, <1>7 DEF PlanInv, PlanTyped, Blocks
\* Whatever was disjoint from the block is disjoint from both its parts.
<1>9. ASSUME NEW q, q \in Blocks, GA!Disjoint(q, b)
      PROVE  /\ GA!Disjoint(q, GA!Block(b.offset, s)) /\ GA!Disjoint(GA!Block(b.offset, s), q)
             /\ GA!Disjoint(q, rest) /\ GA!Disjoint(rest, q)
  BY <1>2, <1>3, <1>9 DEF GA!Disjoint, GA!Block, Blocks, GA!EndOf
<1>10. GA!Disjoint(GA!Block(b.offset, s), rest)
  BY <1>2, <1>3 DEF GA!Disjoint, GA!Block, Blocks, GA!EndOf
<1>11. \A u \in Tensors(graph) : GA!Place(u) \in Blocks
  BY GraphsAssumption DEF PlanInv, PlanTyped, GA!Place, GA!Block, Blocks
<1> HIDE DEF rest
<1>12. \A c \in free' : c = rest \/ (c \in free /\ c # b)
  BY <1>6
<1>13. \A u \in Tensors(graph) : u # t /\ allocated'[u] =>
          /\ GA!Disjoint(GA!Place(u), b) /\ allocated[u]
          /\ \A c \in free : GA!Disjoint(GA!Place(u), c)
  BY <1>4 DEF PlanInv, PlanTyped, GA!Apart, GA!Coalesced
<1>14. \A c \in free : c # b => c \in Blocks /\ GA!Disjoint(c, b)
  BY DEF PlanInv, PlanTyped, GA!Apart, GA!Coalesced
<1>15. \A u, v \in Tensors(graph) :
         u # v /\ allocated'[u] /\ allocated'[v] => GA!Disjoint(GA!Place(u)', GA!Place(v)')
  BY <1>5, <1>9, <1>11, <1>13 DEF PlanInv, GA!Apart
<1>16. \A u \in Tensors(graph), c \in free' : allocated'[u] => GA!Disjoint(GA!Place(u)', c)
  BY <1>5, <1>9, <1>10, <1>11, <1>12, <1>13, <1>14
<1>17. \A c, d \in free' : c # d => GA!Disjoint(c, d)
  BY <1>9, <1>12, <1>14 DEF PlanInv, GA!Apart
\* A block that ended where the rest begins would have overlapped the block.
<1>18. ASSUME NEW c \in free', NEW d \in free'  PROVE GA!EndOf(c) # d.offset
  <2>1. c \in Blocks /\ d \in Blocks
    BY <1>6, <1>7, <1>8, <1>18 DEF PlanTyped
  <2>2. CASE c = rest /\ d = rest
    BY <2>1, <2>2 DEF Blocks, GA!EndOf
  <2>3. CASE c # rest /\ d # rest
    BY <1>12, <2>3 DEF PlanInv, GA!Coalesced
  <2>4. CASE c = rest /\ d # rest
    <3>1. GA!EndOf(rest) = GA!EndOf(b)
      BY <1>2, <1>3 DEF rest, GA!Block, GA!EndOf, Blocks
    <3>. QED
      BY <1>1, <1>12, <2>4, <3>1 DEF PlanInv, GA!Coalesced
  <2>5. CASE c # rest /\ d = rest
    <3>1. GA!Disjoint(c, b)
      BY <1>12, <1>14, <2>5
    <3>. QED
      BY <1>2, <1>3, <2>1, <2>5, <3>1 DEF rest, GA!Block, GA!EndOf, GA!Disjoint, Blocks
  <2>. QED
    BY <2>2, <2>3, <2>4, <2>5
<1>. QED
  BY <1>4, <1>8, <1>15, <1>16, <1>17, <1>18 DEF PlanInv, GA!Apart, GA!Coalesced

\* Giving a tensor's place back.
LEMMA FreePlan ==
  ASSUME PlanInv, NEW t \in Tensors(graph), allocated[t], GA!FreeNode(t),
         UNCHANGED <<graph, addr>>
  PROVE  PlanInv'
<1>1. CASE t \in graph.outputs
  BY <1>1 DEF GA!FreeNode, PlanInv, PlanTyped, GA!Apart, GA!Coalesced, GA!Place
<1>2. CASE t \notin graph.outputs
  <2>1. free' = GA!FreeBytes(GA!Place(t)) /\ allocated' = [allocated EXCEPT ![t] = FALSE]
    BY <1>2 DEF GA!FreeNode
  <2>2. \A u \in Tensors(graph) : GA!Place(u) \in Blocks /\ GA!Place(u)' = GA!Place(u)
    BY GraphsAssumption DEF PlanInv, PlanTyped, GA!Place, GA!Block, Blocks
  <2>3. /\ free' \subseteq Blocks
        /\ \A b, c \in free' : b # c => GA!Disjoint(b, c)
        /\ \A q \in Blocks : GA!Disjoint(q, GA!Place(t)) /\ (\A b \in free : GA!Disjoint(q, b))
                               => \A c \in free' : GA!Disjoint(q, c)
        /\ \A b, c \in free' : GA!EndOf(b) # c.offset
    <3>1. /\ free \subseteq Blocks /\ GA!Place(t) \in Blocks
          /\ \A b, c \in free : b # c => GA!Disjoint(b, c)
          /\ \A b \in free : GA!Disjoint(GA!Place(t), b)
          /\ \A b, c \in free : GA!EndOf(b) # c.offset
      BY <2>2 DEF PlanInv, PlanTyped, GA!Apart, GA!Coalesced
    <3>. QED
      BY <2>1, <3>1, FreeBytesApart
  <2>4. PlanTyped'
    BY <2>1, <2>3 DEF PlanInv, PlanTyped
  <2>5. \A u \in Tensors(graph) : allocated'[u] => u # t /\ allocated[u]
    BY <2>1 DEF PlanInv, PlanTyped
  <2>6. \A u \in Tensors(graph), c \in free' : allocated'[u] => GA!Disjoint(GA!Place(u), c)
    BY <2>2, <2>3, <2>5 DEF PlanInv, GA!Apart
  <2>. QED
    BY <2>2, <2>3, <2>4, <2>5, <2>6 DEF PlanInv, GA!Apart, GA!Coalesced
<1>. QED
  BY <1>1, <1>2

LEMMA NothingFreed ==
  ASSUME PlanInv, UNCHANGED <<graph, addr, free, allocated>>
  PROVE  PlanInv'
BY DEF PlanInv, PlanTyped, GA!Apart, GA!Coalesced, GA!Place

LEMMA StepPlan == ASSUME PlanInv, GA!Step  PROVE PlanInv'
<1>1. ASSUME NEW t \in Tensors(graph), GA!AllocateNothing(t)  PROVE PlanInv'
  BY <1>1, NothingFreed DEF GA!AllocateNothing
<1>2. ASSUME NEW t \in Tensors(graph), GA!AllocateInPlace(t)  PROVE PlanInv'
  BY <1>2, InPlacePlan
<1>3. ASSUME NEW t \in Tensors(graph), GA!AllocateBlock(t)  PROVE PlanInv'
  BY <1>3, BlockPlan
<1>4. ASSUME NEW t \in Tensors(graph), GA!UpdateParent(t)  PROVE PlanInv'
  <2>1. UNCHANGED <<graph, addr>>
    BY <1>4 DEF GA!UpdateParent
  <2>2. CASE GA!LastUse(t) /\ allocated[t]
    BY <1>4, <2>1, <2>2, FreePlan DEF GA!UpdateParent
  <2>3. CASE ~(GA!LastUse(t) /\ allocated[t])
    BY <1>4, <2>1, <2>3, NothingFreed DEF GA!UpdateParent
  <2>. QED
    BY <2>2, <2>3
<1>5. ASSUME NEW t \in Tensors(graph), GA!UpdateView(t)  PROVE PlanInv'
  <2>1. UNCHANGED <<graph, addr>>
    BY <1>5 DEF GA!UpdateView
  <2> DEFINE s == graph.view[t]
  <2>2. s \in Tensors(graph)
    BY <1>5, GraphsAssumption DEF GA!UpdateView, GA!IsView, PlanInv, PlanTyped
  <2>3. CASE GA!LastUse(t) /\ n_views[s] = 1 /\ n_children[s] = 0 /\ allocated[s]
    <3>1. GA!FreeNode(s) /\ allocated[s]
      BY <1>5, <2>3 DEF GA!UpdateView
    <3>. QED
      BY <2>1, <2>2, <3>1, FreePlan
  <2>4. CASE ~(GA!LastUse(t) /\ n_views[s] = 1 /\ n_children[s] = 0 /\ allocated[s])
    BY <1>5, <2>1, <2>4, NothingFreed DEF GA!UpdateView
  <2>. QED
    BY <2>3, <2>4
<1>. QED
  BY <1>1, <1>2, <1>3, <1>4, <1>5 DEF GA!Step

-----------------------------------------------------------------------------
(* The thread pool: which barrier a thread comes to next                   *)

Abort == {None} \cup Nat
Mark == Nat \X {"tiles", "next", "final", "done"}

\* The loop of g, told to stop before node a, goes on to the first node that
\* is not skipped, or to its end.
Stop(g, a, i) == i > Len(g.op) \/ a = i \/ ~Skipped(g, i)
Target(g, a, n) ==
  CHOOSE i \in n..n + Len(g.op) : Stop(g, a, i) /\ \A j \in n..i - 1 : ~Stop(g, a, j)

\* The barrier a thread comes to next: the node at which it is held and what
\* it does once it is through.  The last barrier is behind the last node, or at
\* the node of the abort.
AfterWork(g, i) == IF i < Len(g.op) THEN <<i, "next">> ELSE <<i + 1, "final">>
AtNode(g, a, i) == IF i > Len(g.op) \/ a = i THEN <<i, "final">>
                   ELSE IF g.op[i] = "mul_mat" THEN <<i, "tiles">>
                   ELSE AfterWork(g, i)
FromLoop(g, a, n) == AtNode(g, a, Target(g, a, n))
AfterBarrier(g, a, n, what) == IF what = "tiles" THEN AfterWork(g, n)
                               ELSE IF what = "next" THEN FromLoop(g, a, n + 1)
                               ELSE <<n, "done">>

LEMMA TargetProperty ==
  ASSUME NEW g \in Cgraph, NEW a \in Abort, NEW n \in Nat \ {0}
  PROVE  /\ Target(g, a, n) \in Nat /\ n <= Target(g, a, n)
         /\ Stop(g, a, Target(g, a, n))
         /\ \A j \in n..Target(g, a, n) - 1 : ~Stop(g, a, j)
<1> DEFINE T == {i \in n..n + Len(g.op) : Stop(g, a, i)}
<1>1. Len(g.op) \in Nat
  BY DEF Cgraph
<1>2. n + Len(g.op) \in T
  BY <1>1 DEF Stop
<1>3. PICK i \in T : \A j \in T : i <= j
  <2>1. IsWellFoundedOn(OpToRel(<, Nat), Nat)
    BY NatLessThanWellFounded
  <2>2. T \subseteq Nat /\ T # {}
    BY <1>1, <1>2
  <2> HIDE DEF T
  <2>3. PICK i \in T : \A j \in T : <<j, i>> \notin OpToRel(<, Nat)
    BY <2>1, <2>2, WFMin
  <2>4. \A j \in T : ~(j < i)
    BY <2>2, <2>3 DEF OpToRel
  <2>. QED
    BY <2>2, <2>4
<1>4. i \in n..n + Len(g.op) /\ Stop(g, a, i) /\ \A j \in n..i - 1 : ~Stop(g, a, j)
  BY <1>1, <1>3
<1>. QED
  BY <1>1, <1>4 DEF Target

\* What is known of it determines it.
LEMMA TargetUnique ==
  ASSUME NEW g \in Cgraph, NEW a \in Abort, NEW n \in Nat \ {0}, NEW i \in Nat,
         n <= i, Stop(g, a, i), \A j \in n..i - 1 : ~Stop(g, a, j)
  PROVE  Target(g, a, n) = i
<1> DEFINE u == Target(g, a, n)
<1>1. u \in Nat /\ n <= u /\ Stop(g, a, u) /\ \A j \in n..u - 1 : ~Stop(g, a, j)
  BY TargetProperty
<1> HIDE DEF u
<1>2. ~(u < i) /\ ~(i < u)
  BY <1>1
<1>. QED
  BY <1>1, <1>2 DEF u

LEMMA TargetOfSkipped ==
  ASSUME NEW g \in Cgraph, NEW a \in Abort, NEW n \in Nat \ {0}, ~Stop(g, a, n)
  PROVE  FromLoop(g, a, n) = FromLoop(g, a, n + 1)
<1> DEFINE u == Target(g, a, n + 1)
<1>1. /\ u \in Nat /\ n + 1 <= u /\ Stop(g, a, u)
      /\ \A j \in n + 1..u - 1 : ~Stop(g, a, j)
  BY TargetProperty
<1> HIDE DEF u
<1>2. \A j \in n..u - 1 : ~Stop(g, a, j)
  BY <1>1
<1>3. Target(g, a, n) = u
  BY <1>1, <1>2, TargetUnique
<1>. QED
  BY <1>3 DEF FromLoop, u

LEMMA TargetOfStop ==
  ASSUME NEW g \in Cgraph, NEW a \in Abort, NEW n \in Nat \ {0}, Stop(g, a, n)
  PROVE  FromLoop(g, a, n) = AtNode(g, a, n)
<1>1. Target(g, a, n) = n
  BY TargetUnique
<1>. QED
  BY <1>1 DEF FromLoop

\* A thread that has not reached node n when thread 0 asks for the abort after
\* it still comes to the barrier behind n.
LEMMA AbortIsBehind ==
  ASSUME NEW g \in Cgraph, NEW n \in Nat \ {0}, NEW m \in Nat \ {0},
         FromLoop(g, None, m) = AfterWork(g, n)
  PROVE  FromLoop(g, n + 1, m) = AfterWork(g, n)
<1> DEFINE u == Target(g, None, m)
<1>1. None \in Abort /\ n + 1 \in Abort /\ Len(g.op) \in Nat
  BY DEF Abort, Cgraph
<1>2. /\ u \in Nat /\ m <= u /\ Stop(g, None, u)
      /\ \A j \in m..u - 1 : ~Stop(g, None, j)
  BY <1>1, TargetProperty
<1>3. AtNode(g, None, u) = AfterWork(g, n)
  BY DEF FromLoop
<1> HIDE DEF u
\* The thread comes to n itself, or is behind the last node.
<1>4. u = n \/ (u = n + 1 /\ n >= Len(g.op))
  BY <1>1, <1>2, <1>3 DEF AtNode, AfterWork, None
<1>6. \A j \in m..u - 1 : j <= Len(g.op) /\ Skipped(g, j)
  BY <1>2 DEF Stop
<1>7. \A j \in m..u - 1 : ~Stop(g, n + 1, j)
  BY <1>1, <1>2, <1>4, <1>6 DEF Stop
<1>8. Stop(g, n + 1, u)
  BY <1>2 DEF Stop, None
<1>9. FromLoop(g, n + 1, m) = AtNode(g, n + 1, u)
  BY <1>1, <1>2, <1>7, <1>8, TargetUnique DEF FromLoop
<1>. QED
  BY <1>1, <1>2, <1>3, <1>4, <1>9 DEF AtNode, AfterWork, None

LEMMA NotDone ==
  ASSUME NEW g \in Cgraph, NEW a \in Abort, NEW n \in Nat \ {0}
  PROVE  FromLoop(g, a, n)[2] # "done" /\ AfterWork(g, n)[2] # "done"
BY DEF FromLoop, AtNode, AfterWork

-----------------------------------------------------------------------------
(* The thread pool: where its threads are                                  *)

Off == {"top", "paused", "poll", "locked", "asleep", "exited"}
OutsideGraph == {"idle", "kickoff", "done", "joining", "freed"}
InGraph == {"loop", "tiles", "steal", "barrier", "enter", "open", "spin"}
AtBarrier == {"barrier", "enter", "open", "spin"}

Parties == 0..Nth - 1

Waiting(t) == pc[t] = "spin" /\ seen[t] = n_barrier_passed
Released(t) == pc[t] = "spin" /\ seen[t] # n_barrier_passed

\* A worker that has not seen the graph yet, or not begun it.
Fresh(t) == t # 0 /\ (n_graph # last_graph[t] \/ pc[t] = "run")

\* Out of the last graph, or let out of it.
Left(t) == pc[t] \in Off \cup OutsideGraph \/ (Released(t) /\ after[t] = "final")

Position(t) ==
  IF Fresh(t) THEN FromLoop(cgraph, abort, 1)
  ELSE IF Left(t) THEN <<node_n[t], "done">>
  ELSE IF pc[t] = "loop" THEN FromLoop(cgraph, abort, node_n[t])
  ELSE IF pc[t] \in {"tiles", "steal"} THEN AfterWork(cgraph, node_n[t])
  ELSE IF Released(t) THEN AfterBarrier(cgraph, abort, node_n[t], after[t])
  ELSE <<node_n[t], after[t]>>

GraphCount == [count : Nat, n_threads : 0..MaxThreads]

PoolTyped ==
  /\ n_threads \in 1..MaxThreads
  /\ cgraph \in Runnable
  /\ abort \in Abort
  /\ n_graph \in GraphCount
  /\ n_barrier \in Nat /\ n_barrier_passed \in Nat
  /\ pc \in [Thread -> Off \cup OutsideGraph \cup InGraph \cup {"run"}]
  /\ node_n \in [Thread -> Nat \ {0}]
  /\ seen \in [Thread -> Nat]
  /\ after \in [Thread -> {"tiles", "next", "final"}]
  /\ pending \in [Thread -> BOOLEAN]
  /\ last_graph \in [Thread -> GraphCount]

\* Only the threads of the graph are in it, a worker only once it has seen the
\* graph, and a worker holds work while it is about to begin it.
Placed(t) ==
  /\ t = 0 => /\ pc[t] \in OutsideGraph \cup InGraph
              /\ pc[t] = "kickoff" => cgraph.n_threads <= n_threads
  /\ t # 0 => /\ pc[t] \in Off \cup InGraph \cup {"run"}
              /\ pending[t] <=> pc[t] = "run"
              /\ last_graph[t].count <= n_graph.count
              /\ n_graph # last_graph[t] => Left(t)
  /\ t \notin Parties => Left(t)

\* Every thread of the graph comes to the same barrier next.
Together == \A t, u \in Parties : Position(t) = Position(u)

\* The barrier counts the threads that wait at it; the last to come resets
\* the count and then opens it.
Counting ==
  /\ \A t \in Thread : /\ seen[t] <= n_barrier_passed
                       /\ pc[t] \in {"enter", "open"} => seen[t] = n_barrier_passed
  /\ (\A t \in Thread : pc[t] # "open") => n_barrier = Cardinality({t \in Thread : Waiting(t)})
  /\ \A o \in Thread : pc[o] = "open" => /\ n_barrier = 0
                                         /\ \A t \in Parties \ {o} : Waiting(t)

\* Thread 0 has asked for an abort: its loop ends at the next node.
Aborting ==
  \/ abort = None
  \/ pc[0] = "loop" /\ ~InLoop(0)
  \/ pc[0] \in AtBarrier /\ after[0] = "final"
  \/ pc[0] \in AtBarrier /\ after[0] = "next" /\ abort = node_n[0] + 1
  \/ pc[0] \in OutsideGraph \ {"kickoff"}

PoolInv == PoolTyped /\ (\A t \in Thread : Placed(t)) /\ Together /\ Counting /\ Aborting

-----------------------------------------------------------------------------

LEMMA RunnableGraph ==
  \A g \in Runnable : g \in Cgraph /\ g.n_threads <= MaxThreads
<1> SUFFICES ASSUME NEW h \in Runnable  PROVE h \in Cgraph /\ h.n_threads <= MaxThreads
  OBVIOUS
<1>1. PICK g \in Graphs, n \in 1..MaxThreads : h = Capped(g, n)
  BY DEF Runnable
<1>2. g \in Cgraph /\ n \in Nat \ {0} /\ n <= MaxThreads
  BY GraphsAssumption, ThreadsAssumption
<1>3. DOMAIN g = {"leafs", "op", "src", "view", "size", "external", "outputs", "tiles",
                  "n_threads", "abortable"}
  BY <1>2 DEF Cgraph
<1> DEFINE k == IF g.n_threads > n THEN n ELSE g.n_threads
<1>4. k \in Nat \ {0} /\ k <= MaxThreads
  BY <1>2, ThreadsAssumption DEF Cgraph
<1>5. h = [g EXCEPT !.n_threads = k]
  BY <1>1 DEF Capped
<1> HIDE DEF k
<1>6. h \in Cgraph
  BY <1>2, <1>4, <1>5 DEF Cgraph
<1>. QED
  BY <1>3, <1>4, <1>5, <1>6

LEMMA ThreadZero == 0 \in Thread
BY ThreadsAssumption DEF Thread

LEMMA PartiesAreThreads ==
  ASSUME PoolTyped
  PROVE  Nth \in Nat /\ Parties \subseteq Thread /\ IsFiniteSet(Thread) /\ 0 \in Thread
<1>1. Nth \in 0..MaxThreads
  BY DEF PoolTyped, GraphCount, Nth
<1>2. IsFiniteSet(Thread)
  BY ThreadsAssumption, FS_Interval DEF Thread
<1>. QED
  BY <1>1, <1>2, ThreadsAssumption DEF Parties, Thread

LEMMA Inside ==
  ASSUME PoolInv, NEW s \in Thread, pc[s] \in InGraph, ~Released(s)
  PROVE  ~Left(s) /\ s \in Parties /\ ~Fresh(s)
BY DEF PoolInv, Placed, Left, Fresh, InGraph, Off, OutsideGraph

\* What the other threads of a step may rely on: only s moves.
OnlyMoves(s) ==
  /\ UNCHANGED <<n_threads, cgraph, n_graph, n_barrier_passed>>
  /\ \A t \in Thread \ {s} :
       /\ pc'[t] = pc[t] /\ node_n'[t] = node_n[t] /\ seen'[t] = seen[t]
       /\ after'[t] = after[t] /\ pending'[t] = pending[t] /\ last_graph'[t] = last_graph[t]

LEMMA OthersStay ==
  ASSUME NEW s \in Thread, OnlyMoves(s), NEW t \in Thread, t # s
  PROVE  /\ Placed(t) => Placed(t)'
         /\ abort' = abort => Position(t)' = Position(t)
         /\ Waiting(t)' <=> Waiting(t)
<1>1. /\ n_graph' = n_graph /\ n_threads' = n_threads /\ cgraph' = cgraph
      /\ n_barrier_passed' = n_barrier_passed
      /\ pc'[t] = pc[t] /\ node_n'[t] = node_n[t] /\ seen'[t] = seen[t]
      /\ after'[t] = after[t] /\ pending'[t] = pending[t] /\ last_graph'[t] = last_graph[t]
  BY DEF OnlyMoves
<1>2. Left(t)' <=> Left(t)
  BY <1>1 DEF Left, Released
<1>3. (t \in Parties)' <=> t \in Parties
  BY <1>1 DEF Parties, Nth
<1>. QED
  BY <1>1, <1>2, <1>3 DEF Placed, Position, Waiting, Released, Fresh

\* A thread that moves, but neither to the barrier nor away from it.
LEMMA MovesTogether ==
  ASSUME PoolInv, NEW s \in Thread, PoolTyped', OnlyMoves(s), n_barrier' = n_barrier,
         Placed(s)', Together', Aborting',
         pc[s] # "open", pc'[s] # "open", Waiting(s)' <=> Waiting(s),
         seen'[s] <= n_barrier_passed, pc'[s] = "enter" => seen'[s] = n_barrier_passed
  PROVE  PoolInv'
<1>1. n_barrier_passed' = n_barrier_passed /\ Parties' = Parties /\ Parties \subseteq Thread
  BY PartiesAreThreads DEF OnlyMoves, Parties, Nth, PoolInv
<1>2. \A t \in Thread : Placed(t)'
  BY OthersStay DEF PoolInv
<1>3. \A t \in Thread : Waiting(t)' <=> Waiting(t)
  BY OthersStay
<1>4. {t \in Thread : Waiting(t)}' = {t \in Thread : Waiting(t)}
  BY <1>3
<1>5. \A t \in Thread \ {s} : pc'[t] = pc[t] /\ seen'[t] = seen[t]
  BY DEF OnlyMoves
<1>6. Counting'
  <2>1. \A t \in Thread : /\ seen'[t] <= n_barrier_passed'
                          /\ pc'[t] \in {"enter", "open"} => seen'[t] = n_barrier_passed'
    BY <1>1, <1>5 DEF PoolInv, Counting
  <2>2. (\A t \in Thread : pc'[t] # "open") => \A t \in Thread : pc[t] # "open"
    BY <1>5
  <2>3. \A o \in Thread : pc'[o] = "open" => pc[o] = "open"
    BY <1>5
  <2>. QED
    BY <1>1, <1>3, <1>4, <2>1, <2>2, <2>3 DEF PoolInv, Counting
<1>. QED
  BY <1>2, <1>6 DEF PoolInv

\* A thread that moves on towards the barrier it was coming to.
LEMMA Moves ==
  ASSUME PoolInv, NEW s \in Thread, PoolTyped', OnlyMoves(s),
         UNCHANGED <<abort, n_barrier>>,
         Placed(s)', s \in Parties => Position(s)' = Position(s), Aborting',
         pc[s] # "open", pc'[s] # "open", Waiting(s)' <=> Waiting(s),
         seen'[s] <= n_barrier_passed, pc'[s] = "enter" => seen'[s] = n_barrier_passed
  PROVE  PoolInv'
<1>1. Parties' = Parties /\ Parties \subseteq Thread
  BY PartiesAreThreads DEF OnlyMoves, Parties, Nth, PoolInv
<1>2. \A t \in Parties : Position(t)' = Position(t)
  BY <1>1, OthersStay
<1>3. Together'
  BY <1>1, <1>2 DEF PoolInv, Together
<1>. QED
  BY <1>3, MovesTogether

\* A worker has no part in asking for an abort.
LEMMA WorkersDoNotAbort ==
  ASSUME PoolInv, NEW s \in Thread \ {0}, OnlyMoves(s), abort' = abort
  PROVE  Aborting'
<1>1. /\ pc'[0] = pc[0] /\ node_n'[0] = node_n[0] /\ after'[0] = after[0]
      /\ cgraph' = cgraph
  BY ThreadZero DEF OnlyMoves
<1>. QED
  BY <1>1 DEF PoolInv, Aborting, InLoop

-----------------------------------------------------------------------------
(* A worker between graphs, and spurious wake-ups                          *)

\* A worker that stays out of the graph.
LEMMA StaysOff ==
  ASSUME PoolInv, NEW t \in Thread \ {0}, PoolTyped', OnlyMoves(t),
         UNCHANGED <<abort, n_barrier, seen, after, last_graph, pending>>,
         pc[t] \in Off, pc'[t] \in Off, pc'[0] = pc[0], node_n' = node_n
  PROVE  PoolInv'
<1>1. Left(t) /\ Left(t)' /\ ~Waiting(t) /\ ~Waiting(t)'
  BY DEF Left, Waiting, Off
<1>2. pc[t] # "run" /\ pc'[t] # "run" /\ pc'[t] \notin {"enter", "open"} /\ pc[t] # "open"
  BY DEF Off
<1>3. n_graph' = n_graph /\ cgraph' = cgraph /\ n_barrier_passed' = n_barrier_passed
  BY DEF OnlyMoves
<1>4. Position(t)' = Position(t)
  BY <1>1, <1>2, <1>3 DEF Position, Fresh
<1>5. Placed(t)'
  BY <1>1, <1>2, <1>3 DEF Placed, PoolInv
<1>6. Aborting'
  BY <1>3 DEF PoolInv, Aborting, InLoop
<1>7. seen'[t] <= n_barrier_passed
  BY DEF PoolInv, Counting
<1>. QED
  BY <1>1, <1>2, <1>4, <1>5, <1>6, <1>7, Moves

LEMMA TopInv == ASSUME PoolInv, NEW t \in Thread \ {0}, Top(t)  PROVE PoolInv'
<1>1. pc[t] \in Off /\ pc'[t] \in Off /\ pc' = [pc EXCEPT ![t] = pc'[t]]
  BY DEF Top, Goto, Off, PoolInv, PoolTyped
<1>. QED
  <2>1. PoolTyped' /\ OnlyMoves(t)
    BY <1>1 DEF Top, OnlyMoves, PoolInv, PoolTyped, params, barrier, control, worker
  <2>2. pc'[0] = pc[0]
    BY <1>1, ThreadZero DEF PoolInv, PoolTyped
  <2>. QED
    BY <1>1, <2>1, <2>2, StaysOff DEF Top, params, barrier, control, worker

LEMMA SpuriousWakeupInv == ASSUME PoolInv, NEW t \in Thread, SpuriousWakeup(t)  PROVE PoolInv'
<1>1. t # 0
  BY DEF SpuriousWakeup, PoolInv, Placed, OutsideGraph, InGraph
<1>2. pc[t] \in Off /\ pc'[t] \in Off /\ pc' = [pc EXCEPT ![t] = pc'[t]]
  BY DEF SpuriousWakeup, Goto, Woken, Off, PoolInv, PoolTyped
<1>. QED
  <2>1. PoolTyped' /\ OnlyMoves(t)
    BY <1>2 DEF SpuriousWakeup, OnlyMoves, PoolInv, PoolTyped, params, barrier, control, worker
  <2>2. pc'[0] = pc[0]
    BY <1>1, <1>2, ThreadZero DEF PoolInv, PoolTyped
  <2>. QED
    BY <1>1, <1>2, <2>1, <2>2, StaysOff DEF SpuriousWakeup, params, barrier, control, worker

\* A worker takes note of a graph; it has a part in it or not.
LEMMA TakesWork ==
  ASSUME PoolInv, NEW t \in Thread \ {0}, PoolTyped', OnlyMoves(t), TakeWork(t), Ready(t),
         UNCHANGED <<abort, n_barrier, seen, after, node_n>>,
         pc[t] \in {"poll", "locked"}, pc'[t] \in Off \cup {"run"}, pc'[0] = pc[0],
         pending'[t] <=> pc'[t] = "run"
  PROVE  PoolInv'
<1>1. Left(t) /\ ~Waiting(t) /\ ~Waiting(t)' /\ ~pending[t]
  BY DEF Left, Waiting, Off, PoolInv, Placed
<1>2. pc[t] \notin {"run", "open"} /\ pc'[t] \notin {"enter", "open"}
  BY DEF Off
<1>3. n_graph' = n_graph /\ cgraph' = cgraph /\ n_barrier_passed' = n_barrier_passed
  BY DEF OnlyMoves
<1>4. Aborting'
  BY <1>3 DEF PoolInv, Aborting, InLoop
<1>5. seen'[t] <= n_barrier_passed
  BY DEF PoolInv, Counting
<1>6. CASE UNCHANGED worker
  <2>1. pc'[t] \in Off /\ Left(t)'
    BY <1>1, <1>6 DEF worker, Left
  <2>. QED
    BY <2>1, <1>6, StaysOff DEF worker, Off
<1>7. CASE ~(stop \/ pause)
  <2>1. /\ n_graph # last_graph[t]
        /\ pending'[t] <=> t < Nth
        /\ last_graph'[t] = n_graph
    BY <1>1, <1>7 DEF TakeWork, Ready, PoolInv, PoolTyped
  <2>2. Position(t) = FromLoop(cgraph, abort, 1)
    BY <2>1 DEF Position, Fresh
  <2>3. t \in Parties <=> t < Nth
    <3>1. Nth \in Nat /\ t \in Nat
      BY PartiesAreThreads, ThreadsAssumption DEF PoolInv, Thread
    <3>. QED
      BY <3>1 DEF Parties
  <2>4. t \in Parties => Position(t)' = Position(t)
    BY <2>1, <2>2, <2>3, <1>3 DEF Position, Fresh
  <2>5. Placed(t)'
    <3>1. Nth' = Nth /\ Parties' = Parties /\ n_graph.count \in Nat
      BY <1>3 DEF Nth, Parties, PoolInv, PoolTyped, GraphCount
    <3>2. t \notin Parties => Left(t)'
      BY <2>1, <2>3 DEF Left
    <3>. QED
      BY <1>3, <2>1, <3>1, <3>2 DEF Placed
  <2>. QED
    BY <1>1, <1>2, <1>4, <1>5, <2>4, <2>5, Moves
<1>. QED
  BY <1>1, <1>6, <1>7 DEF TakeWork, worker

LEMMA TakesForItself ==
  ASSUME PoolInv, NEW t \in Thread, TakeWork(t)
  PROVE  /\ pending' \in [Thread -> BOOLEAN] /\ last_graph' \in [Thread -> GraphCount]
         /\ \A u \in Thread \ {t} : pending'[u] = pending[u] /\ last_graph'[u] = last_graph[u]
<1>1. CASE UNCHANGED worker
  BY <1>1 DEF worker, PoolInv, PoolTyped
<1>2. CASE /\ pending' = [pending EXCEPT ![t] = t < Nth]
           /\ last_graph' = [last_graph EXCEPT ![t] = n_graph]
  BY <1>2 DEF PoolInv, PoolTyped
<1>. QED
  BY <1>1, <1>2 DEF TakeWork

LEMMA PollInv == ASSUME PoolInv, NEW t \in Thread \ {0}, Poll(t)  PROVE PoolInv'
<1>1. /\ pc' = [pc EXCEPT ![t] = pc'[t]] /\ pc'[t] \in Off \cup {"run"} /\ pc[t] = "poll"
      /\ pc'[t] = IF pending'[t] THEN "run" ELSE "locked"
  BY DEF Poll, Goto, PoolInv, PoolTyped, Off
<1>2. UNCHANGED <<n_threads, cgraph, n_graph, n_barrier, n_barrier_passed, abort, seen, after, node_n>>
  BY DEF Poll, params, barrier, control
<1>5. pc'[0] = pc[0]
  BY <1>1, ThreadZero DEF PoolInv, PoolTyped
<1>3. CASE Ready(t) /\ TakeWork(t)
  <2>1. /\ pending' \in [Thread -> BOOLEAN] /\ last_graph' \in [Thread -> GraphCount]
        /\ \A u \in Thread \ {t} : pending'[u] = pending[u] /\ last_graph'[u] = last_graph[u]
    BY <1>3, TakesForItself
  <2>2. PoolTyped' /\ OnlyMoves(t)
    BY <1>1, <1>2, <2>1 DEF PoolInv, PoolTyped, OnlyMoves
  <2>. QED
    BY <1>1, <1>2, <1>5, <1>3, <2>2, TakesWork
<1>4. CASE UNCHANGED worker
  <2>1. ~pending[t]
    BY <1>1 DEF PoolInv, Placed
  <2>2. pc'[t] \in Off
    BY <1>1, <1>4, <2>1 DEF worker, Off
  <2>3. PoolTyped' /\ OnlyMoves(t)
    BY <1>1, <1>2, <1>4 DEF PoolInv, PoolTyped, OnlyMoves, worker
  <2>. QED
    BY <1>1, <1>2, <1>5, <1>4, <2>2, <2>3, StaysOff DEF worker, Off
<1>. QED
  BY <1>3, <1>4 DEF Poll

LEMMA CheckForWorkInv == ASSUME PoolInv, NEW t \in Thread \ {0}, CheckForWork(t)  PROVE PoolInv'
<1>1. /\ pc' = [pc EXCEPT ![t] = pc'[t]] /\ pc'[t] \in Off \cup {"run"} /\ pc[t] = "locked"
  BY DEF CheckForWork, Goto, PoolInv, PoolTyped, Off
<1>2. UNCHANGED <<n_threads, cgraph, n_graph, n_barrier, n_barrier_passed, abort, seen, after, node_n>>
  BY DEF CheckForWork, params, barrier, control
<1>5. pc'[0] = pc[0]
  BY <1>1, ThreadZero DEF PoolInv, PoolTyped
<1>3. CASE Ready(t) /\ TakeWork(t) /\ Goto(t, "locked", IF pending'[t] THEN "run" ELSE "top")
  <2>1. /\ pending' \in [Thread -> BOOLEAN] /\ last_graph' \in [Thread -> GraphCount]
        /\ \A u \in Thread \ {t} : pending'[u] = pending[u] /\ last_graph'[u] = last_graph[u]
    BY <1>3, TakesForItself
  <2>2. PoolTyped' /\ OnlyMoves(t)
    BY <1>1, <1>2, <2>1 DEF PoolInv, PoolTyped, OnlyMoves
  <2>3. pending'[t] <=> pc'[t] = "run"
    BY <1>3 DEF Goto, PoolInv, PoolTyped
  <2>. QED
    BY <1>1, <1>2, <1>5, <1>3, <2>2, <2>3, TakesWork
<1>4. CASE UNCHANGED worker /\ Goto(t, "locked", "asleep")
  <2>1. pc'[t] \in Off
    BY <1>4 DEF Goto, Off, PoolInv, PoolTyped
  <2>2. PoolTyped' /\ OnlyMoves(t)
    BY <1>1, <1>2, <1>4 DEF PoolInv, PoolTyped, OnlyMoves, worker
  <2>. QED
    BY <1>1, <1>2, <1>5, <1>4, <2>1, <2>2, StaysOff DEF worker, Off
<1>. QED
  BY <1>3, <1>4 DEF CheckForWork

LEMMA RunInv == ASSUME PoolInv, NEW t \in Thread \ {0}, Run(t)  PROVE PoolInv'
<1>1. /\ pc[t] = "run" /\ pc' = [pc EXCEPT ![t] = "loop"]
      /\ pending' = [pending EXCEPT ![t] = FALSE] /\ node_n' = [node_n EXCEPT ![t] = 1]
      /\ UNCHANGED <<n_threads, cgraph, n_graph, n_barrier, n_barrier_passed, abort, seen, after, last_graph>>
  BY DEF Run, Goto, params, barrier, control
<1>2. PoolTyped' /\ OnlyMoves(t)
  BY <1>1 DEF PoolInv, PoolTyped, OnlyMoves, InGraph
<1>3. pc'[t] = "loop" /\ node_n'[t] = 1 /\ ~pending'[t] /\ pc'[0] = pc[0] /\ node_n'[0] = node_n[0]
  BY <1>1 DEF PoolInv, PoolTyped
<1>4. ~Left(t) /\ t \in Parties /\ n_graph = last_graph[t] /\ ~Left(t)'
  BY <1>1, <1>3 DEF PoolInv, Placed, Left, Off, OutsideGraph, Released
<1>5. Position(t) = FromLoop(cgraph, abort, 1)
  BY <1>1 DEF Position, Fresh
<1>6. Position(t)' = FromLoop(cgraph, abort, 1)
  BY <1>1, <1>3, <1>4 DEF Position, Fresh
<1>7. Placed(t)'
  BY <1>1, <1>3, <1>4 DEF Placed, PoolInv, Parties, Nth, InGraph
<1>8. Aborting'
  BY <1>1, <1>3 DEF PoolInv, Aborting, InLoop
<1>9. ~Waiting(t) /\ ~Waiting(t)' /\ seen'[t] <= n_barrier_passed
  BY <1>1, <1>3 DEF Waiting, PoolInv, Counting
<1>. QED
  BY <1>1, <1>2, <1>3, <1>5, <1>6, <1>7, <1>8, <1>9, Moves

-----------------------------------------------------------------------------
(* A thread in the graph, on the way to the barrier                        *)

\* Outside the barrier and staying there.
LEMMA Advances ==
  ASSUME PoolInv, NEW t \in Thread, PoolTyped', OnlyMoves(t),
         UNCHANGED <<abort, n_barrier, seen, pending, last_graph>>,
         pc[t] \in {"loop", "tiles", "steal"},
         pc'[t] \in {"loop", "tiles", "steal", "barrier"},
         Position(t)' = Position(t), t = 0 => Aborting'
  PROVE  PoolInv'
<1>1. ~Left(t) /\ t \in Parties /\ ~Fresh(t)
  BY Inside DEF InGraph, Released
<1>2. n_graph' = n_graph /\ n_threads' = n_threads
  BY DEF OnlyMoves
<1>3. Placed(t)'
  BY <1>1, <1>2 DEF PoolInv, Placed, Parties, Nth, Fresh, InGraph
<1>4. Aborting'
  BY WorkersDoNotAbort
<1>5. ~Waiting(t) /\ ~Waiting(t)' /\ seen'[t] <= n_barrier_passed
  BY DEF Waiting, PoolInv, Counting
<1>. QED
  BY <1>3, <1>4, <1>5, Moves

LEMMA Looping ==
  ASSUME PoolInv, NEW t \in Thread, pc[t] = "loop"
  PROVE  /\ Position(t) = FromLoop(cgraph, abort, node_n[t])
         /\ InLoop(t) <=> ~(node_n[t] > Len(cgraph.op) \/ abort = node_n[t])
         /\ cgraph \in Cgraph /\ abort \in Abort /\ node_n[t] \in Nat \ {0}
         /\ Len(cgraph.op) \in Nat
<1>1. ~Left(t) /\ ~Fresh(t)
  BY Inside DEF InGraph, Released
<1>2. cgraph \in Cgraph /\ node_n[t] \in Nat \ {0} /\ abort \in Abort
  BY RunnableGraph DEF PoolInv, PoolTyped
<1>3. Len(cgraph.op) \in Nat
  BY <1>2 DEF Cgraph
<1>. QED
  BY <1>1, <1>2, <1>3 DEF Position, InLoop

LEMMA SkipInv == ASSUME PoolInv, NEW t \in Thread, Skip(t)  PROVE PoolInv'
<1>1. /\ pc[t] = "loop" /\ pc' = [pc EXCEPT ![t] = "loop"] /\ InLoop(t)
      /\ Skipped(cgraph, node_n[t]) /\ node_n' = [node_n EXCEPT ![t] = node_n[t] + 1]
      /\ UNCHANGED <<n_threads, cgraph, n_graph, n_barrier_passed, abort, n_barrier, seen, after,
                     pending, last_graph>>
  BY DEF Skip, Goto, params, barrier, control, worker
<1>2. pc'[t] = "loop" /\ node_n'[t] = node_n[t] + 1
  BY <1>1 DEF PoolInv, PoolTyped
<1>3. PoolTyped' /\ OnlyMoves(t)
  BY <1>1 DEF PoolInv, PoolTyped, OnlyMoves, InGraph
<1>4. /\ Position(t) = FromLoop(cgraph, abort, node_n[t])
      /\ ~Stop(cgraph, abort, node_n[t])
  BY <1>1, Looping DEF Stop
<1>5. FromLoop(cgraph, abort, node_n[t]) = FromLoop(cgraph, abort, node_n[t] + 1)
  BY <1>1, <1>4, Looping, TargetOfSkipped
<1>6. ~Left(t)' /\ ~Fresh(t)'
  BY <1>1, <1>2, Inside DEF Left, Off, OutsideGraph, Released, Fresh, InGraph
<1>7. Position(t)' = Position(t)
  BY <1>1, <1>2, <1>4, <1>5, <1>6 DEF Position
<1>8. t = 0 => Aborting'
  BY <1>1 DEF PoolInv, Aborting, AtBarrier, OutsideGraph
<1>. QED
  BY <1>1, <1>2, <1>3, <1>7, <1>8, Advances

LEMMA LeaveLoopInv == ASSUME PoolInv, NEW t \in Thread, LeaveLoop(t)  PROVE PoolInv'
<1>1. /\ pc[t] = "loop" /\ pc' = [pc EXCEPT ![t] = "barrier"] /\ ~InLoop(t)
      /\ after' = [after EXCEPT ![t] = "final"]
      /\ UNCHANGED <<n_threads, cgraph, n_graph, n_barrier_passed, abort, n_barrier, seen, node_n,
                     pending, last_graph>>
  BY DEF LeaveLoop, Goto, params, barrier, control, worker
<1>2. pc'[t] = "barrier" /\ after'[t] = "final"
  BY <1>1 DEF PoolInv, PoolTyped
<1>3. PoolTyped' /\ OnlyMoves(t)
  BY <1>1 DEF PoolInv, PoolTyped, OnlyMoves, InGraph
<1>4. Position(t) = FromLoop(cgraph, abort, node_n[t]) /\ Stop(cgraph, abort, node_n[t])
  BY <1>1, Looping DEF Stop
<1>5. Position(t) = <<node_n[t], "final">>
  BY <1>1, <1>4, Looping, TargetOfStop DEF AtNode
<1>6. ~Left(t)' /\ ~Fresh(t)' /\ ~Released(t)'
  BY <1>1, <1>2, Inside DEF Left, Off, OutsideGraph, Released, Fresh, InGraph
<1>7. Position(t)' = Position(t)
  BY <1>1, <1>2, <1>5, <1>6 DEF Position
<1>8. t = 0 => Aborting'
  BY <1>2 DEF Aborting, AtBarrier
<1>. QED
  BY <1>1, <1>2, <1>3, <1>7, <1>8, Advances

\* Thread 0 asks for an abort only once in a graph.
LEMMA NotAborted ==
  ASSUME PoolInv, pc[0] = "tiles" \/ (pc[0] = "loop" /\ InLoop(0))
  PROVE  abort = None
BY DEF PoolInv, Aborting, AtBarrier, OutsideGraph

\* The others still come to the same barrier when thread 0 asks for the abort.
LEMMA AbortsBehind ==
  ASSUME PoolInv, OnlyMoves(0), abort = None, abort' = node_n[0] + 1,
         Position(0) = AfterWork(cgraph, node_n[0]), NEW u \in Parties \ {0}, 0 \in Parties
  PROVE  Position(u)' = AfterWork(cgraph, node_n[0])
<1>1. u \in Thread
  BY PartiesAreThreads DEF PoolInv
<1>2. /\ n_graph' = n_graph /\ cgraph' = cgraph /\ n_barrier_passed' = n_barrier_passed
      /\ pc'[u] = pc[u] /\ node_n'[u] = node_n[u] /\ seen'[u] = seen[u]
      /\ after'[u] = after[u] /\ pending'[u] = pending[u] /\ last_graph'[u] = last_graph[u]
  BY <1>1 DEF OnlyMoves
<1>3. (Left(u)' <=> Left(u)) /\ (Fresh(u)' <=> Fresh(u)) /\ (Released(u)' <=> Released(u))
  BY <1>2 DEF Left, Released, Fresh
<1>4. Position(u) = AfterWork(cgraph, node_n[0])
  BY DEF PoolInv, Together
<1>5. cgraph \in Cgraph /\ node_n[0] \in Nat \ {0} /\ node_n[u] \in Nat \ {0}
  BY <1>1, RunnableGraph, ThreadZero DEF PoolInv, PoolTyped
<1>6. \A m \in Nat \ {0} :
        FromLoop(cgraph, abort, m) = AfterWork(cgraph, node_n[0])
          => FromLoop(cgraph, abort', m) = AfterWork(cgraph, node_n[0])
  BY <1>5, AbortIsBehind
<1>7. 1 \in Nat \ {0} /\ node_n[u] + 1 \in Nat \ {0}
  BY <1>5
<1>. QED
  BY <1>2, <1>3, <1>4, <1>5, <1>6, <1>7 DEF Position, AfterBarrier

\* The end of a node.
LEMMA ForwardedInv ==
  ASSUME PoolInv, NEW t \in Thread, Forwarded(t),
         pc[t] = "tiles" \/ (pc[t] = "loop" /\ InLoop(t)),
         Position(t) = AfterWork(cgraph, node_n[t]),
         UNCHANGED <<n_threads, cgraph, n_graph, n_barrier_passed, n_barrier, seen, pending,
                     last_graph>>
  PROVE  PoolInv'
<1> DEFINE n == node_n[t]
<1>1. cgraph \in Cgraph /\ n \in Nat \ {0} /\ Len(cgraph.op) \in Nat
  BY RunnableGraph DEF PoolInv, PoolTyped, Cgraph
<1>2. ~Left(t) /\ t \in Parties /\ ~Fresh(t)
  BY Inside DEF InGraph, Released
<1>3. t = 0 => abort = None
  BY NotAborted
<1>4. \/ /\ n < Len(cgraph.op)
         /\ pc' = [pc EXCEPT ![t] = "barrier"] /\ after' = [after EXCEPT ![t] = "next"]
         /\ node_n' = node_n
      \/ /\ ~(n < Len(cgraph.op))
         /\ pc' = [pc EXCEPT ![t] = "loop"] /\ node_n' = [node_n EXCEPT ![t] = n + 1]
         /\ after' = after
  BY DEF Forwarded
<1>5. \/ n < Len(cgraph.op) /\ pc'[t] = "barrier" /\ after'[t] = "next" /\ node_n'[t] = n
      \/ n >= Len(cgraph.op) /\ pc'[t] = "loop" /\ node_n'[t] = n + 1
  BY <1>1, <1>4 DEF PoolInv, PoolTyped
<1>6. abort' = abort \/ (t = 0 /\ abort' = n + 1)
  BY DEF Forwarded
<1>7. abort' \in Abort
  BY <1>1, <1>6 DEF PoolInv, PoolTyped, Abort
<1>8. PoolTyped' /\ OnlyMoves(t)
  <2>1. /\ pc' \in [Thread -> Off \cup OutsideGraph \cup InGraph \cup {"run"}]
        /\ node_n' \in [Thread -> Nat \ {0}]
        /\ after' \in [Thread -> {"tiles", "next", "final"}]
        /\ \A u \in Thread \ {t} : /\ pc'[u] = pc[u] /\ node_n'[u] = node_n[u]
                                   /\ after'[u] = after[u]
    <3>1. CASE n < Len(cgraph.op)
      BY <1>4, <3>1 DEF PoolInv, PoolTyped, InGraph
    <3>2. CASE ~(n < Len(cgraph.op))
      <4>1. n + 1 \in Nat \ {0}
        BY <1>1
      <4> HIDE DEF n
      <4>. QED
        BY <1>4, <3>2, <4>1 DEF PoolInv, PoolTyped, InGraph
    <3>. QED
      BY <3>1, <3>2
  <2>. QED
    BY <1>7, <2>1 DEF PoolInv, PoolTyped, OnlyMoves
<1>9. ~Left(t)' /\ ~Fresh(t)' /\ ~Released(t)'
  BY <1>2, <1>5 DEF Left, Off, OutsideGraph, Released, Fresh
<1>10. Position(t)' = AfterWork(cgraph, n)
  <2>1. CASE n < Len(cgraph.op)
    BY <1>1, <1>5, <1>9, <2>1 DEF Position, AfterWork
  <2>2. CASE n >= Len(cgraph.op)
    <3>1. Stop(cgraph, abort', n + 1) /\ n + 1 \in Nat \ {0}
      BY <1>1, <2>2 DEF Stop
    <3>2. FromLoop(cgraph, abort', n + 1) = AtNode(cgraph, abort', n + 1)
      BY <1>1, <1>7, <3>1, TargetOfStop
    <3>3. FromLoop(cgraph, abort', n + 1) = <<n + 1, "final">>
      BY <1>1, <2>2, <3>2 DEF AtNode
    <3>. QED
      BY <1>1, <1>5, <1>9, <2>2, <3>3 DEF Position, AfterWork
  <2>. QED
    BY <1>1, <2>1, <2>2
<1>11. t = 0 => Aborting'
  <2>1. CASE abort' = abort
    BY <1>3, <2>1 DEF Aborting
  <2>2. CASE t = 0 /\ abort' = n + 1
    BY <1>1, <1>5, <2>2 DEF Aborting, AtBarrier, InLoop
  <2>. QED
    BY <1>6, <2>1, <2>2
<1>12. CASE abort' = abort
  BY <1>5, <1>8, <1>10, <1>11, <1>12, Advances
<1>13. CASE t = 0 /\ abort' = n + 1
  <2>1. \A u \in Parties : Position(u)' = AfterWork(cgraph, n)
    BY <1>2, <1>3, <1>8, <1>10, <1>13, AbortsBehind
  <2>2. Parties' = Parties
    BY DEF Parties, Nth
  <2>3. Together'
    BY <2>1, <2>2 DEF Together
  <2>4. Placed(t)'
    BY <1>2, <1>5, <1>13, <2>2 DEF Placed, InGraph
  <2>5. ~Waiting(t) /\ ~Waiting(t)' /\ seen'[t] <= n_barrier_passed
    BY <1>5 DEF Waiting, PoolInv, Counting
  <2>. QED
    BY <1>5, <1>8, <1>11, <1>13, <2>3, <2>4, <2>5, MovesTogether
<1>. QED
  BY <1>6, <1>12, <1>13

\* A node that is reached and not skipped.
LEMMA AtNodeOf ==
  ASSUME PoolInv, NEW t \in Thread, pc[t] = "loop", InLoop(t),
         ~Skipped(cgraph, node_n[t])
  PROVE  Position(t) = IF cgraph.op[node_n[t]] = "mul_mat" THEN <<node_n[t], "tiles">>
                       ELSE AfterWork(cgraph, node_n[t])
<1>1. Stop(cgraph, abort, node_n[t])
  BY DEF Stop
<1>2. Position(t) = AtNode(cgraph, abort, node_n[t])
  BY <1>1, Looping, TargetOfStop
<1>. QED
  BY <1>2, Looping DEF AtNode

LEMMA ShareInv == ASSUME PoolInv, NEW t \in Thread, Share(t)  PROVE PoolInv'
<1>1. /\ pc[t] = "loop" /\ InLoop(t) /\ ~Skipped(cgraph, node_n[t])
      /\ cgraph.op[node_n[t]] # "mul_mat"
  BY DEF Share, AtOp, Skipped
<1>2. Position(t) = AfterWork(cgraph, node_n[t])
  BY <1>1, AtNodeOf
<1>. QED
  BY <1>1, <1>2, ForwardedInv DEF Share, barrier, control, worker

LEMMA TilesPosition ==
  ASSUME PoolInv, NEW t \in Thread, pc[t] \in {"tiles", "steal"}
  PROVE  Position(t) = AfterWork(cgraph, node_n[t])
<1>1. ~Left(t) /\ ~Fresh(t)
  BY Inside DEF InGraph, Released
<1>. QED
  BY <1>1 DEF Position

LEMMA QuantiseInv == ASSUME PoolInv, NEW t \in Thread, Quantise(t)  PROVE PoolInv'
<1>1. /\ pc[t] = "loop" /\ InLoop(t) /\ ~Skipped(cgraph, node_n[t])
      /\ cgraph.op[node_n[t]] = "mul_mat"
  BY DEF Quantise, AtOp, Skipped
<1>2. Position(t) = <<node_n[t], "tiles">>
  BY <1>1, AtNodeOf
<1>3. /\ pc' = [pc EXCEPT ![t] = "barrier"] /\ after' = [after EXCEPT ![t] = "tiles"]
      /\ UNCHANGED <<n_threads, cgraph, n_graph, n_barrier_passed, abort, n_barrier, seen, node_n,
                     pending, last_graph>>
  BY DEF Quantise, barrier, control, worker
<1>4. pc'[t] = "barrier" /\ after'[t] = "tiles"
  BY <1>3 DEF PoolInv, PoolTyped
<1>5. PoolTyped' /\ OnlyMoves(t)
  BY <1>3 DEF PoolInv, PoolTyped, OnlyMoves, InGraph
<1>6. ~Left(t)' /\ ~Fresh(t)' /\ ~Released(t)'
  BY <1>1, <1>3, <1>4, Inside DEF Left, Off, OutsideGraph, Released, Fresh, InGraph
<1>7. Position(t)' = Position(t)
  BY <1>2, <1>3, <1>4, <1>6 DEF Position
<1>8. t = 0 => Aborting'
  BY <1>1, <1>3, NotAborted DEF Aborting
<1>. QED
  BY <1>1, <1>3, <1>4, <1>5, <1>7, <1>8, Advances

LEMMA StealInv == ASSUME PoolInv, NEW t \in Thread, Steal(t)  PROVE PoolInv'
<1>1. /\ pc[t] = "steal" /\ pc' = [pc EXCEPT ![t] = "tiles"]
      /\ UNCHANGED <<n_threads, cgraph, n_graph, n_barrier_passed, abort, n_barrier, seen, node_n,
                     after, pending, last_graph>>
  BY DEF Steal, Goto, barrier, control, worker
<1>2. pc'[t] = "tiles"
  BY <1>1 DEF PoolInv, PoolTyped
<1>3. PoolTyped' /\ OnlyMoves(t)
  BY <1>1 DEF PoolInv, PoolTyped, OnlyMoves, InGraph
<1>4. ~Left(t)' /\ ~Fresh(t)'
  BY <1>1, <1>2, Inside DEF Left, Off, OutsideGraph, Released, Fresh, InGraph
<1>5. Position(t)' = Position(t)
  BY <1>1, <1>2, <1>4, TilesPosition DEF Position
<1>6. t = 0 => Aborting'
  BY <1>1 DEF PoolInv, Aborting, AtBarrier, OutsideGraph
<1>. QED
  BY <1>1, <1>2, <1>3, <1>5, <1>6, Advances

LEMMA TileInv == ASSUME PoolInv, NEW t \in Thread, Tile(t)  PROVE PoolInv'
<1>1. pc[t] = "tiles" /\ Position(t) = AfterWork(cgraph, node_n[t])
  BY TilesPosition DEF Tile
<1>2. UNCHANGED <<n_threads, cgraph, n_graph, n_barrier_passed, n_barrier, seen, pending, last_graph>>
  BY DEF Tile, barrier, control, worker
<1>3. CASE Forwarded(t)
  BY <1>1, <1>2, <1>3, ForwardedInv
<1>4. CASE pc' = [pc EXCEPT ![t] = "steal"] /\ UNCHANGED <<abort, node_n, after>>
  <2>1. pc'[t] = "steal"
    BY <1>4 DEF PoolInv, PoolTyped
  <2>2. PoolTyped' /\ OnlyMoves(t)
    BY <1>2, <1>4 DEF PoolInv, PoolTyped, OnlyMoves, InGraph
  <2>3. ~Left(t)' /\ ~Fresh(t)'
    BY <1>1, <1>2, <2>1, Inside DEF Left, Off, OutsideGraph, Released, Fresh, InGraph
  <2>4. Position(t)' = Position(t)
    BY <1>1, <1>2, <1>4, <2>1, <2>3 DEF Position
  <2>5. t = 0 => Aborting'
    BY <1>1, <1>4, NotAborted DEF Aborting
  <2>. QED
    BY <1>1, <1>2, <1>4, <2>1, <2>2, <2>4, <2>5, Advances
<1>. QED
  BY <1>3, <1>4 DEF Tile

LEMMA TilesDoneInv == ASSUME PoolInv, NEW t \in Thread, TilesDone(t)  PROVE PoolInv'
<1>1. pc[t] = "tiles" /\ Position(t) = AfterWork(cgraph, node_n[t])
  BY TilesPosition DEF TilesDone
<1>. QED
  BY <1>1, ForwardedInv DEF TilesDone, barrier, control, worker

-----------------------------------------------------------------------------
(* ggml_barrier                                                            *)

LEMMA AtTheBarrier ==
  ASSUME PoolInv, NEW t \in Thread, pc[t] \in {"barrier", "enter", "open"} \/ Waiting(t)
  PROVE  /\ Position(t) = <<node_n[t], after[t]>>
         /\ t \in Parties /\ ~Fresh(t) /\ ~Left(t) /\ pc[t] \in InGraph
<1>1. pc[t] \in InGraph /\ ~Released(t)
  BY DEF Released, Waiting, InGraph
<1>2. ~Left(t) /\ t \in Parties /\ ~Fresh(t)
  BY <1>1, Inside
<1>. QED
  BY <1>1, <1>2 DEF Position, Released, Waiting

\* Where a thread is once it is through.
LEMMA ThroughTyped ==
  ASSUME PoolInv, NEW t \in Thread, Through(t)
  PROVE  /\ pc' \in [Thread -> Off \cup OutsideGraph \cup InGraph \cup {"run"}]
         /\ node_n' \in [Thread -> Nat \ {0}]
         /\ \A u \in Thread \ {t} : pc'[u] = pc[u] /\ node_n'[u] = node_n[u]
         /\ \/ after[t] = "tiles" /\ pc'[t] = "tiles" /\ node_n'[t] = node_n[t]
            \/ after[t] = "next" /\ pc'[t] = "loop" /\ node_n'[t] = node_n[t] + 1
            \/ after[t] = "final" /\ t = 0 /\ pc'[t] = "done" /\ node_n'[t] = node_n[t]
            \/ after[t] = "final" /\ t # 0 /\ pc'[t] = "top" /\ node_n'[t] = node_n[t]
<1>1. after[t] \in {"tiles", "next", "final"} /\ node_n[t] \in Nat \ {0}
  BY DEF PoolInv, PoolTyped
<1>2. CASE after[t] = "tiles"
  BY <1>2 DEF Through, PoolInv, PoolTyped, InGraph
<1>3. CASE after[t] = "next"
  BY <1>1, <1>3 DEF Through, PoolInv, PoolTyped, InGraph
<1>4. CASE after[t] = "final"
  BY <1>4 DEF Through, PoolInv, PoolTyped, Off, OutsideGraph
<1>. QED
  BY <1>1, <1>2, <1>3, <1>4

LEMMA ThroughAborting ==
  ASSUME PoolInv, Through(0), UNCHANGED <<cgraph, abort>>, pc[0] \in AtBarrier
  PROVE  Aborting'
<1>1. \/ after[0] = "tiles" /\ pc'[0] = "tiles"
      \/ after[0] = "next" /\ pc'[0] = "loop" /\ node_n'[0] = node_n[0] + 1
      \/ after[0] = "final" /\ pc'[0] = "done"
  BY ThroughTyped, ThreadZero
<1>. QED
  BY <1>1 DEF PoolInv, Aborting, AtBarrier, InLoop, OutsideGraph

\* A thread that goes through is where the barrier leads to.
LEMMA ThroughPosition ==
  ASSUME PoolInv, NEW t \in Thread, Through(t), pc[t] \in InGraph, ~Fresh(t),
         UNCHANGED <<cgraph, abort, n_graph, last_graph>>
  PROVE  /\ Position(t)' = AfterBarrier(cgraph, abort, node_n[t], after[t])
         /\ after[t] = "final" => Left(t)'
         /\ after[t] # "final" => ~Left(t)'
<1>1. n_graph = last_graph[t] \/ t = 0
  BY DEF Fresh
<1>2. \/ after[t] = "tiles" /\ pc'[t] = "tiles" /\ node_n'[t] = node_n[t]
      \/ after[t] = "next" /\ pc'[t] = "loop" /\ node_n'[t] = node_n[t] + 1
      \/ after[t] = "final" /\ t = 0 /\ pc'[t] = "done" /\ node_n'[t] = node_n[t]
      \/ after[t] = "final" /\ t # 0 /\ pc'[t] = "top" /\ node_n'[t] = node_n[t]
  BY ThroughTyped
<1>3. ~Fresh(t)'
  BY <1>1, <1>2 DEF Fresh
<1>4. /\ after[t] = "final" => Left(t)'
      /\ after[t] # "final" => ~Left(t)'
  BY <1>2 DEF Left, Off, OutsideGraph, Released
<1>. QED
  BY <1>2, <1>3, <1>4 DEF Position, AfterBarrier

LEMMA BarrierLoadInv == ASSUME PoolInv, NEW t \in Thread, BarrierLoad(t)  PROVE PoolInv'
<1>1. /\ pc[t] = "barrier" /\ pc' = [pc EXCEPT ![t] = "enter"]
      /\ seen' = [seen EXCEPT ![t] = n_barrier_passed]
      /\ UNCHANGED <<n_threads, cgraph, n_graph, n_barrier_passed, abort, n_barrier, node_n,
                     after, pending, last_graph>>
  BY DEF BarrierLoad, Goto, params, control, worker
<1>2. pc'[t] = "enter" /\ seen'[t] = n_barrier_passed /\ n_barrier_passed \in Nat
  BY <1>1 DEF PoolInv, PoolTyped
<1>3. PoolTyped' /\ OnlyMoves(t)
  BY <1>1 DEF PoolInv, PoolTyped, OnlyMoves, InGraph
<1>4. /\ Position(t) = <<node_n[t], after[t]>>
      /\ t \in Parties /\ ~Fresh(t) /\ ~Left(t)
  BY <1>1, AtTheBarrier
<1>5. ~Left(t)' /\ ~Fresh(t)' /\ ~Released(t)'
  BY <1>1, <1>2, <1>4 DEF Left, Off, OutsideGraph, Released, Fresh
<1>6. Position(t)' = Position(t)
  BY <1>1, <1>2, <1>4, <1>5 DEF Position
<1>7. Placed(t)'
  BY <1>1, <1>2, <1>4 DEF PoolInv, Placed, Parties, Nth, Fresh, InGraph
<1>8. Aborting'
  <2>1. CASE t = 0
    BY <1>1, <1>2, <2>1 DEF PoolInv, Aborting, AtBarrier, OutsideGraph
  <2>. QED
    BY <1>1, <1>3, <2>1, WorkersDoNotAbort
<1>9. ~Waiting(t) /\ ~Waiting(t)' /\ seen'[t] <= n_barrier_passed
  BY <1>1, <1>2 DEF Waiting
<1>. QED
  BY <1>1, <1>2, <1>3, <1>6, <1>7, <1>8, <1>9, Moves

LEMMA BarrierEnterInv == ASSUME PoolInv, NEW t \in Thread, BarrierEnter(t)  PROVE PoolInv'
<1>1. /\ pc[t] = "enter"
      /\ pc' = [pc EXCEPT ![t] = IF n_barrier = Nth - 1 THEN "open" ELSE "spin"]
      /\ n_barrier' = IF n_barrier = Nth - 1 THEN 0 ELSE n_barrier + 1
      /\ UNCHANGED <<n_threads, cgraph, n_graph, n_barrier_passed, abort, seen, node_n,
                     after, pending, last_graph>>
  BY DEF BarrierEnter, Goto, params, control, worker
<1>2. /\ pc'[t] = IF n_barrier = Nth - 1 THEN "open" ELSE "spin"
      /\ seen[t] = n_barrier_passed
      /\ n_barrier_passed' = n_barrier_passed /\ Parties' = Parties /\ Parties \subseteq Thread
  BY <1>1, PartiesAreThreads DEF PoolInv, PoolTyped, Counting, Parties, Nth
<1>3. PoolTyped' /\ OnlyMoves(t)
  BY <1>1 DEF PoolInv, PoolTyped, OnlyMoves, InGraph
<1>4. /\ Position(t) = <<node_n[t], after[t]>>
      /\ t \in Parties /\ ~Fresh(t) /\ ~Left(t)
  BY <1>1, AtTheBarrier
<1>5. ~Left(t)' /\ ~Fresh(t)' /\ ~Released(t)' /\ pc'[t] \in {"open", "spin"}
  BY <1>1, <1>2, <1>4 DEF Left, Off, OutsideGraph, Released, Fresh
<1>6. Position(t)' = Position(t)
  BY <1>1, <1>4, <1>5 DEF Position
<1>7. Placed(t)'
  BY <1>1, <1>4, <1>5 DEF PoolInv, Placed, Parties, Nth, Fresh, InGraph
<1>8. Aborting'
  <2>1. CASE t = 0
    BY <1>1, <1>5, <2>1 DEF PoolInv, Aborting, AtBarrier, OutsideGraph
  <2>. QED
    BY <1>1, <1>3, <2>1, WorkersDoNotAbort
<1>9. (\A u \in Thread : Placed(u)') /\ Together'
  <2>1. \A u \in Thread : Placed(u)'
    BY <1>3, <1>7, OthersStay DEF PoolInv
  <2>2. \A u \in Parties : Position(u)' = Position(u)
    BY <1>1, <1>2, <1>3, <1>6, OthersStay
  <2>. QED
    BY <1>2, <2>1, <2>2 DEF PoolInv, Together
\* Nobody has the barrier open while a thread is still to enter it.
<1>10. \A u \in Thread : pc[u] # "open"
  BY <1>1, <1>4 DEF PoolInv, Counting, Waiting
<1> DEFINE W == {u \in Thread : Waiting(u)}
<1>11. n_barrier = Cardinality(W) /\ W \subseteq Parties \ {t}
  <2>1. n_barrier = Cardinality(W)
    BY <1>10 DEF PoolInv, Counting
  <2>. QED
    BY <1>1, <2>1, AtTheBarrier DEF Waiting
<1>12. /\ Nth \in Nat /\ IsFiniteSet(Parties) /\ Cardinality(Parties) = Nth
       /\ IsFiniteSet(Parties \ {t}) /\ Cardinality(Parties \ {t}) = Nth - 1
       /\ IsFiniteSet(W)
  <2>1. Nth \in Nat
    BY PartiesAreThreads DEF PoolInv
  <2>2. IsFiniteSet(Parties) /\ Cardinality(Parties) = Nth
    BY <2>1, FS_Interval DEF Parties
  <2>3. IsFiniteSet(Parties \ {t}) /\ Cardinality(Parties \ {t}) = Nth - 1
    BY <1>4, <2>2, FS_RemoveElement
  <2>4. IsFiniteSet(W)
    BY <1>11, <2>3, FS_Subset
  <2>. QED
    BY <2>1, <2>2, <2>3, <2>4
<1>13. \A u \in Thread \ {t} : (Waiting(u)' <=> Waiting(u)) /\ pc'[u] = pc[u]
  BY <1>3, OthersStay DEF OnlyMoves
<1>14. \A u \in Thread : /\ seen'[u] <= n_barrier_passed'
                         /\ pc'[u] \in {"enter", "open"} => seen'[u] = n_barrier_passed'
  BY <1>1, <1>2, <1>13 DEF PoolInv, Counting
<1>15. CASE n_barrier = Nth - 1
  <2>1. pc'[t] = "open" /\ n_barrier' = 0
    BY <1>1, <1>2, <1>15
  <2>2. W = Parties \ {t}
    <3>1. Cardinality(W) = Cardinality(Parties \ {t})
      BY <1>11, <1>12, <1>15
    <3>. QED
      BY <1>11, <1>12, <3>1, FS_Subset
  <2>3. \A u \in Parties \ {t} : Waiting(u)'
    BY <1>2, <1>13, <2>2
  <2>4. \A o \in Thread : pc'[o] = "open" => o = t
    BY <1>10, <1>13
  <2>5. Counting'
    BY <1>2, <1>14, <2>1, <2>3, <2>4 DEF Counting
  <2>. QED
    BY <1>3, <1>8, <1>9, <2>5 DEF PoolInv
<1>16. CASE n_barrier # Nth - 1
  <2>1. pc'[t] = "spin" /\ n_barrier' = n_barrier + 1 /\ Waiting(t)' /\ ~Waiting(t)
    BY <1>1, <1>2, <1>16 DEF Waiting
  <2>2. {u \in Thread : Waiting(u)}' = W \cup {t}
    BY <1>13, <2>1
  <2>3. Cardinality(W \cup {t}) = Cardinality(W) + 1
    BY <1>12, <2>1, FS_AddElement
  <2>4. \A u \in Thread : pc'[u] # "open"
    BY <1>10, <1>13, <2>1
  <2>5. Counting'
    BY <1>11, <1>14, <2>1, <2>2, <2>3, <2>4 DEF Counting
  <2>. QED
    BY <1>3, <1>8, <1>9, <2>5 DEF PoolInv
<1>. QED
  BY <1>15, <1>16

LEMMA BarrierAloneInv == ASSUME PoolInv, NEW t \in Thread, BarrierAlone(t)  PROVE PoolInv'
<1>1. /\ pc[t] = "barrier" /\ Nth = 1 /\ Through(t)
      /\ UNCHANGED <<n_threads, cgraph, n_graph, n_barrier_passed, abort, n_barrier, seen,
                     after, pending, last_graph>>
  BY DEF BarrierAlone, params, barrier, control, worker
<1>2. t \in Parties /\ ~Fresh(t) /\ pc[t] \in InGraph
  BY <1>1, AtTheBarrier
<1>3. Parties = {0} /\ t = 0 /\ Parties' = Parties
  BY <1>1, <1>2 DEF Parties, Nth
<1>4. PoolTyped' /\ OnlyMoves(t)
  BY <1>1, ThroughTyped DEF PoolInv, PoolTyped, OnlyMoves
<1>5. pc'[0] \in {"tiles", "loop", "done"}
  BY <1>1, <1>3, ThroughTyped
<1>6. Together'
  BY <1>3 DEF Together
<1>7. Aborting'
  BY <1>1, <1>3, ThroughAborting DEF AtBarrier
<1>8. Placed(t)'
  BY <1>3, <1>5 DEF Placed, InGraph, OutsideGraph
<1>9. ~Waiting(t) /\ ~Waiting(t)' /\ seen'[t] <= n_barrier_passed
  BY <1>1, <1>3, <1>5 DEF Waiting, PoolInv, Counting
<1>. QED
  BY <1>1, <1>3, <1>4, <1>5, <1>6, <1>7, <1>8, <1>9, MovesTogether

LEMMA BarrierSpinInv == ASSUME PoolInv, NEW t \in Thread, BarrierSpin(t)  PROVE PoolInv'
<1>1. /\ pc[t] = "spin" /\ Released(t) /\ Through(t)
      /\ UNCHANGED <<n_threads, cgraph, n_graph, n_barrier_passed, abort, n_barrier, seen,
                     after, pending, last_graph>>
  BY DEF BarrierSpin, Released, params, barrier, control, worker
<1>2. pc[t] \in InGraph /\ Parties' = Parties
  BY <1>1 DEF InGraph, Parties, Nth
<1>3. PoolTyped' /\ OnlyMoves(t)
  BY <1>1, ThroughTyped DEF PoolInv, PoolTyped, OnlyMoves
<1>4. \/ after[t] = "tiles" /\ pc'[t] = "tiles"
      \/ after[t] = "next" /\ pc'[t] = "loop"
      \/ after[t] = "final" /\ t = 0 /\ pc'[t] = "done"
      \/ after[t] = "final" /\ t # 0 /\ pc'[t] = "top"
  BY <1>1, ThroughTyped
<1>5. Left(t) <=> after[t] = "final"
  BY <1>1 DEF Left, Off, OutsideGraph
<1>6. Left(t)' <=> after[t] = "final"
  BY <1>4 DEF Left, Off, OutsideGraph, Released
<1>7. Fresh(t)' <=> Fresh(t)
  BY <1>1, <1>4 DEF Fresh
<1>8. Position(t)' = Position(t)
  <2>1. CASE Fresh(t)
    BY <1>1, <1>7, <2>1 DEF Position
  <2>2. CASE ~Fresh(t)
    <3>1. Position(t)' = AfterBarrier(cgraph, abort, node_n[t], after[t])
      BY <1>1, <1>2, <2>2, ThroughPosition
    <3>2. Position(t) = AfterBarrier(cgraph, abort, node_n[t], after[t])
      <4>1. CASE after[t] = "final"
        BY <1>5, <2>2, <4>1 DEF Position, AfterBarrier
      <4>2. CASE after[t] # "final"
        BY <1>1, <1>5, <2>2, <4>2 DEF Position
      <4>. QED
        BY <4>1, <4>2
    <3>. QED
      BY <3>1, <3>2
  <2>. QED
    BY <2>1, <2>2
<1>9. Placed(t)'
  BY <1>1, <1>2, <1>4, <1>5, <1>6 DEF PoolInv, Placed, InGraph, Off, OutsideGraph
<1>10. Aborting'
  <2>1. CASE t = 0
    BY <1>1, <2>1, ThroughAborting DEF AtBarrier
  <2>. QED
    BY <1>1, <1>3, <2>1, WorkersDoNotAbort
<1>11. ~Waiting(t) /\ ~Waiting(t)' /\ seen'[t] <= n_barrier_passed
  BY <1>1, <1>4 DEF Waiting, Released, PoolInv, Counting
<1>. QED
  BY <1>1, <1>3, <1>4, <1>8, <1>9, <1>10, <1>11, Moves

LEMMA BarrierOpenInv == ASSUME PoolInv, NEW o \in Thread, BarrierOpen(o)  PROVE PoolInv'
<1>1. /\ pc[o] = "open" /\ n_barrier_passed' = n_barrier_passed + 1 /\ Through(o)
      /\ UNCHANGED <<n_threads, cgraph, n_graph, abort, n_barrier, seen, after, pending,
                     last_graph>>
  BY DEF BarrierOpen, params, control, worker
<1>2. n_barrier = 0 /\ \A t \in Parties \ {o} : Waiting(t)
  BY <1>1 DEF PoolInv, Counting
<1>3. /\ Position(o) = <<node_n[o], after[o]>>
      /\ o \in Parties /\ ~Fresh(o) /\ pc[o] \in InGraph
  BY <1>1, AtTheBarrier
<1>4. Parties' = Parties /\ Parties \subseteq Thread /\ n_barrier_passed \in Nat
  BY <1>1, PartiesAreThreads DEF Parties, Nth, PoolInv, PoolTyped
<1>5. /\ pc' \in [Thread -> Off \cup OutsideGraph \cup InGraph \cup {"run"}]
      /\ node_n' \in [Thread -> Nat \ {0}]
      /\ \A u \in Thread \ {o} : pc'[u] = pc[u] /\ node_n'[u] = node_n[u]
      /\ \/ after[o] = "tiles" /\ pc'[o] = "tiles"
         \/ after[o] = "next" /\ pc'[o] = "loop"
         \/ after[o] = "final" /\ o = 0 /\ pc'[o] = "done"
         \/ after[o] = "final" /\ o # 0 /\ pc'[o] = "top"
  BY <1>1, ThroughTyped
<1>6. PoolTyped'
  BY <1>1, <1>4, <1>5 DEF PoolInv, PoolTyped
\* Whoever had left or was to begin still is.
<1>7. \A t \in Thread \ {o} : (Left(t) => Left(t)') /\ (Fresh(t)' <=> Fresh(t))
  <2>1. \A t \in Thread \ {o} : Released(t) => Released(t)'
    BY <1>1, <1>4, <1>5 DEF Released, PoolInv, PoolTyped, Counting
  <2>. QED
    BY <1>1, <1>5, <2>1 DEF Left, Fresh
<1>8. \A t \in Thread : Placed(t)'
  <2>1. Placed(o)'
    BY <1>1, <1>3, <1>4, <1>5 DEF PoolInv, Placed, Fresh, InGraph, Off, OutsideGraph
  <2>2. ASSUME NEW t \in Thread \ {o}  PROVE Placed(t)'
    <3>1. /\ pc'[t] = pc[t] /\ pending' = pending /\ last_graph' = last_graph
          /\ n_graph' = n_graph /\ cgraph' = cgraph /\ n_threads' = n_threads
          /\ Left(t) => Left(t)'
      BY <1>1, <1>5, <1>7
    <3>. QED
      BY <1>4, <3>1 DEF PoolInv, Placed
  <2>. QED
    BY <2>1, <2>2
\* All go on from the place where all were held.
<1>9. \A t \in Parties : Position(t)' = AfterBarrier(cgraph, abort, node_n[o], after[o])
  <2>1. Position(o)' = AfterBarrier(cgraph, abort, node_n[o], after[o])
    BY <1>1, <1>3, ThroughPosition
  <2>2. ASSUME NEW t \in Parties \ {o}
        PROVE  Position(t)' = AfterBarrier(cgraph, abort, node_n[o], after[o])
    <3>1. t \in Thread /\ Waiting(t)
      BY <1>2, <1>4
    <3>2. Position(t) = <<node_n[t], after[t]>> /\ ~Fresh(t)
      BY <3>1, AtTheBarrier
    <3>3. <<node_n[t], after[t]>> = <<node_n[o], after[o]>>
      BY <1>3, <3>2 DEF PoolInv, Together
    <3>5. AfterBarrier(cgraph, abort, node_n[t], after[t])
            = AfterBarrier(cgraph, abort, node_n[o], after[o])
      BY <3>3
    <3>6. pc'[t] = "spin" /\ Released(t)' /\ after'[t] = after[t] /\ node_n'[t] = node_n[t]
      BY <1>1, <1>4, <1>5, <3>1 DEF Waiting, Released
    <3>7. ~Fresh(t)'
      BY <1>7, <3>1, <3>2
    <3>8. Position(t)' = AfterBarrier(cgraph, abort, node_n[t], after[t])
      <4>1. CASE after[t] = "final"
        BY <3>6, <3>7, <4>1 DEF Position, Left, AfterBarrier
      <4>2. CASE after[t] # "final"
        <5>1. ~Left(t)'
          BY <3>6, <4>2 DEF Left, Off, OutsideGraph
        <5>. QED
          BY <1>1, <3>6, <3>7, <5>1 DEF Position
      <4>. QED
        BY <4>1, <4>2
    <3>. QED
      BY <3>5, <3>8
  <2>. QED
    BY <2>1, <2>2
<1>10. Together'
  BY <1>4, <1>9 DEF Together
<1>11. Counting'
  <2>1. \A t \in Thread : /\ pc'[t] # "open" /\ pc'[t] # "enter"
                          /\ seen'[t] <= n_barrier_passed' /\ ~Waiting(t)'
    <3>1. \A t \in Thread : seen'[t] <= n_barrier_passed /\ seen'[t] \in Nat
      BY <1>1 DEF PoolInv, PoolTyped, Counting
    <3>2. ASSUME NEW t \in Thread, pc'[t] \in {"open", "enter"}  PROVE FALSE
      <4>1. t # o
        BY <1>5, <3>2
      <4>2. pc[t] \in {"open", "enter"}
        BY <1>5, <3>2, <4>1
      <4>3. t \in Parties
        BY <4>2, AtTheBarrier
      <4>. QED
        BY <1>2, <4>1, <4>2, <4>3 DEF Waiting
    <3>. QED
      BY <1>1, <1>4, <3>1, <3>2 DEF Waiting
  <2>2. {t \in Thread : Waiting(t)}' = {}
    BY <2>1
  <2>. QED
    BY <1>1, <1>2, <2>1, <2>2, FS_EmptySet DEF Counting
<1>12. Aborting'
  <2>1. CASE o = 0
    BY <1>1, <2>1, ThroughAborting DEF AtBarrier
  <2>2. CASE o # 0
    <3>1. pc'[0] = pc[0] /\ node_n'[0] = node_n[0]
      BY <1>5, <2>2, ThreadZero
    <3>. QED
      BY <1>1, <3>1 DEF PoolInv, Aborting, InLoop
  <2>. QED
    BY <2>1, <2>2
<1>. QED
  BY <1>6, <1>8, <1>10, <1>11, <1>12 DEF PoolInv

-----------------------------------------------------------------------------
(* The caller, and the pool as a whole                                     *)

\* While the caller is outside a graph, so is everybody: no worker has yet to
\* begin it, and whoever is still at the last barrier has been let out of it.
LEMMA AllHaveLeft ==
  ASSUME PoolInv, pc[0] \in OutsideGraph
  PROVE  \A t \in Thread : Left(t) /\ (t \in Parties => ~Fresh(t))
<1> SUFFICES ASSUME NEW t \in Thread, t \in Parties  PROVE Left(t) /\ ~Fresh(t)
  BY DEF PoolInv, Placed
<1>1. Nth \in Nat /\ 0 \in Parties
  BY PartiesAreThreads DEF PoolInv, Parties
<1>2. Position(0) = <<node_n[0], "done">>
  BY DEF Position, Left, Fresh
<1>3. Position(t)[2] = "done"
  BY <1>1, <1>2 DEF PoolInv, Together
<1>4. /\ cgraph \in Cgraph /\ abort \in Abort /\ node_n[t] \in Nat \ {0}
      /\ after[t] \in {"tiles", "next", "final"}
      /\ 1 \in Nat \ {0} /\ node_n[t] + 1 \in Nat \ {0}
  BY RunnableGraph DEF PoolInv, PoolTyped
<1>5. ~Fresh(t)
  BY <1>3, <1>4, NotDone DEF Position
<1>6. <<node_n[t], after[t]>>[2] # "done"
  BY <1>4
<1>7. Released(t) /\ after[t] # "final" =>
        AfterBarrier(cgraph, abort, node_n[t], after[t])[2] # "done"
  BY <1>4, NotDone DEF AfterBarrier
<1>8. Left(t)
  BY <1>3, <1>4, <1>5, <1>6, <1>7, NotDone DEF Position, Left
<1>. QED
  BY <1>5, <1>8

LEMMA CallerMoves ==
  ASSUME PoolInv, PoolTyped', pc[0] \in OutsideGraph, pc'[0] \in OutsideGraph,
         UNCHANGED <<n_threads, n_graph, n_barrier, n_barrier_passed, seen, after, pending,
                     last_graph, node_n>>,
         \A t \in Thread \ {0} : pc'[t] = pc[t] \/ (pc[t] \in Off /\ pc'[t] \in Off),
         abort' = None \/ (abort' = abort /\ pc'[0] # "kickoff"),
         pc'[0] = "kickoff" => cgraph'.n_threads <= n_threads
  PROVE  PoolInv'
<1>1. Parties' = Parties /\ Parties \subseteq Thread
  BY PartiesAreThreads DEF Parties, Nth, PoolInv
<1>2. ASSUME NEW t \in Thread
      PROVE  Left(t)' /\ (t \in Parties => ~Fresh(t)') /\ ~Waiting(t)' /\ ~Waiting(t)
             /\ pc[t] \notin {"enter", "open"} /\ pc'[t] \notin {"enter", "open"}
  <2>1. Left(t) /\ (t \in Parties => ~Fresh(t))
    BY AllHaveLeft
  <2>2. CASE t = 0
    BY <2>2 DEF Left, Fresh, Waiting, OutsideGraph
  <2>3. CASE t # 0 /\ pc[t] \in Off /\ pc'[t] \in Off
    BY <2>1, <2>3 DEF Left, Fresh, Waiting, Off
  <2>4. CASE t # 0 /\ pc'[t] = pc[t]
    BY <2>1, <2>4 DEF Left, Fresh, Waiting, Released, Off, OutsideGraph
  <2>. QED
    BY <2>2, <2>3, <2>4
<1>3. \A t \in Parties : Position(t)' = Position(t)
  BY <1>1, <1>2, AllHaveLeft DEF Position
<1>4. Together'
  BY <1>1, <1>3 DEF PoolInv, Together
<1>5. \A t \in Thread : Placed(t)'
  <2>1. Placed(0)'
    BY <1>2, ThreadZero DEF Placed
  <2>2. ASSUME NEW t \in Thread \ {0}  PROVE Placed(t)'
    BY <1>2 DEF PoolInv, Placed, Off
  <2>. QED
    BY <2>1, <2>2
<1>6. Counting'
  <2>1. {t \in Thread : Waiting(t)}' = {t \in Thread : Waiting(t)}
    BY <1>2
  <2>. QED
    BY <1>2, <2>1 DEF PoolInv, Counting
<1>7. Aborting'
  BY DEF Aborting
<1>. QED
  BY <1>4, <1>5, <1>6, <1>7 DEF PoolInv

LEMMA BroadcastsOff ==
  ASSUME PoolInv, NEW to \in OutsideGraph \cup InGraph, Broadcast(to)
  PROVE  /\ pc' \in [Thread -> Off \cup OutsideGraph \cup InGraph \cup {"run"}]
         /\ pc'[0] = to
         /\ \A t \in Thread \ {0} : pc'[t] = pc[t] \/ (pc[t] \in Off /\ pc'[t] \in Off)
BY ThreadZero DEF Broadcast, Woken, PoolInv, PoolTyped, Off

LEMMA ReturnInv == ASSUME PoolInv, Return  PROVE PoolInv'
<1>1. /\ pc[0] = "done" /\ pc' = [pc EXCEPT ![0] = "idle"]
      /\ UNCHANGED <<n_threads, cgraph, abort, n_graph, n_barrier, n_barrier_passed, seen, after,
                     pending, last_graph, node_n>>
  BY DEF Return, Goto, params, barrier, control, worker
<1>2. PoolTyped' /\ pc'[0] = "idle" /\ \A t \in Thread \ {0} : pc'[t] = pc[t]
  BY <1>1, ThreadZero DEF PoolInv, PoolTyped, OutsideGraph
<1>. QED
  BY <1>1, <1>2, CallerMoves DEF OutsideGraph

LEMMA JoinInv == ASSUME PoolInv, Join  PROVE PoolInv'
<1>1. /\ pc[0] = "joining" /\ pc' = [pc EXCEPT ![0] = "freed"]
      /\ UNCHANGED <<n_threads, cgraph, abort, n_graph, n_barrier, n_barrier_passed, seen, after,
                     pending, last_graph, node_n>>
  BY DEF Join, Goto, params, barrier, control, worker
<1>2. PoolTyped' /\ pc'[0] = "freed" /\ \A t \in Thread \ {0} : pc'[t] = pc[t]
  BY <1>1, ThreadZero DEF PoolInv, PoolTyped, OutsideGraph
<1>. QED
  BY <1>1, <1>2, CallerMoves DEF OutsideGraph

LEMMA PauseOrResumeInv == ASSUME PoolInv, PauseOrResume  PROVE PoolInv'
<1>1. /\ pc[0] = "idle" /\ Broadcast("idle")
      /\ UNCHANGED <<n_threads, cgraph, abort, n_graph, n_barrier, n_barrier_passed, seen, after,
                     pending, last_graph, node_n>>
  BY DEF PauseOrResume, params, barrier, worker
<1>2. /\ pc' \in [Thread -> Off \cup OutsideGraph \cup InGraph \cup {"run"}]
      /\ pc'[0] = "idle"
      /\ \A t \in Thread \ {0} : pc'[t] = pc[t] \/ (pc[t] \in Off /\ pc'[t] \in Off)
  BY <1>1, BroadcastsOff DEF OutsideGraph
<1>3. PoolTyped'
  BY <1>1, <1>2 DEF PoolInv, PoolTyped
<1>. QED
  BY <1>1, <1>2, <1>3, CallerMoves DEF OutsideGraph

LEMMA FreeInv == ASSUME PoolInv, Free  PROVE PoolInv'
<1>1. /\ pc[0] = "idle" /\ Broadcast("joining")
      /\ UNCHANGED <<n_threads, cgraph, abort, n_graph, n_barrier, n_barrier_passed, seen, after,
                     pending, last_graph, node_n>>
  BY DEF Free, params, barrier, worker
<1>2. /\ pc' \in [Thread -> Off \cup OutsideGraph \cup InGraph \cup {"run"}]
      /\ pc'[0] = "joining"
      /\ \A t \in Thread \ {0} : pc'[t] = pc[t] \/ (pc[t] \in Off /\ pc'[t] \in Off)
  BY <1>1, BroadcastsOff DEF OutsideGraph
<1>3. PoolTyped'
  BY <1>1, <1>2 DEF PoolInv, PoolTyped
<1>. QED
  BY <1>1, <1>2, <1>3, CallerMoves DEF OutsideGraph

LEMMA ResetInv == ASSUME PoolInv, NEW g \in Graphs, Reset(g)  PROVE PoolInv'
<1>1. /\ pc[0] = "idle" /\ pc' = [pc EXCEPT ![0] = "kickoff"]
      /\ cgraph' = Capped(g, n_threads) /\ abort' = None
      /\ UNCHANGED <<n_threads, n_graph, n_barrier, n_barrier_passed, seen, after,
                     pending, last_graph, node_n>>
  BY DEF Reset, Goto, barrier, control, worker
<1>2. n_threads \in 1..MaxThreads /\ n_threads \in Nat
  BY DEF PoolInv, PoolTyped
<1>3. cgraph' \in Runnable
  BY <1>1, <1>2 DEF Runnable
<1>4. cgraph'.n_threads <= n_threads
  <2>1. "n_threads" \in DOMAIN g /\ g.n_threads \in Nat
    BY GraphsAssumption DEF Cgraph
  <2>. QED
    BY <1>1, <1>2, <2>1 DEF Capped
<1>5. PoolTyped' /\ pc'[0] = "kickoff" /\ \A t \in Thread \ {0} : pc'[t] = pc[t]
  BY <1>1, <1>3, ThreadZero DEF PoolInv, PoolTyped, OutsideGraph, Abort
<1>. QED
  BY <1>1, <1>4, <1>5, CallerMoves DEF OutsideGraph

\* Everybody has left the last graph, so that the count of the barrier starts
\* at none, and no worker has seen the new one.
LEMMA KickoffInv == ASSUME PoolInv, Kickoff  PROVE PoolInv'
<1>1. /\ pc[0] = "kickoff" /\ Broadcast("loop")
      /\ n_graph' = [count |-> n_graph.count + 1, n_threads |-> cgraph.n_threads]
      /\ node_n' = [node_n EXCEPT ![0] = 1]
      /\ UNCHANGED <<n_threads, cgraph, abort, n_barrier, n_barrier_passed, seen, after,
                     pending, last_graph>>
  BY DEF Kickoff, params, barrier, worker
<1>2. /\ pc' \in [Thread -> Off \cup OutsideGraph \cup InGraph \cup {"run"}]
      /\ pc'[0] = "loop"
      /\ \A t \in Thread \ {0} : pc'[t] = pc[t] \/ (pc[t] \in Off /\ pc'[t] \in Off)
  BY <1>1, BroadcastsOff DEF InGraph
<1>3. /\ cgraph.n_threads \in 1..MaxThreads /\ n_graph.count \in Nat /\ 0 \in Thread
      /\ n_graph'.count = n_graph.count + 1 /\ n_graph'.n_threads = cgraph.n_threads
      /\ node_n'[0] = 1
  BY <1>1, RunnableGraph, ThreadZero, ThreadsAssumption,
     SMTT(30) DEF PoolInv, PoolTyped, Placed, Cgraph, GraphCount
<1>4. n_graph' \in GraphCount /\ PoolTyped'
  <2>1. cgraph.n_threads \in 0..MaxThreads /\ n_graph.count + 1 \in Nat
    BY <1>3, ThreadsAssumption
  <2>2. n_graph' \in GraphCount
    BY <1>1, <2>1 DEF GraphCount
  <2>3. node_n' \in [Thread -> Nat \ {0}]
    <3>1. node_n \in [Thread -> Nat \ {0}] /\ node_n' = [node_n EXCEPT ![0] = 1]
      BY <1>1 DEF PoolInv, PoolTyped
    <3>2. node_n' = [t \in Thread |-> IF t = 0 THEN 1 ELSE node_n[t]]
      BY <3>1
    <3>3. \A t \in Thread : node_n[t] \in Nat \ {0}
      BY <3>1
    <3>4. \A t \in Thread : (IF t = 0 THEN 1 ELSE node_n[t]) \in Nat \ {0}
      BY <3>3
    <3>. QED
      BY <3>2, <3>4
  <2>. QED
    BY <1>1, <1>2, <2>2, <2>3 DEF PoolInv, PoolTyped
<1>5. ASSUME NEW t \in Thread \ {0}
      PROVE  /\ Left(t)' /\ Fresh(t)' /\ ~Waiting(t)'
             /\ pc'[t] \notin {"enter", "open"} /\ pc'[t] # "run"
             /\ last_graph'[t].count <= n_graph'.count
             /\ pending'[t] <=> pc'[t] = "run"
  <2>1. Left(t) /\ pc[t] \in Off \cup InGraph /\ ~pending[t]
    BY <1>1, AllHaveLeft DEF PoolInv, Placed, Left, OutsideGraph, Off, Released
  <2>2. last_graph[t].count <= n_graph.count /\ last_graph[t].count \in Nat
    BY DEF PoolInv, Placed, PoolTyped, GraphCount
  <2>3. Fresh(t)' /\ last_graph'[t].count <= n_graph'.count
    BY <1>1, <1>3, <2>2 DEF Fresh
  <2>4. CASE pc'[t] = pc[t]
    BY <1>1, <2>1, <2>3, <2>4 DEF Left, Waiting, Released, Off, OutsideGraph, InGraph
  <2>5. CASE pc'[t] \in Off
    BY <1>1, <2>1, <2>3, <2>5 DEF Left, Waiting, Off
  <2>. QED
    BY <1>2, <2>4, <2>5
<1>6. Parties' \subseteq Thread /\ 0 \in Parties'
  <2>1. Parties' = 0..cgraph.n_threads - 1
    BY <1>3 DEF Parties, Nth
  <2>. QED
    BY <1>3, <2>1, ThreadsAssumption DEF Thread
<1>7. \A t \in Parties' : Position(t)' = FromLoop(cgraph, abort, 1)
  <2>1. Position(0)' = FromLoop(cgraph, abort, 1)
    BY <1>1, <1>2, <1>3 DEF Position, Fresh, Left, Off, OutsideGraph, Released
  <2>. QED
    BY <1>1, <1>5, <1>6, <2>1 DEF Position
<1>8. Together'
  BY <1>7 DEF Together
<1>9. \A t \in Thread : Placed(t)'
  <2>1. Placed(0)'
    BY <1>2, <1>6 DEF Placed, InGraph
  <2>2. ASSUME NEW t \in Thread \ {0}  PROVE Placed(t)'
    BY <1>2, <1>5 DEF PoolInv, Placed, Off
  <2>. QED
    BY <2>1, <2>2
<1>10. Counting'
  <2>1. \A t \in Thread : ~Waiting(t) /\ pc[t] # "open"
    BY <1>1, AllHaveLeft DEF Left, Waiting, Released, Off, OutsideGraph
  <2>2. {t \in Thread : Waiting(t)} = {}
    BY <2>1
  <2>3. n_barrier = 0
    BY <2>1, <2>2, FS_EmptySet DEF PoolInv, Counting
  <2>4. \A t \in Thread : ~Waiting(t)' /\ pc'[t] \notin {"enter", "open"}
    BY <1>2, <1>5 DEF Waiting
  <2>5. {t \in Thread : Waiting(t)}' = {}
    BY <2>4
  <2>. QED
    BY <1>1, <2>3, <2>4, <2>5, FS_EmptySet DEF PoolInv, Counting
<1>11. Aborting'
  BY <1>1 DEF PoolInv, Aborting, AtBarrier, OutsideGraph
<1>. QED
  BY <1>4, <1>8, <1>9, <1>10, <1>11 DEF PoolInv

LEMMA NewInv == ASSUME NEW n \in 1..MaxThreads, New(n, FALSE), Graphs # {}  PROVE PoolInv
<1>1. /\ n_threads = n /\ cgraph = (CHOOSE g \in Runnable : TRUE) /\ abort = None
      /\ n_graph = [count |-> 0, n_threads |-> 0] /\ n_barrier = 0 /\ n_barrier_passed = 0
      /\ pc = [t \in Thread |-> IF t = 0 THEN "idle" ELSE IF t < n THEN "top" ELSE "exited"]
      /\ node_n = [t \in Thread |-> 1] /\ seen = [t \in Thread |-> 0]
      /\ after = [t \in Thread |-> "final"] /\ pending = [t \in Thread |-> FALSE]
      /\ last_graph = [t \in Thread |-> n_graph]
  BY DEF New
<1>2. cgraph \in Runnable
  <2>1. PICK g \in Graphs : TRUE
    OBVIOUS
  <2>2. Capped(g, n) \in Runnable
    BY DEF Runnable
  <2>. QED
    BY <1>1, <2>2
<1>3. n_graph \in GraphCount /\ n_graph.count = 0 /\ Parties = {}
  BY <1>1, ThreadsAssumption DEF GraphCount, Parties, Nth
<1>4. PoolTyped
  BY <1>1, <1>2, <1>3 DEF PoolTyped, Abort, Off, OutsideGraph
<1>5. \A t \in Thread : Placed(t)
  BY <1>1, <1>3, ThreadZero DEF Placed, Left, Off, OutsideGraph
<1>6. \A t \in Thread : ~Waiting(t) /\ pc[t] \notin {"enter", "open"}
  BY <1>1 DEF Waiting
<1>7. Counting
  <2>1. {t \in Thread : Waiting(t)} = {}
    BY <1>6
  <2>. QED
    BY <1>1, <1>6, <2>1, FS_EmptySet DEF Counting
<1>. QED
  BY <1>1, <1>3, <1>4, <1>5, <1>7 DEF PoolInv, Together, Aborting

LEMMA NextPool == PoolInv /\ [Next]_vars => PoolInv'
<1> SUFFICES ASSUME PoolInv, [Next]_vars  PROVE PoolInv'
  OBVIOUS
<1>1. CASE Caller
  BY <1>1, KickoffInv, ReturnInv, PauseOrResumeInv, FreeInv, JoinInv DEF Caller
<1>2. CASE \E g \in Graphs : Reset(g)
  BY <1>2, ResetInv
<1>3. ASSUME NEW t \in Thread, Forward(t)  PROVE PoolInv'
  BY <1>3, ShareInv, QuantiseInv, TileInv DEF Forward
<1>4. ASSUME NEW t \in Thread, Graph(t)  PROVE PoolInv'
  BY <1>4, SkipInv, LeaveLoopInv, StealInv, TilesDoneInv, BarrierAloneInv, BarrierLoadInv,
     BarrierEnterInv, BarrierOpenInv, BarrierSpinInv DEF Graph, Barrier
<1>5. ASSUME NEW t \in Thread, Between(t)  PROVE PoolInv'
  BY <1>5, TopInv, PollInv, CheckForWorkInv, RunInv DEF Between
<1>6. ASSUME NEW t \in Thread, SpuriousWakeup(t)  PROVE PoolInv'
  BY <1>6, SpuriousWakeupInv
<1>7. CASE UNCHANGED vars
  BY <1>7 DEF vars, params, barrier, control, worker, PoolInv, PoolTyped, Placed, Together,
     Counting, Aborting, Position, Left, Fresh, Waiting, Released, Parties, Nth, InLoop
<1>. QED
  BY <1>1, <1>2, <1>3, <1>4, <1>5, <1>6, <1>7 DEF Next

-----------------------------------------------------------------------------
(* Which pieces of the graph are computed                                  *)

\* A thread between sharing out a matrix product and its last tile; past the
\* barrier between the two; with a tile in hand.
AtTiles(t) == pc[t] \in {"tiles", "steal"} \/ (pc[t] \in AtBarrier /\ after[t] = "tiles")
Tiling(t) == pc[t] \in {"tiles", "steal"} \/ (Released(t) /\ after[t] = "tiles")
Holds(t) == Tiling(t) /\ pc[t] # "steal"

\* The last node that a thread has done with, that it has computed its share
\* of, and whose tiles it has been let to.
Ended(t) == IF Fresh(t) THEN 0
            ELSE IF pc[t] \in AtBarrier /\ after[t] = "next" THEN node_n[t] ELSE node_n[t] - 1
Begun(t) == IF AtTiles(t) THEN node_n[t] ELSE Ended(t)
Opened(t) == IF Tiling(t) THEN node_n[t] ELSE Ended(t)

AtEnd(t) == ~Fresh(t) /\ (Left(t) \/ (pc[t] \in AtBarrier /\ after[t] = "final"))

MulMat(i) == i \in DOMAIN cgraph.op /\ cgraph.op[i] = "mul_mat"
TileNumbers == 0..Chunks(cgraph) - 1

\* A thread has computed its share of the nodes it has begun.  The chunk it
\* starts with is its number.
OwnPart(t) ==
  /\ AtEnd(t) => node_n[t] > Len(cgraph.op) \/ node_n[t] = abort
  /\ AtTiles(t) => MulMat(node_n[t])
  /\ AtTiles(t) /\ ~Tiling(t) => chunk[t] = t /\ (t = 0 => current_chunk = Nth)
  /\ \A i \in DOMAIN cgraph.op :
       ~Skipped(cgraph, i) => (GR!Piece(i, 1, t) \in computed <=> i <= Begun(t))

\* The tiles of a matrix product: those below current_chunk are given away, each
\* to one thread, and are computed unless they are in its hands; a thread stops
\* when none is left.
TilesOf(n) ==
  /\ \A c \in TileNumbers :
       GR!Piece(n, 2, c) \in computed
         <=> c < current_chunk /\ \A u \in Parties : Holds(u) => chunk[u] # c
  /\ current_chunk >= Nth
  /\ \A u \in Parties : Holds(u) => chunk[u] < current_chunk
  /\ \A u, v \in Parties : Holds(u) /\ Holds(v) /\ chunk[u] = chunk[v] => u = v
  /\ (\E u \in Parties : ~Tiling(u)) => current_chunk >= Chunks(cgraph)

\* No tile is computed before all threads are let to them, and none is left
\* when all have done with the node.
TilesInTime ==
  \A i \in DOMAIN cgraph.op, c \in TileNumbers :
    GR!Piece(i, 2, c) \in computed => \A t \in Parties : i <= Opened(t)
TilesComplete ==
  \A i \in DOMAIN cgraph.op, c \in TileNumbers :
    MulMat(i) /\ (\A t \in Parties : i <= Ended(t)) => GR!Piece(i, 2, c) \in computed

Computing ==
  /\ 0 \in Parties /\ Nth = cgraph.n_threads /\ n_graph.count > 0
  /\ \A t \in Parties : OwnPart(t)
  /\ TilesInTime
  /\ \A t \in Parties : Tiling(t) => TilesOf(node_n[t])
  /\ TilesComplete

PiecesInv ==
  /\ current_chunk \in Nat /\ chunk \in [Thread -> Nat]
  /\ computed \subseteq GR!AllPieces(cgraph)
  /\ ec = IF abort = None THEN "success" ELSE "aborted"
  /\ abort # None => cgraph.abortable /\ computed # {}
  /\ IF pc[0] = "kickoff" THEN computed = {}
     ELSE (pc[0] \in OutsideGraph \ {"done"} /\ n_graph.count = 0) \/ Computing

-----------------------------------------------------------------------------

\* GraphRun speaks of the same graphs.
LEMMA SameGraph ==
  \A g, i : (GR!Skipped(g, i) <=> Skipped(g, i)) /\ GR!Chunks(g) = Chunks(g)
BY DEF GR!Skipped, Skipped, GR!Chunks, Chunks

LEMMA PiecesAre ==
  ASSUME NEW g \in Cgraph
  PROVE  /\ DOMAIN g.op = 1..Len(g.op) /\ Len(g.op) \in Nat
         /\ \A i \in DOMAIN g.op, t \in 0..g.n_threads - 1 :
              ~Skipped(g, i) => GR!Piece(i, 1, t) \in GR!Pieces(g, i)
         /\ \A i \in DOMAIN g.op, c \in 0..Chunks(g) - 1 :
              g.op[i] = "mul_mat" => GR!Piece(i, 2, c) \in GR!Pieces(g, i)
         /\ \A i \in DOMAIN g.op : \A q \in GR!Pieces(g, i) :
              \/ \E t \in 0..g.n_threads - 1 : ~Skipped(g, i) /\ q = GR!Piece(i, 1, t)
              \/ \E c \in 0..Chunks(g) - 1 : g.op[i] = "mul_mat" /\ q = GR!Piece(i, 2, c)
         /\ \A i \in DOMAIN g.op : GR!Pieces(g, i) \subseteq GR!AllPieces(g)
         /\ \A q \in GR!AllPieces(g) : \E i \in DOMAIN g.op : q \in GR!Pieces(g, i)
<1>1. DOMAIN g.op = 1..Len(g.op) /\ Len(g.op) \in Nat
  BY DEF Cgraph
<1>3. GR!AllPieces(g) = UNION {GR!Pieces(g, i) : i \in DOMAIN g.op}
  BY DEF GR!AllPieces
<1>5. \A i \in DOMAIN g.op, t \in 0..g.n_threads - 1 :
        ~Skipped(g, i) => GR!Piece(i, 1, t) \in GR!Pieces(g, i)
  BY SameGraph DEF GR!Pieces
<1>6. \A i \in DOMAIN g.op, c \in 0..Chunks(g) - 1 :
        g.op[i] = "mul_mat" => GR!Piece(i, 2, c) \in GR!Pieces(g, i)
  BY SameGraph DEF GR!Pieces
<1>7. \A i \in DOMAIN g.op : \A q \in GR!Pieces(g, i) :
              \/ \E t \in 0..g.n_threads - 1 : ~Skipped(g, i) /\ q = GR!Piece(i, 1, t)
              \/ \E c \in 0..Chunks(g) - 1 : g.op[i] = "mul_mat" /\ q = GR!Piece(i, 2, c)
  BY SameGraph DEF GR!Pieces
<1>. QED
  BY <1>1, <1>3, <1>5, <1>6, <1>7

LEMMA ChunksCount == ASSUME NEW g \in Cgraph  PROVE Chunks(g) \in Nat
BY DEF Chunks, Cgraph

LEMMA PieceEquals ==
  \A i, s, t, j, r, u : GR!Piece(i, s, t) = GR!Piece(j, r, u) <=> i = j /\ s = r /\ t = u
BY DEF GR!Piece

\* What is known wherever a graph is being computed.
LEMMA ComputingTyped ==
  ASSUME PoolInv, PiecesInv, Computing
  PROVE  /\ cgraph \in Cgraph /\ Len(cgraph.op) \in Nat /\ DOMAIN cgraph.op = 1..Len(cgraph.op)
         /\ Nth \in Nat \ {0} /\ Parties \subseteq Thread /\ Parties = 0..cgraph.n_threads - 1
         /\ \A t \in Parties : /\ node_n[t] \in Nat \ {0} /\ chunk[t] \in Nat /\ t \in Nat
                               /\ Ended(t) \in Nat /\ Begun(t) \in Nat /\ Opened(t) \in Nat
                               /\ Ended(t) <= Opened(t) /\ Opened(t) <= Begun(t)
                               /\ Tiling(t) => AtTiles(t) /\ Ended(t) = node_n[t] - 1
                               /\ AtTiles(t) => ~Fresh(t)
<1>1. cgraph \in Cgraph
  BY RunnableGraph DEF PoolInv, PoolTyped
<1>2. Len(cgraph.op) \in Nat /\ DOMAIN cgraph.op = 1..Len(cgraph.op)
  BY <1>1, PiecesAre
<1>3. Nth \in Nat /\ Parties \subseteq Thread
  BY PartiesAreThreads DEF PoolInv
<1>4. Nth \in Nat \ {0} /\ Parties = 0..cgraph.n_threads - 1
  <2>1. 0 \in 0..Nth - 1 /\ Nth = cgraph.n_threads
    BY DEF Computing, Parties
  <2>. QED
    BY <1>3, <2>1 DEF Parties
<1>5. ASSUME NEW t \in Parties
      PROVE  /\ node_n[t] \in Nat \ {0} /\ chunk[t] \in Nat /\ t \in Nat
             /\ Tiling(t) => AtTiles(t)
             /\ AtTiles(t) => ~Fresh(t)
  <2>1. node_n[t] \in Nat \ {0} /\ chunk[t] \in Nat /\ t \in Nat
    BY <1>3 DEF PoolInv, PoolTyped, PiecesInv, Parties
  <2>2. Tiling(t) => AtTiles(t)
    BY DEF Tiling, AtTiles, Released, AtBarrier
  <2>3. AtTiles(t) => ~Left(t) /\ pc[t] # "run"
    BY DEF Left, Released, AtTiles, Off, OutsideGraph, AtBarrier
  <2>4. AtTiles(t) => ~Fresh(t)
    BY <1>3, <2>3 DEF PoolInv, Placed, Fresh
  <2>. QED
    BY <2>1, <2>2, <2>4
<1>6. ASSUME NEW t \in Parties
      PROVE  /\ Ended(t) \in Nat /\ (~Fresh(t) => Ended(t) \in {node_n[t] - 1, node_n[t]})
             /\ Tiling(t) => Ended(t) = node_n[t] - 1
  BY <1>5 DEF Ended, Tiling, Released, AtBarrier
<1>. QED
  BY <1>1, <1>2, <1>3, <1>4, <1>5, <1>6 DEF Begun, Opened

\* Whoever comes from m to the barriers of node n has skipped what is between.
LEMMA LoopLeadsTo ==
  ASSUME NEW g \in Cgraph, NEW a \in Abort, NEW m \in Nat \ {0}, NEW n \in Nat \ {0},
         FromLoop(g, a, m) \in {<<n, "next">>, <<n, "tiles">>, <<n + 1, "final">>}
  PROVE  /\ \A i \in 1..n - 1 : ~Skipped(g, i) => i < m
         /\ n <= Len(g.op) /\ g.op[n] = "mul_mat" /\ FromLoop(g, a, m) # <<n, "tiles">> => n < m
<1> DEFINE u == Target(g, a, m)
<1>1. u \in Nat /\ m <= u /\ \A j \in m..u - 1 : ~Stop(g, a, j)
  BY TargetProperty
<1>2. FromLoop(g, a, m) = AtNode(g, a, u) /\ Len(g.op) \in Nat
  BY DEF FromLoop, Cgraph
<1> HIDE DEF u
<1>3. u = n \/ u = n + 1
  BY <1>1, <1>2 DEF AtNode, AfterWork
<1>4. \A j \in m..u - 1 : Skipped(g, j)
  BY <1>1 DEF Stop
<1>5. \A i \in 1..n - 1 : ~Skipped(g, i) => i < m
  BY <1>1, <1>3, <1>4
<1>6. n <= Len(g.op) /\ g.op[n] = "mul_mat" /\ FromLoop(g, a, m) # <<n, "tiles">> => n < m
  <2> SUFFICES ASSUME n <= Len(g.op), g.op[n] = "mul_mat", FromLoop(g, a, m) # <<n, "tiles">>,
                      m <= n
               PROVE  FALSE
    BY <1>1
  <2>1. u = n
    BY <1>1, <1>3, <1>4 DEF Skipped
  <2>. QED
    BY <1>2, <2>1 DEF AtNode
<1>. QED
  BY <1>5, <1>6

\* Where a thread stands, by its position.
LEMMA PositionIs ==
  ASSUME PoolInv, PiecesInv, Computing, NEW u \in Parties
  PROVE  \/ /\ \E m \in Nat \ {0} : Position(u) = FromLoop(cgraph, abort, m) /\ Ended(u) = m - 1
            /\ ~AtTiles(u)
         \/ Position(u) = AfterWork(cgraph, node_n[u]) /\ Tiling(u)
         \/ Position(u) = <<node_n[u], "tiles">> /\ AtTiles(u) /\ ~Tiling(u)
         \/ Position(u) = <<node_n[u], "next">> /\ Ended(u) = node_n[u] /\ ~AtTiles(u)
         \/ Position(u) = <<node_n[u], "final">> /\ Ended(u) = node_n[u] - 1 /\ ~AtTiles(u)
         \/ Position(u) = <<node_n[u], "done">> /\ Left(u) /\ ~AtTiles(u)
<1>1. /\ node_n[u] \in Nat \ {0} /\ u \in Thread /\ Ended(u) \in Nat
      /\ Tiling(u) => AtTiles(u)
      /\ AtTiles(u) => ~Fresh(u)
  BY ComputingTyped
<1>2. after[u] \in {"tiles", "next", "final"}
  BY <1>1 DEF PoolInv, PoolTyped
<1>3. CASE Fresh(u)
  <2>1. Position(u) = FromLoop(cgraph, abort, 1) /\ Ended(u) = 1 - 1 /\ 1 \in Nat \ {0}
    BY <1>3 DEF Position, Ended
  <2>. QED
    BY <1>1, <1>3, <2>1
<1>4. CASE ~Fresh(u) /\ Left(u)
  BY <1>4 DEF Position, Left, AtTiles, AtBarrier, Off, OutsideGraph, Released
<1>5. CASE ~Fresh(u) /\ ~Left(u) /\ pc[u] = "loop"
  <2>1. Position(u) = FromLoop(cgraph, abort, node_n[u]) /\ Ended(u) = node_n[u] - 1
    BY <1>5 DEF Position, Ended, AtBarrier
  <2>. QED
    BY <1>1, <1>5, <2>1 DEF AtTiles, AtBarrier
<1>6. CASE ~Fresh(u) /\ ~Left(u) /\ pc[u] \in {"tiles", "steal"}
  BY <1>6 DEF Position, Tiling
<1>7. CASE ~Fresh(u) /\ ~Left(u) /\ Released(u)
  <2>1. pc[u] = "spin" /\ pc[u] \in AtBarrier
    BY <1>7 DEF Released, AtBarrier
  <2>2. Position(u) = AfterBarrier(cgraph, abort, node_n[u], after[u])
    BY <1>7, <2>1 DEF Position
  <2>3. CASE after[u] = "tiles"
    BY <1>7, <2>2, <2>3 DEF AfterBarrier, Tiling
  <2>4. CASE after[u] = "next"
    <3>1. Ended(u) = (node_n[u] + 1) - 1 /\ node_n[u] + 1 \in Nat \ {0} /\ ~AtTiles(u)
      BY <1>1, <1>7, <2>1, <2>4 DEF Ended, AtTiles
    <3>. QED
      BY <2>2, <2>4, <3>1 DEF AfterBarrier
  <2>5. CASE after[u] = "final"
    BY <1>7, <2>5 DEF Left
  <2>. QED
    BY <1>2, <2>3, <2>4, <2>5
<1>8. CASE /\ ~Fresh(u) /\ ~Left(u) /\ ~Released(u)
           /\ pc[u] \notin {"loop", "tiles", "steal"}
  <2>1. pc[u] \in AtBarrier
    <3>1. pc[u] \in Off \cup OutsideGraph \cup InGraph \cup {"run"} /\ (u = 0 => pc[u] # "run")
      BY <1>1 DEF PoolInv, PoolTyped, Placed, OutsideGraph, InGraph
    <3>. QED
      BY <1>8, <3>1 DEF Left, Fresh, InGraph, AtBarrier
  <2>2. Position(u) = <<node_n[u], after[u]>> /\ ~Tiling(u)
    BY <1>8 DEF Position, Tiling
  <2>3. AtTiles(u) <=> after[u] = "tiles"
    BY <1>8, <2>1 DEF AtTiles
  <2>4. /\ after[u] = "next" => Ended(u) = node_n[u]
        /\ after[u] = "final" => Ended(u) = node_n[u] - 1
    BY <1>8, <2>1 DEF Ended
  <2>. QED
    BY <1>2, <2>2, <2>3, <2>4
<1>. QED
  BY <1>3, <1>4, <1>5, <1>6, <1>7, <1>8

\* A thread that comes to a barrier of node n, or has it behind it, has done
\* with the nodes ahead of n.
LEMMA Behind ==
  ASSUME PoolInv, PiecesInv, Computing, NEW u \in Parties, NEW n \in Nat \ {0},
         Position(u) \in {<<n, "next">>, <<n, "tiles">>, <<n + 1, "final">>}
  PROVE  \A i \in 1..n - 1 : ~Skipped(cgraph, i) => i <= Ended(u)
<1>1. /\ cgraph \in Cgraph /\ abort \in Abort /\ Len(cgraph.op) \in Nat
      /\ node_n[u] \in Nat \ {0} /\ Ended(u) \in Nat
      /\ Tiling(u) => Ended(u) = node_n[u] - 1
      /\ AtTiles(u) => ~Fresh(u)
  BY ComputingTyped DEF PoolInv, PoolTyped
<1>2. ASSUME NEW m \in Nat \ {0}, Position(u) = FromLoop(cgraph, abort, m), Ended(u) = m - 1
      PROVE  \A i \in 1..n - 1 : ~Skipped(cgraph, i) => i <= Ended(u)
  <2>1. \A i \in 1..n - 1 : ~Skipped(cgraph, i) => i < m
    BY <1>1, <1>2, LoopLeadsTo
  <2>. QED
    BY <1>2, <2>1
<1>3. CASE Position(u) = AfterWork(cgraph, node_n[u]) /\ Tiling(u)
  <2>1. node_n[u] = n
    BY <1>1, <1>3 DEF AfterWork
  <2>. QED
    BY <1>1, <1>3, <2>1
<1>4. CASE Position(u) = <<node_n[u], "tiles">> /\ AtTiles(u) /\ ~Tiling(u)
  <2>1. node_n[u] = n
    BY <1>4
  <2>2. Ended(u) \in {n - 1, n}
    BY <1>1, <1>4, <2>1 DEF Ended
  <2>. QED
    BY <1>1, <2>2
<1>5. CASE Position(u) = <<node_n[u], "next">> /\ Ended(u) = node_n[u]
  BY <1>5
<1>6. CASE Position(u) = <<node_n[u], "final">> /\ Ended(u) = node_n[u] - 1
  <2>1. node_n[u] = n + 1
    BY <1>6
  <2>. QED
    BY <1>6, <2>1
<1>7. CASE Position(u) = <<node_n[u], "done">>
  BY <1>7
<1>. QED
  BY <1>2, <1>3, <1>4, <1>5, <1>6, <1>7, PositionIs

\* When one thread computes the tiles of n, the others do or have done so.
LEMMA Abreast ==
  ASSUME PoolInv, PiecesInv, Computing, NEW u \in Parties, NEW n \in Nat \ {0}, MulMat(n),
         Position(u) = AfterWork(cgraph, n)
  PROVE  (Tiling(u) /\ node_n[u] = n) \/ (n <= Ended(u) /\ ~AtTiles(u))
<1>1. /\ cgraph \in Cgraph /\ abort \in Abort /\ Len(cgraph.op) \in Nat
      /\ node_n[u] \in Nat \ {0}
      /\ n <= Len(cgraph.op) /\ cgraph.op[n] = "mul_mat"
  BY ComputingTyped DEF PoolInv, PoolTyped, MulMat
<1>2. ASSUME NEW m \in Nat \ {0}, Position(u) = FromLoop(cgraph, abort, m), Ended(u) = m - 1
      PROVE  n <= Ended(u)
  <2>1. AfterWork(cgraph, n) \in {<<n, "next">>, <<n, "tiles">>, <<n + 1, "final">>}
        /\ AfterWork(cgraph, n) # <<n, "tiles">>
    BY DEF AfterWork
  <2>2. n < m
    BY <1>1, <1>2, <2>1, LoopLeadsTo
  <2>. QED
    BY <1>2, <2>2
<1>3. CASE Position(u) = AfterWork(cgraph, node_n[u]) /\ Tiling(u)
  BY <1>1, <1>3 DEF AfterWork
<1>4. CASE Position(u) = <<node_n[u], "tiles">>
  BY <1>4 DEF AfterWork
<1>5. CASE Position(u) = <<node_n[u], "next">> /\ Ended(u) = node_n[u] /\ ~AtTiles(u)
  BY <1>1, <1>5 DEF AfterWork
<1>6. CASE Position(u) = <<node_n[u], "final">> /\ Ended(u) = node_n[u] - 1 /\ ~AtTiles(u)
  BY <1>1, <1>6 DEF AfterWork
<1>7. CASE Position(u) = <<node_n[u], "done">>
  BY <1>7 DEF AfterWork
<1>. QED
  BY <1>2, <1>3, <1>4, <1>5, <1>6, <1>7, PositionIs

\* When a thread is at a barrier of node n, all the nodes ahead of it are computed.
LEMMA AheadIsComputed ==
  ASSUME PoolInv, PiecesInv, Computing, NEW t \in Parties, NEW n \in Nat \ {0},
         Position(t) \in {<<n, "next">>, <<n, "tiles">>, <<n + 1, "final">>}
  PROVE  \A q \in GR!AllPieces(cgraph) : q.node < n => q \in computed
<1> SUFFICES ASSUME NEW q \in GR!AllPieces(cgraph), q.node < n  PROVE q \in computed
  OBVIOUS
<1>1. /\ cgraph \in Cgraph /\ DOMAIN cgraph.op = 1..Len(cgraph.op) /\ Len(cgraph.op) \in Nat
      /\ Parties = 0..cgraph.n_threads - 1
      /\ \A u \in Parties : Ended(u) \in Nat /\ Begun(u) \in Nat /\ Ended(u) <= Begun(u)
  BY ComputingTyped
<1>2. PICK i \in DOMAIN cgraph.op : q \in GR!Pieces(cgraph, i)
  BY <1>1, PiecesAre
<1>3. \/ \E u \in Parties : ~Skipped(cgraph, i) /\ q = GR!Piece(i, 1, u)
      \/ \E c \in TileNumbers : cgraph.op[i] = "mul_mat" /\ q = GR!Piece(i, 2, c)
  BY <1>1, <1>2, PiecesAre DEF TileNumbers
<1>4. q.node = i
  BY <1>3 DEF GR!Piece
<1>5. i \in 1..n - 1 /\ ~Skipped(cgraph, i)
  BY <1>1, <1>3, <1>4 DEF Skipped
<1>6. \A u \in Parties : i <= Ended(u)
  <2> TAKE u \in Parties
  <2>1. Position(u) = Position(t)
    BY DEF PoolInv, Together
  <2>. QED
    BY <1>5, <2>1, Behind
<1>7. CASE \E u \in Parties : ~Skipped(cgraph, i) /\ q = GR!Piece(i, 1, u)
  <2>1. PICK u \in Parties : q = GR!Piece(i, 1, u)
    BY <1>7
  <2>2. i <= Begun(u)
    BY <1>1, <1>6
  <2>. QED
    BY <1>5, <2>1, <2>2 DEF Computing, OwnPart
<1>8. CASE \E c \in TileNumbers : cgraph.op[i] = "mul_mat" /\ q = GR!Piece(i, 2, c)
  BY <1>6, <1>8 DEF Computing, TilesComplete, MulMat
<1>. QED
  BY <1>3, <1>7, <1>8

-----------------------------------------------------------------------------
(* Steps of the threads, and what they compute                             *)

\* A thread that is no further than before.
Still(u) ==
  /\ Ended(u)' = Ended(u) /\ chunk'[u] = chunk[u]
  /\ AtTiles(u)' <=> AtTiles(u)
  /\ Tiling(u)' <=> Tiling(u)
  /\ Holds(u)' <=> Holds(u)
  /\ AtTiles(u) => node_n'[u] = node_n[u]
  /\ AtEnd(u)' => AtEnd(u) /\ node_n'[u] = node_n[u]

LEMMA OthersStill ==
  ASSUME NEW s \in Thread, OnlyMoves(s), NEW u \in Thread, u # s, chunk'[u] = chunk[u]
  PROVE  Still(u)
<1>1. /\ n_graph' = n_graph /\ n_barrier_passed' = n_barrier_passed
      /\ pc'[u] = pc[u] /\ node_n'[u] = node_n[u] /\ seen'[u] = seen[u]
      /\ after'[u] = after[u] /\ last_graph'[u] = last_graph[u]
  BY DEF OnlyMoves
<1>2. /\ Fresh(u)' <=> Fresh(u)
      /\ Released(u)' <=> Released(u)
      /\ Left(u)' <=> Left(u)
  BY <1>1 DEF Fresh, Released, Left
<1>3. /\ AtTiles(u)' <=> AtTiles(u)
      /\ Tiling(u)' <=> Tiling(u)
      /\ Holds(u)' <=> Holds(u)
  BY <1>1, <1>2 DEF AtTiles, Tiling, Holds
<1>4. Ended(u)' = Ended(u)
  BY <1>1, <1>2 DEF Ended
<1>5. AtEnd(u)' => AtEnd(u)
  BY <1>1, <1>2 DEF AtEnd
<1>. QED
  BY <1>1, <1>3, <1>4, <1>5 DEF Still

LEMMA StillNumbers ==
  ASSUME PoolInv, PiecesInv, Computing, NEW u \in Parties, Still(u)
  PROVE  Begun(u)' = Begun(u) /\ Opened(u)' = Opened(u)
<1>1. Tiling(u) => AtTiles(u)
  BY ComputingTyped
<1>. QED
  BY <1>1 DEF Still, Begun, Opened

LEMMA StillOwnPart ==
  ASSUME PoolInv, PiecesInv, Computing, NEW u \in Parties, Still(u),
         UNCHANGED <<cgraph, n_graph>>, abort' = abort \/ abort = None,
         current_chunk' = current_chunk \/ u # 0 \/ ~AtTiles(u) \/ Tiling(u),
         \A i \in DOMAIN cgraph.op : GR!Piece(i, 1, u) \in computed' <=> GR!Piece(i, 1, u) \in computed
  PROVE  OwnPart(u)'
<1>1. OwnPart(u) /\ node_n[u] \in Nat \ {0}
  BY ComputingTyped DEF Computing
<1>2. Begun(u)' = Begun(u)
  BY StillNumbers
<1>3. AtEnd(u)' => node_n'[u] > Len(cgraph'.op) \/ node_n'[u] = abort'
  BY <1>1 DEF OwnPart, Still, None
<1>4. AtTiles(u)' => MulMat(node_n[u])' /\ node_n'[u] = node_n[u]
  BY <1>1 DEF OwnPart, Still, MulMat
<1>5. AtTiles(u)' /\ ~Tiling(u)' => chunk'[u] = u /\ (u = 0 => current_chunk' = Nth')
  BY <1>1 DEF OwnPart, Still, Nth
<1>6. \A i \in DOMAIN cgraph'.op :
        ~Skipped(cgraph', i) => (GR!Piece(i, 1, u) \in computed' <=> i <= Begun(u)')
  BY <1>1, <1>2 DEF OwnPart
<1>. QED
  BY <1>3, <1>4, <1>5, <1>6 DEF OwnPart, MulMat

\* No tile is computed and no thread begins or ends one.
LEMMA Progress ==
  ASSUME PoolInv, PiecesInv, Computing, UNCHANGED <<cgraph, n_graph>>,
         \A u \in Parties : OwnPart(u)' /\ Opened(u)' \in Nat /\ Opened(u) <= Opened(u)',
         \A u \in Parties, i \in DOMAIN cgraph.op : MulMat(i) /\ i <= Ended(u)' => i <= Ended(u),
         \A i \in DOMAIN cgraph.op, c \in TileNumbers :
           GR!Piece(i, 2, c) \in computed' <=> GR!Piece(i, 2, c) \in computed,
         \A u \in Parties : Tiling(u)' =>
           /\ Tiling(u) /\ node_n'[u] = node_n[u] /\ current_chunk' = current_chunk
           /\ \A v \in Parties : /\ chunk'[v] = chunk[v]
                                 /\ Tiling(v)' <=> Tiling(v)
                                 /\ Holds(v)' <=> Holds(v)
  PROVE  Computing'
<1>1. Parties' = Parties /\ Nth' = Nth /\ TileNumbers' = TileNumbers
  BY DEF Parties, Nth, TileNumbers
<1>2. DOMAIN cgraph.op = 1..Len(cgraph.op) /\ \A u \in Parties : Opened(u) \in Nat
  BY ComputingTyped
<1>3. TilesInTime'
  <2> SUFFICES ASSUME NEW i \in DOMAIN cgraph.op, NEW c \in TileNumbers,
                      GR!Piece(i, 2, c) \in computed', NEW u \in Parties
               PROVE  i <= Opened(u)'
    BY <1>1 DEF TilesInTime
  <2>1. i <= Opened(u)
    BY DEF Computing, TilesInTime
  <2>. QED
    BY <1>2, <2>1
<1>4. TilesComplete'
  <2> SUFFICES ASSUME NEW i \in DOMAIN cgraph.op, NEW c \in TileNumbers, MulMat(i),
                      \A u \in Parties : i <= Ended(u)'
               PROVE  GR!Piece(i, 2, c) \in computed'
    BY <1>1 DEF TilesComplete, MulMat
  <2>1. \A u \in Parties : i <= Ended(u)
    OBVIOUS
  <2>. QED
    BY <2>1 DEF Computing, TilesComplete
<1>5. ASSUME NEW t \in Parties, Tiling(t)'  PROVE TilesOf(node_n[t])'
  <2>1. /\ Tiling(t) /\ node_n'[t] = node_n[t] /\ current_chunk' = current_chunk
        /\ \A v \in Parties : /\ chunk'[v] = chunk[v]
                              /\ Tiling(v)' <=> Tiling(v)
                              /\ Holds(v)' <=> Holds(v)
    BY <1>5
  <2>2. TilesOf(node_n[t]) /\ OwnPart(t) /\ AtTiles(t)
    BY <2>1, ComputingTyped DEF Computing
  <2>3. node_n[t] \in DOMAIN cgraph.op
    BY <2>2 DEF OwnPart, MulMat
  <2> DEFINE n == node_n[t]
  <2> HIDE DEF n
  <2>4. TilesOf(n) /\ n \in DOMAIN cgraph.op /\ n = node_n'[t]
    BY <2>1, <2>2, <2>3 DEF n
  <2>5. \A c \in TileNumbers : GR!Piece(n, 2, c) \in computed' <=> GR!Piece(n, 2, c) \in computed
    BY <2>4
  <2>6. \A c \in TileNumbers : GR!Piece(n, 2, c) \in computed'
           <=> c < current_chunk' /\ \A u \in Parties : Holds(u)' => chunk'[u] # c
    BY <2>1, <2>4, <2>5 DEF TilesOf
  <2>7. /\ current_chunk' >= Nth
        /\ \A u \in Parties : Holds(u)' => chunk'[u] < current_chunk'
        /\ \A u, v \in Parties : Holds(u)' /\ Holds(v)' /\ chunk'[u] = chunk'[v] => u = v
        /\ (\E u \in Parties : ~Tiling(u)') => current_chunk' >= Chunks(cgraph)
    BY <2>1, <2>4 DEF TilesOf
  <2>. QED
    BY <1>1, <2>4, <2>6, <2>7 DEF TilesOf
<1>. QED
  BY <1>1, <1>3, <1>4, <1>5 DEF Computing

\* Nothing is computed and nobody gets any further.
LEMMA NoProgress ==
  ASSUME PoolInv, PiecesInv, Computing,
         UNCHANGED <<cgraph, n_graph, abort, current_chunk, computed>>,
         \A u \in Parties : Still(u)
  PROVE  Computing'
<1>1. \A u \in Parties : OwnPart(u)'
  BY StillOwnPart
<1>2. \A u \in Parties : Opened(u)' = Opened(u) /\ Opened(u) \in Nat
  BY StillNumbers, ComputingTyped
<1>3. \A u \in Parties : Tiling(u) => AtTiles(u)
  BY ComputingTyped
<1>4. \A u \in Parties : Tiling(u)' =>
           /\ Tiling(u) /\ node_n'[u] = node_n[u] /\ current_chunk' = current_chunk
           /\ \A v \in Parties : /\ chunk'[v] = chunk[v]
                                 /\ Tiling(v)' <=> Tiling(v)
                                 /\ Holds(v)' <=> Holds(v)
  BY <1>3 DEF Still
<1>5. \A u \in Parties, i \in DOMAIN cgraph.op : MulMat(i) /\ i <= Ended(u)' => i <= Ended(u)
  BY DEF Still
<1>. QED
  BY <1>1, <1>2, <1>4, <1>5, Progress


\* The barrier between the two stages of a product lets all threads to its tiles:
\* each begins with the chunk of its number.
LEMMA OpensTiles ==
  ASSUME PoolInv, PiecesInv, Computing, NEW n \in Nat \ {0},
         UNCHANGED <<cgraph, n_graph, current_chunk, computed, chunk>>,
         \A u \in Parties : /\ AtTiles(u) /\ ~Tiling(u) /\ node_n[u] = n /\ Ended(u) = n - 1
                            /\ AtTiles(u)' /\ Tiling(u)' /\ Holds(u)' /\ ~AtEnd(u)'
                            /\ node_n'[u] = n /\ Ended(u)' = n - 1
  PROVE  Computing'
<1>1. Parties' = Parties /\ Nth' = Nth /\ TileNumbers' = TileNumbers
  BY DEF Parties, Nth, TileNumbers
<1>2. \A u \in Parties : Begun(u) = n /\ Begun(u)' = n /\ Opened(u) = n - 1 /\ Opened(u)' = n
  BY DEF Begun, Opened
<1>3. /\ 0 \in Parties /\ Nth \in Nat \ {0} /\ DOMAIN cgraph.op = 1..Len(cgraph.op)
      /\ current_chunk = Nth /\ \A u \in Parties : chunk[u] = u /\ MulMat(n)
  BY ComputingTyped DEF Computing, OwnPart
<1>4. \A u \in Parties : OwnPart(u)'
  BY <1>2, <1>3 DEF Computing, OwnPart, MulMat
<1>5. TilesInTime'
  BY <1>1, <1>2, <1>3 DEF Computing, TilesInTime
<1>6. TilesComplete'
  BY <1>1 DEF Computing, TilesComplete, MulMat
<1>7. TilesOf(n)'
  <2>1. \A c \in TileNumbers : GR!Piece(n, 2, c) \notin computed
    <3>1. n \in DOMAIN cgraph.op /\ ~(n <= Opened(0))
      BY <1>2, <1>3 DEF MulMat
    <3>. QED
      BY <1>3, <3>1 DEF Computing, TilesInTime
  <2>2. \A c \in TileNumbers : c < Nth => c \in Parties
    BY <1>3 DEF TileNumbers, Parties
  <2>3. \A c \in TileNumbers : GR!Piece(n, 2, c) \in computed'
           <=> c < current_chunk' /\ \A u \in Parties : Holds(u)' => chunk'[u] # c
    BY <1>3, <2>1, <2>2
  <2>4. /\ current_chunk' >= Nth
        /\ \A u \in Parties : Holds(u)' => chunk'[u] < current_chunk'
    BY <1>3 DEF Parties
  <2>. QED
    BY <1>1, <1>3, <2>3, <2>4 DEF TilesOf
<1>. QED
  BY <1>1, <1>4, <1>5, <1>6, <1>7 DEF Computing

\* A thread that computes tiles moves on: to another tile, or to the end of the node
\* when none is left.
LEMMA TilerMoves ==
  ASSUME PoolInv, PiecesInv, Computing, NEW t \in Parties, NEW n \in Nat \ {0},
         pc[t] \in {"tiles", "steal"}, node_n[t] = n,
         UNCHANGED <<cgraph, n_graph>>, abort' = abort \/ abort = None,
         \A u \in Parties \ {t} : Still(u),
         OwnPart(t)', TilesOf(n)', current_chunk' \in Nat,
         Tiling(t)' => node_n'[t] = n,
         Ended(t)' = IF Tiling(t)' THEN n - 1 ELSE n,
         \A i \in DOMAIN cgraph.op, u \in Parties :
           GR!Piece(i, 1, u) \in computed' <=> GR!Piece(i, 1, u) \in computed,
         \A i \in DOMAIN cgraph.op, c \in TileNumbers :
           i # n => (GR!Piece(i, 2, c) \in computed' <=> GR!Piece(i, 2, c) \in computed)
  PROVE  Computing'
<1>1. Parties' = Parties /\ Nth' = Nth /\ TileNumbers' = TileNumbers
  BY DEF Parties, Nth, TileNumbers
<1>2. /\ DOMAIN cgraph.op = 1..Len(cgraph.op) /\ Len(cgraph.op) \in Nat
      /\ Parties \subseteq Thread
      /\ \A u \in Parties : /\ node_n[u] \in Nat \ {0}
                            /\ Ended(u) \in Nat /\ Opened(u) \in Nat /\ Ended(u) <= Opened(u)
                            /\ Tiling(u) => AtTiles(u) /\ Ended(u) = node_n[u] - 1
  BY ComputingTyped
<1>3. Tiling(t) /\ MulMat(n) /\ n \in DOMAIN cgraph.op
  BY <1>2 DEF Tiling, Computing, OwnPart, MulMat
<1>4. \A u \in Parties : (Tiling(u) /\ node_n[u] = n) \/ (n <= Ended(u) /\ ~AtTiles(u))
  <2>1. Position(t) = AfterWork(cgraph, n)
    BY <1>2, TilesPosition
  <2>2. \A u \in Parties : Position(u) = AfterWork(cgraph, n)
    BY <2>1 DEF PoolInv, Together
  <2>. QED
    BY <1>3, <2>2, Abreast
<1>5. \A u \in Parties \ {t} : OwnPart(u)'
  BY <1>4, StillOwnPart
<1>6. /\ Opened(t) = n /\ Opened(t)' = n /\ Ended(t) = n - 1
      /\ \A u \in Parties \ {t} : Opened(u)' = Opened(u) /\ Ended(u)' = Ended(u)
  BY <1>2, <1>3, StillNumbers DEF Opened, Still
<1>7. \A u \in Parties : n <= Opened(u) /\ n <= Opened(u)'
  BY <1>2, <1>4, <1>6 DEF Opened
<1>8. TilesInTime'
  <2> SUFFICES ASSUME NEW i \in DOMAIN cgraph.op, NEW c \in TileNumbers,
                      GR!Piece(i, 2, c) \in computed', NEW u \in Parties
               PROVE  i <= Opened(u)'
    BY <1>1 DEF TilesInTime
  <2>1. CASE i = n
    BY <1>7, <2>1
  <2>2. CASE i # n
    BY <1>6, <2>2 DEF Computing, TilesInTime
  <2>. QED
    BY <2>1, <2>2
<1>9. TilesComplete'
  <2> SUFFICES ASSUME NEW i \in DOMAIN cgraph.op, NEW c \in TileNumbers, MulMat(i),
                      \A u \in Parties : i <= Ended(u)'
               PROVE  GR!Piece(i, 2, c) \in computed'
    BY <1>1 DEF TilesComplete, MulMat
  <2>1. CASE i = n
    <3>1. ~Tiling(t)'
      BY <2>1
    <3>2. \A u \in Parties : ~Tiling(u)'
      <4> SUFFICES ASSUME NEW u \in Parties \ {t}, Tiling(u)'  PROVE FALSE
        BY <3>1
      <4>1. Tiling(u) /\ Ended(u)' = Ended(u)
        BY DEF Still
      <4>2. Ended(u) = n - 1
        BY <1>2, <1>4, <4>1
      <4>. QED
        BY <2>1, <4>1, <4>2
    <3>3. \A u \in Parties : ~Holds(u)'
      BY <3>2 DEF Holds
    <3>4. current_chunk' >= Chunks(cgraph)
      BY <1>1, <3>1 DEF TilesOf
    <3>5. c < current_chunk'
      <4>1. Chunks(cgraph) \in Nat
        BY ComputingTyped, ChunksCount
      <4>2. c \in Int /\ c < Chunks(cgraph)
        BY <4>1 DEF TileNumbers
      <4>. QED
        BY <3>4, <4>1, <4>2
    <3>. QED
      BY <1>1, <2>1, <3>3, <3>5 DEF TilesOf
  <2>2. CASE i # n
    <3>1. i <= Ended(t)
      BY <1>2, <1>6, <2>2
    <3>2. \A u \in Parties : i <= Ended(u)
      BY <1>6, <3>1
    <3>. QED
      BY <2>2, <3>2 DEF Computing, TilesComplete
  <2>. QED
    BY <2>1, <2>2
<1>10. ASSUME NEW u \in Parties, Tiling(u)'  PROVE TilesOf(node_n[u])'
  <2>1. CASE u = t
    BY <1>10, <2>1
  <2>2. CASE u # t
    <3>1. Tiling(u) /\ node_n'[u] = node_n[u]
      BY <1>2, <1>10, <2>2 DEF Still
    <3>. QED
      BY <1>2, <1>4, <3>1
  <2>. QED
    BY <2>1, <2>2
<1>. QED
  BY <1>1, <1>5, <1>8, <1>9, <1>10 DEF Computing

\* A thread puts its chunk away: it has computed it, or there was none left.
LEMMA PutsAway ==
  ASSUME PoolInv, PiecesInv, Computing, NEW t \in Parties, NEW n \in Nat \ {0}, TilesOf(n),
         UNCHANGED <<cgraph, n_graph, current_chunk, chunk>>,
         \A u \in Parties \ {t} : Still(u),
         Tiling(t), Holds(t), ~Holds(t)', Tiling(t)' \/ current_chunk >= Chunks(cgraph),
         \A c \in TileNumbers : GR!Piece(n, 2, c) \in computed'
                                  <=> GR!Piece(n, 2, c) \in computed \/ c = chunk[t]
  PROVE  TilesOf(n)'
<1>1. Parties' = Parties /\ Nth' = Nth /\ TileNumbers' = TileNumbers
  BY DEF Parties, Nth, TileNumbers
<1>2. \A u \in Parties \ {t} : (Holds(u)' <=> Holds(u)) /\ (Tiling(u)' <=> Tiling(u))
  BY DEF Still
<1>3. \A c \in TileNumbers : GR!Piece(n, 2, c) \in computed'
        <=> c < current_chunk' /\ \A u \in Parties : Holds(u)' => chunk'[u] # c
  <2> TAKE c \in TileNumbers
  <2>1. GR!Piece(n, 2, c) \in computed
          <=> c < current_chunk /\ \A u \in Parties : Holds(u) => chunk[u] # c
    BY DEF TilesOf
  <2>2. CASE c = chunk[t]
    <3>1. c < current_chunk /\ \A u \in Parties : Holds(u) /\ chunk[u] = chunk[t] => u = t
      BY <2>2 DEF TilesOf
    <3>. QED
      BY <1>2, <2>2, <3>1
  <2>3. CASE c # chunk[t]
    BY <1>2, <2>1, <2>3
  <2>. QED
    BY <2>2, <2>3
<1>4. /\ \A u \in Parties : Holds(u)' => Holds(u)
      /\ (\E u \in Parties : ~Tiling(u)') => current_chunk >= Chunks(cgraph)
  BY <1>2 DEF TilesOf
<1>. QED
  BY <1>1, <1>3, <1>4 DEF TilesOf

\* A thread takes the next chunk from the shared counter.
LEMMA TakesChunk ==
  ASSUME PoolInv, PiecesInv, Computing, NEW t \in Parties, NEW n \in Nat \ {0}, TilesOf(n),
         UNCHANGED <<cgraph, n_graph, computed>>,
         \A u \in Parties \ {t} : Still(u),
         Tiling(t), Tiling(t)', ~Holds(t), Holds(t)',
         chunk'[t] = current_chunk, current_chunk' = current_chunk + 1
  PROVE  TilesOf(n)'
<1>1. /\ Parties' = Parties /\ Nth' = Nth /\ TileNumbers' = TileNumbers
      /\ current_chunk \in Nat /\ Nth \in Nat /\ \A u \in Parties : chunk[u] \in Nat
      /\ Chunks(cgraph) \in Nat
  <2>1. Chunks(cgraph) \in Nat
    BY ComputingTyped, ChunksCount
  <2>. QED
    BY <2>1, ComputingTyped DEF Parties, Nth, TileNumbers, PiecesInv
<1>2. \A u \in Parties \ {t} : /\ Holds(u)' <=> Holds(u)
                               /\ Tiling(u)' <=> Tiling(u)
                               /\ chunk'[u] = chunk[u]
  BY DEF Still
<1>3. \A c \in TileNumbers : GR!Piece(n, 2, c) \in computed'
        <=> c < current_chunk' /\ \A u \in Parties : Holds(u)' => chunk'[u] # c
  <2> TAKE c \in TileNumbers
  <2>1. GR!Piece(n, 2, c) \in computed
          <=> c < current_chunk /\ \A u \in Parties : Holds(u) => chunk[u] # c
    BY DEF TilesOf
  <2>2. c \in Int
    BY DEF TileNumbers
  <2>3. c < current_chunk <=> c < current_chunk' /\ c # chunk'[t]
    BY <1>1, <2>2
  <2>. QED
    BY <1>2, <2>1, <2>3
<1>4. \A u \in Parties \ {t} : Holds(u) => chunk[u] < current_chunk
  BY DEF TilesOf
<1>5. \A u \in Parties : Holds(u)' => chunk'[u] < current_chunk'
  BY <1>1, <1>2, <1>4
<1>6. \A u, v \in Parties : Holds(u)' /\ Holds(v)' /\ chunk'[u] = chunk'[v] => u = v
  BY <1>1, <1>2, <1>4 DEF TilesOf
<1>7. /\ current_chunk' >= Nth
      /\ (\E u \in Parties : ~Tiling(u)') => current_chunk' >= Chunks(cgraph)
  BY <1>1, <1>2 DEF TilesOf
<1>. QED
  BY <1>1, <1>3, <1>5, <1>6, <1>7 DEF TilesOf

-----------------------------------------------------------------------------
(* The steps between graphs and at the barriers compute nothing            *)

\* While a thread has not left it, a graph is being computed.
LEMMA Working ==
  ASSUME PoolInv, PiecesInv, NEW t \in Thread, ~Left(t)
  PROVE  Computing /\ t \in Parties /\ pc[0] \in InGraph
<1>1. t \in Parties
  BY DEF PoolInv, Placed
<1>2. pc[0] \notin OutsideGraph
  BY AllHaveLeft
<1>3. pc[0] \in InGraph /\ pc[0] # "kickoff"
  BY <1>2, ThreadZero DEF PoolInv, Placed, OutsideGraph
<1>. QED
  BY <1>1, <1>2, <1>3 DEF PiecesInv

\* A step that leaves the parameters, the chunks and the threads of the graph
\* where they are.
LEMMA Quiet ==
  ASSUME PoolInv, PiecesInv,
         UNCHANGED <<cgraph, abort, ec, current_chunk, chunk, computed, n_graph>>,
         pc'[0] = "kickoff" <=> pc[0] = "kickoff",
         pc[0] \in OutsideGraph => pc'[0] \in OutsideGraph,
         pc'[0] = "done" => pc[0] \in InGraph \cup {"done"},
         Computing => \A u \in Parties : Still(u)
  PROVE  PiecesInv'
<1>1. CASE pc[0] = "kickoff"
  BY <1>1 DEF PiecesInv
<1>2. CASE pc[0] # "kickoff" /\ Computing
  <2>1. Computing'
    BY <1>2, NoProgress
  <2>. QED
    BY <1>2, <2>1 DEF PiecesInv
<1>3. CASE pc[0] \in OutsideGraph \ {"done", "kickoff"} /\ n_graph.count = 0
  <2>1. pc'[0] \in OutsideGraph \ {"done"} /\ pc'[0] # "kickoff"
    BY <1>3 DEF OutsideGraph, InGraph
  <2>. QED
    BY <1>3, <2>1 DEF PiecesInv
<1>. QED
  BY <1>1, <1>2, <1>3 DEF PiecesInv

\* A step of one thread.
LEMMA OneStill ==
  ASSUME PoolInv, PiecesInv, NEW t \in Thread, OnlyMoves(t),
         UNCHANGED <<abort, ec, current_chunk, chunk, computed>>,
         t = 0 => pc[0] \notin OutsideGraph /\ pc'[0] # "kickoff",
         Computing /\ t \in Parties => Still(t)
  PROVE  PiecesInv'
<1>1. Parties \subseteq Thread /\ 0 \in Thread
  BY PartiesAreThreads DEF PoolInv
<1>2. \A u \in Parties : u # t => Still(u)
  BY <1>1, OthersStill
<1>3. cgraph' = cgraph /\ n_graph' = n_graph /\ (t # 0 => pc'[0] = pc[0])
  BY <1>1 DEF OnlyMoves
<1>4. t = 0 => pc[0] \in InGraph
  BY <1>1 DEF PoolInv, Placed
<1>5. pc'[0] = "kickoff" <=> pc[0] = "kickoff"
  BY <1>3 DEF OutsideGraph
<1>6. pc'[0] = "done" => pc[0] \in InGraph \cup {"done"}
  BY <1>3, <1>4
<1>7. pc[0] \in OutsideGraph => pc'[0] \in OutsideGraph
  BY <1>3
<1>8. Computing => \A u \in Parties : Still(u)
  BY <1>2
<1>. QED
  BY <1>3, <1>5, <1>6, <1>7, <1>8, Quiet

\* The caller acts between graphs: all threads have left.
LEMMA CallerPieces ==
  ASSUME PoolInv, PiecesInv, pc[0] \in OutsideGraph, pc'[0] \in OutsideGraph \ {"done"},
         pc'[0] = "kickoff" <=> pc[0] = "kickoff",
         \A t \in Thread \ {0} : pc'[t] = pc[t] \/ (pc[t] \in Off /\ pc'[t] \in Off),
         UNCHANGED <<cgraph, abort, ec, current_chunk, chunk, computed, n_graph, node_n, after,
                     seen, n_barrier_passed, last_graph>>
  PROVE  PiecesInv'
<1>1. Parties \subseteq Thread /\ Parties' = Parties
  BY PartiesAreThreads DEF PoolInv, Parties, Nth
<1>2. ASSUME NEW u \in Parties  PROVE Still(u)
  <2>1. Left(u) /\ ~Fresh(u)
    BY <1>1, AllHaveLeft
  <2>2. Left(u)' /\ ~Fresh(u)'
    <3>1. CASE u = 0
      BY <3>1 DEF Left, Fresh
    <3>2. CASE u # 0 /\ pc'[u] = pc[u]
      BY <2>1, <3>2 DEF Left, Fresh, Released
    <3>3. CASE u # 0 /\ pc[u] \in Off /\ pc'[u] \in Off
      BY <2>1, <3>3 DEF Left, Fresh, Off
    <3>. QED
      BY <1>1, <3>1, <3>2, <3>3
  <2>3. ~AtTiles(u) /\ ~Tiling(u) /\ Ended(u) = node_n[u] - 1
    BY <2>1 DEF AtTiles, Tiling, Left, Ended, Released, Off, OutsideGraph, AtBarrier
  <2>4. ~AtTiles(u)' /\ ~Tiling(u)' /\ Ended(u)' = node_n'[u] - 1
    BY <2>2 DEF AtTiles, Tiling, Left, Ended, Released, Off, OutsideGraph, AtBarrier
  <2>5. AtEnd(u)
    BY <2>1 DEF AtEnd
  <2>. QED
    BY <2>3, <2>4, <2>5 DEF Still, Holds
<1>. QED
  BY <1>2, Quiet DEF OutsideGraph

LEMMA CallerQuiet ==
  ASSUME PoolInv, PiecesInv, Return \/ PauseOrResume \/ Free \/ Join
  PROVE  PiecesInv'
<1>1. UNCHANGED <<cgraph, abort, ec, current_chunk, chunk, computed, n_graph, node_n, after,
                  seen, n_barrier_passed, last_graph>>
  <2>1. UNCHANGED <<params, barrier, worker, chunk, computed, n_graph, node_n, after>>
    BY DEF Return, PauseOrResume, Free, Join, control
  <2>. QED
    BY <2>1 DEF params, barrier, worker
<1>2. /\ pc[0] \in OutsideGraph /\ pc[0] # "kickoff"
      /\ pc'[0] \in OutsideGraph \ {"done"} /\ pc'[0] # "kickoff"
      /\ \A t \in Thread \ {0} : pc'[t] = pc[t] \/ (pc[t] \in Off /\ pc'[t] \in Off)
  <2>1. pc \in [Thread -> Off \cup OutsideGraph \cup InGraph \cup {"run"}] /\ 0 \in Thread
    BY ThreadZero DEF PoolInv, PoolTyped
  <2>2. CASE Return \/ Join
    BY <2>1, <2>2 DEF Return, Join, Goto, OutsideGraph
  <2>3. CASE PauseOrResume
    BY <2>3, BroadcastsOff DEF PauseOrResume, OutsideGraph
  <2>4. CASE Free
    BY <2>4, BroadcastsOff DEF Free, OutsideGraph
  <2>. QED
    BY <2>2, <2>3, <2>4
<1>. QED
  BY <1>1, <1>2, CallerPieces

LEMMA ResetPieces ==
  ASSUME PoolInv, PiecesInv, NEW g \in Graphs, Reset(g)
  PROVE  PiecesInv'
<1>1. /\ pc'[0] = "kickoff" /\ computed' = {} /\ current_chunk' = 0 /\ chunk' = chunk
      /\ ec' = "success" /\ abort' = None
  BY ThreadZero DEF Reset, Goto, PoolInv, PoolTyped
<1>. QED
  BY <1>1 DEF PiecesInv

\* A worker that stays out of the graph, or goes to its first node.
LEMMA WorkerQuiet ==
  ASSUME PoolInv, PiecesInv, NEW t \in Thread \ {0}, OnlyMoves(t),
         UNCHANGED <<abort, ec, current_chunk, chunk, computed, after, n_graph>>,
         pc[t] \in Off \cup {"run"}, pc'[t] \in Off \cup {"run", "loop"},
         t \in Parties => (Fresh(t)' <=> Fresh(t) /\ pc'[t] # "loop"),
         IF pc'[t] = "loop" THEN Fresh(t) /\ node_n'[t] = 1 ELSE node_n'[t] = node_n[t]
  PROVE  PiecesInv'
<1>1. ASSUME t \in Parties  PROVE Still(t)
  <2>1. /\ ~AtTiles(t) /\ ~AtTiles(t)' /\ ~Tiling(t) /\ ~Tiling(t)'
        /\ ~Holds(t) /\ ~Holds(t)'
        /\ pc[t] \notin AtBarrier /\ pc'[t] \notin AtBarrier
    BY DEF AtTiles, Tiling, Holds, Off, AtBarrier, Released
  <2>2. Ended(t)' = Ended(t)
    BY <1>1, <2>1 DEF Ended
  <2>3. AtEnd(t)' => AtEnd(t) /\ node_n'[t] = node_n[t]
    <3>1. AtEnd(t)' => pc'[t] \in Off /\ ~Fresh(t)'
      BY <2>1 DEF AtEnd, Left, Released, AtBarrier, OutsideGraph, Off
    <3>2. pc'[t] \in Off /\ ~Fresh(t)' => ~Fresh(t) /\ pc[t] # "run" /\ node_n'[t] = node_n[t]
      BY <1>1 DEF Off, Fresh
    <3>3. ~Fresh(t) /\ pc[t] # "run" => AtEnd(t)
      BY DEF AtEnd, Left
    <3>. QED
      BY <3>1, <3>2, <3>3
  <2>. QED
    BY <2>1, <2>2, <2>3 DEF Still
<1>. QED
  BY <1>1, OneStill

LEMMA BetweenPieces ==
  ASSUME PoolInv, PiecesInv, NEW t \in Thread, Between(t) \/ SpuriousWakeup(t)
  PROVE  PiecesInv'
<1>1. t # 0
  BY DEF Between, SpuriousWakeup, PoolInv, Placed, OutsideGraph, InGraph
<1>2. /\ UNCHANGED <<abort, ec, current_chunk, chunk, computed, after, cgraph, n_threads,
                     n_graph, n_barrier_passed, seen>>
  BY DEF Between, Top, Poll, CheckForWork, Run, SpuriousWakeup, params, barrier, control
<1>3. pc \in [Thread -> Off \cup OutsideGraph \cup InGraph \cup {"run"}]
  BY DEF PoolInv, PoolTyped
<1>4. CASE UNCHANGED <<worker, node_n>> /\ (Top(t) \/ Poll(t) \/ CheckForWork(t) \/ SpuriousWakeup(t))
  <2>1. /\ pc[t] \in Off /\ pc' = [pc EXCEPT ![t] = pc'[t]]
        /\ pc'[t] \in Off \cup {"run"}
    BY <1>3, <1>4 DEF Top, Poll, CheckForWork, SpuriousWakeup, Goto, Woken, Off
  <2>2. ~pending[t] /\ pc'[t] \in Off
    <3>1. ~pending[t]
      BY <1>1, <2>1 DEF PoolInv, Placed, Off
    <3>. QED
      BY <1>3, <1>4, <3>1 DEF Top, Poll, CheckForWork, SpuriousWakeup, Goto, Woken, Off, worker
  <2>3. OnlyMoves(t)
    BY <1>2, <1>3, <1>4, <2>1 DEF OnlyMoves, worker
  <2>4. Fresh(t)' <=> Fresh(t)
    BY <1>2, <1>4, <2>1, <2>2 DEF Fresh, worker, Off
  <2>. QED
    BY <1>1, <1>2, <1>4, <2>1, <2>2, <2>3, <2>4, WorkerQuiet DEF Off
<1>5. CASE ~(UNCHANGED worker) /\ (Poll(t) \/ CheckForWork(t))
  <2>1. /\ pc[t] \in {"poll", "locked"} /\ pc' = [pc EXCEPT ![t] = pc'[t]]
        /\ pc'[t] = IF pending'[t] THEN "run" ELSE pc'[t]
        /\ pc'[t] \in Off \cup {"run"}
        /\ UNCHANGED node_n /\ Ready(t) /\ TakeWork(t) /\ ~(pending[t] \/ stop \/ pause)
    BY <1>3, <1>5 DEF Poll, CheckForWork, Goto, Off, TakeWork
  <2>2. /\ pending' = [pending EXCEPT ![t] = t < Nth]
        /\ last_graph' = [last_graph EXCEPT ![t] = n_graph]
    BY <1>5, <2>1 DEF TakeWork
  <2>3. OnlyMoves(t)
    BY <1>2, <1>3, <2>1, <2>2 DEF OnlyMoves, PoolInv, PoolTyped
  <2>4. Fresh(t)
    BY <1>1, <2>1 DEF Ready, Fresh
  <2>5. t \in Parties => Fresh(t)'
    <3>1. t \in Parties => t < Nth
      <4>1. Nth \in Nat
        BY PartiesAreThreads DEF PoolInv
      <4>. QED
        BY <4>1 DEF Parties
    <3>2. pending \in [Thread -> BOOLEAN]
      BY DEF PoolInv, PoolTyped
    <3>3. t \in Parties => pending'[t]
      BY <2>2, <3>1, <3>2
    <3>4. t \in Parties => pc'[t] = "run"
      BY <2>1, <3>3
    <3>. QED
      BY <1>1, <3>4 DEF Fresh
  <2>. QED
    BY <1>1, <1>2, <2>1, <2>3, <2>4, <2>5, WorkerQuiet DEF Off
<1>6. CASE Run(t)
  <2>1. /\ pc[t] = "run" /\ pc' = [pc EXCEPT ![t] = "loop"] /\ pc'[t] = "loop"
        /\ node_n' = [node_n EXCEPT ![t] = 1] /\ node_n'[t] = 1
        /\ pending' = [pending EXCEPT ![t] = FALSE] /\ last_graph' = last_graph
    BY <1>3, <1>6 DEF Run, Goto, PoolInv, PoolTyped
  <2>2. OnlyMoves(t)
    BY <1>2, <1>3, <2>1 DEF OnlyMoves, PoolInv, PoolTyped
  <2>3. Fresh(t)
    BY <1>1, <2>1 DEF Fresh
  <2>4. ~Fresh(t)'
    <3>1. n_graph = last_graph[t]
      BY <1>1, <2>1 DEF PoolInv, Placed, Left, Released, Off, OutsideGraph
    <3>. QED
      BY <1>2, <2>1, <3>1 DEF Fresh
  <2>. QED
    BY <1>1, <1>2, <2>1, <2>2, <2>3, <2>4, WorkerQuiet
<1>7. Top(t) \/ SpuriousWakeup(t) => UNCHANGED <<worker, node_n>>
  BY DEF Top, SpuriousWakeup
<1>8. Poll(t) \/ CheckForWork(t) => UNCHANGED node_n
  BY DEF Poll, CheckForWork
<1>. QED
  BY <1>4, <1>5, <1>6, <1>7, <1>8 DEF Between

\* At the kick-off nothing is computed and nobody has begun.
LEMMA KickoffPieces ==
  ASSUME PoolInv, PiecesInv, PoolInv', Kickoff
  PROVE  PiecesInv'
<1>1. /\ pc[0] = "kickoff" /\ pc'[0] = "loop" /\ node_n'[0] = 1 /\ computed = {}
      /\ n_graph' = [count |-> n_graph.count + 1, n_threads |-> cgraph.n_threads]
      /\ UNCHANGED <<cgraph, abort, ec, current_chunk, chunk, computed, last_graph>>
  BY ThreadZero DEF Kickoff, Broadcast, params, worker, PoolInv, PoolTyped, PiecesInv
<1>2. /\ cgraph \in Cgraph /\ cgraph.n_threads \in Nat \ {0} /\ n_graph.count \in Nat
      /\ DOMAIN cgraph.op = 1..Len(cgraph.op) /\ Len(cgraph.op) \in Nat
  <2>1. cgraph \in Cgraph /\ n_graph \in GraphCount
    BY RunnableGraph DEF PoolInv, PoolTyped
  <2>2. DOMAIN cgraph.op = 1..Len(cgraph.op) /\ Len(cgraph.op) \in Nat
    BY <2>1, PiecesAre
  <2>. QED
    BY <2>1, <2>2 DEF GraphCount, Cgraph
<1>3. /\ n_graph'.count = n_graph.count + 1 /\ n_graph'.count > 0
      /\ Nth' = cgraph.n_threads /\ Parties' = 0..cgraph.n_threads - 1 /\ 0 \in Parties'
  BY <1>1, <1>2 DEF Nth, Parties
<1>4. Parties' \subseteq Thread
  <2>1. cgraph.n_threads <= MaxThreads
    BY RunnableGraph DEF PoolInv, PoolTyped
  <2>. QED
    BY <1>2, <1>3, <2>1, ThreadsAssumption DEF Thread
<1>5. ASSUME NEW u \in Parties'
      PROVE  Ended(u)' = 0 /\ ~AtTiles(u)' /\ ~Tiling(u)' /\ ~AtEnd(u)'
  <2>1. CASE u = 0
    BY <1>1, <2>1 DEF Ended, AtTiles, Tiling, AtEnd, Left, Released, Fresh, AtBarrier, Off,
       OutsideGraph
  <2>2. CASE u # 0
    <3>1. last_graph[u].count <= n_graph.count /\ last_graph[u].count \in Nat
      BY <1>4, <2>2 DEF PoolInv, PoolTyped, Placed, GraphCount
    <3>2. n_graph' # last_graph'[u]
      BY <1>1, <1>2, <1>3, <3>1
    <3>3. Fresh(u)'
      BY <2>2, <3>2 DEF Fresh
    <3>4. Left(u)'
      BY <1>4, <2>2, <3>2 DEF PoolInv, Placed
    <3>. QED
      BY <3>3, <3>4 DEF Ended, AtTiles, Tiling, AtEnd, Left, Released, AtBarrier, Off, OutsideGraph
  <2>. QED
    BY <2>1, <2>2
<1>6. \A u \in Parties' : Begun(u)' = 0
  BY <1>5 DEF Begun
<1>7. \A u \in Parties' : OwnPart(u)'
  BY <1>1, <1>2, <1>5, <1>6 DEF OwnPart
<1>8. TilesInTime' /\ TilesComplete'
  BY <1>1, <1>2, <1>3, <1>5 DEF TilesInTime, TilesComplete
<1>9. Computing'
  BY <1>1, <1>3, <1>5, <1>7, <1>8 DEF Computing
<1>. QED
  BY <1>1, <1>9 DEF PiecesInv

\* A thread that goes through a barrier, and not to the tiles of a product.
LEMMA ThroughStill ==
  ASSUME PoolInv, NEW t \in Thread, Through(t), pc[t] \in AtBarrier,
         after[t] # "tiles" \/ Released(t),
         UNCHANGED <<n_graph, last_graph, after, chunk>>
  PROVE  Still(t)
<1>1. \/ after[t] = "tiles" /\ pc'[t] = "tiles" /\ node_n'[t] = node_n[t]
      \/ after[t] = "next" /\ pc'[t] = "loop" /\ node_n'[t] = node_n[t] + 1
      \/ after[t] = "final" /\ t = 0 /\ pc'[t] = "done" /\ node_n'[t] = node_n[t]
      \/ after[t] = "final" /\ t # 0 /\ pc'[t] = "top" /\ node_n'[t] = node_n[t]
  BY ThroughTyped
<1>2. node_n[t] \in Nat
  BY DEF PoolInv, PoolTyped
<1>3. Fresh(t)' <=> Fresh(t)
  BY <1>1 DEF Fresh, AtBarrier
<1>4. CASE after[t] = "tiles"
  BY <1>1, <1>3, <1>4 DEF Still, Ended, AtTiles, Tiling, Holds, AtEnd, Left, Released, AtBarrier,
     Off, OutsideGraph
<1>5. CASE after[t] = "next"
  BY <1>1, <1>2, <1>3, <1>5 DEF Still, Ended, AtTiles, Tiling, Holds, AtEnd, Left, Released,
     AtBarrier, Off, OutsideGraph
<1>6. CASE after[t] = "final"
  BY <1>1, <1>3, <1>6 DEF Still, Ended, AtTiles, Tiling, Holds, AtEnd, Left, Released, AtBarrier,
     Off, OutsideGraph
<1>. QED
  BY <1>1, <1>4, <1>5, <1>6

\* A thread that goes through the barrier to its tiles.
LEMMA ThroughOpens ==
  ASSUME PoolInv, PiecesInv, Computing, NEW t \in Parties, Through(t),
         pc[t] \in {"barrier", "open"}, after[t] = "tiles", UNCHANGED <<n_graph, last_graph>>
  PROVE  /\ AtTiles(t) /\ ~Tiling(t) /\ Ended(t) = node_n[t] - 1
         /\ AtTiles(t)' /\ Tiling(t)' /\ Holds(t)' /\ ~AtEnd(t)'
         /\ node_n'[t] = node_n[t] /\ Ended(t)' = node_n[t] - 1
<1>1. t \in Thread /\ AtTiles(t) /\ ~Fresh(t) /\ ~Tiling(t)
  BY ComputingTyped DEF AtTiles, Tiling, Released, AtBarrier
<1>2. pc'[t] = "tiles" /\ node_n'[t] = node_n[t]
  BY <1>1, ThroughTyped
<1>3. ~Fresh(t)'
  BY <1>1, <1>2 DEF Fresh
<1>. QED
  BY <1>1, <1>2, <1>3 DEF AtTiles, Tiling, Holds, AtEnd, Ended, Left, Released, AtBarrier, Off,
     OutsideGraph

LEMMA BarrierAlonePieces ==
  ASSUME PoolInv, PiecesInv, NEW t \in Thread, BarrierAlone(t)
  PROVE  PiecesInv'
<1>1. /\ pc[t] = "barrier" /\ Nth = 1 /\ Through(t)
      /\ UNCHANGED <<n_threads, cgraph, abort, ec, current_chunk, n_graph, n_barrier_passed, seen,
                     chunk, after, computed, pending, last_graph>>
  BY DEF BarrierAlone, params, barrier, control, worker
<1>2. t \in Parties /\ ~Left(t)
  BY <1>1, AtTheBarrier
<1>3. Computing /\ pc[0] \in InGraph /\ Parties = {0} /\ t = 0
  BY <1>1, <1>2, Working DEF Parties
<1>4. OnlyMoves(t) /\ pc'[0] \in {"tiles", "loop", "done"}
  BY <1>1, <1>3, ThroughTyped DEF OnlyMoves
<1>5. CASE after[t] # "tiles"
  <2>1. Still(t)
    BY <1>1, <1>5, ThroughStill DEF AtBarrier
  <2>. QED
    BY <1>1, <1>3, <1>4, <2>1, OneStill DEF OutsideGraph, InGraph
<1>6. CASE after[t] = "tiles"
  <2>1. node_n[t] \in Nat \ {0}
    BY DEF PoolInv, PoolTyped
  <2>2. /\ AtTiles(t) /\ ~Tiling(t) /\ Ended(t) = node_n[t] - 1
        /\ AtTiles(t)' /\ Tiling(t)' /\ Holds(t)' /\ ~AtEnd(t)'
        /\ node_n'[t] = node_n[t] /\ Ended(t)' = node_n[t] - 1
    BY <1>1, <1>2, <1>3, <1>6, ThroughOpens
  <2>3. Computing'
    BY <1>1, <1>3, <2>1, <2>2, OpensTiles
  <2>. QED
    BY <1>1, <1>4, <2>3 DEF PiecesInv
<1>. QED
  BY <1>5, <1>6

LEMMA BarrierQuiet ==
  ASSUME PoolInv, PiecesInv, NEW t \in Thread, BarrierLoad(t) \/ BarrierEnter(t) \/ BarrierSpin(t)
  PROVE  PiecesInv'
<1>1. /\ UNCHANGED <<n_threads, cgraph, abort, ec, current_chunk, n_graph, n_barrier_passed,
                     chunk, after, computed, pending, last_graph>>
      /\ pc \in [Thread -> Off \cup OutsideGraph \cup InGraph \cup {"run"}]
  BY DEF BarrierLoad, BarrierEnter, BarrierSpin, params, barrier, control, worker, PoolInv, PoolTyped
<1>2. CASE BarrierSpin(t)
  <2>1. pc[t] = "spin" /\ Released(t) /\ Through(t) /\ seen' = seen
    BY <1>2 DEF BarrierSpin, Released, barrier
  <2>2. Still(t)
    BY <1>1, <2>1, ThroughStill DEF AtBarrier
  <2>3. OnlyMoves(t) /\ pc'[t] \in {"tiles", "loop", "done", "top"}
    BY <1>1, <2>1, ThroughTyped DEF OnlyMoves
  <2>. QED
    BY <1>1, <2>1, <2>2, <2>3, OneStill DEF OutsideGraph
<1>3. CASE BarrierLoad(t) \/ BarrierEnter(t)
  <2>1. /\ pc[t] \in {"barrier", "enter"} /\ pc' = [pc EXCEPT ![t] = pc'[t]]
        /\ pc'[t] \in {"enter", "open", "spin"} /\ node_n' = node_n
        /\ pc[t] = "barrier" => pc'[t] = "enter" /\ seen' = [seen EXCEPT ![t] = n_barrier_passed]
        /\ pc[t] = "enter" => seen' = seen
    BY <1>1, <1>3 DEF BarrierLoad, BarrierEnter, Goto
  <2>2. OnlyMoves(t)
    <3>1. \A u \in Thread \ {t} : pc'[u] = pc[u]
      BY <1>1, <2>1
    <3>2. \A u \in Thread \ {t} : seen'[u] = seen[u]
      BY <2>1 DEF PoolInv, PoolTyped
    <3>. QED
      BY <1>1, <2>1, <3>1, <3>2 DEF OnlyMoves
  <2>3. ~Released(t)'
    <3>1. CASE pc[t] = "barrier"
      BY <2>1, <3>1 DEF Released
    <3>2. CASE pc[t] = "enter"
      BY <1>1, <2>1, <3>2 DEF PoolInv, Counting, Released
    <3>. QED
      BY <2>1, <3>1, <3>2
  <2>4. ~Released(t) /\ pc[t] \in AtBarrier /\ pc'[t] \in AtBarrier
    BY <2>1 DEF Released, AtBarrier
  <2>5. Fresh(t)' <=> Fresh(t)
    BY <1>1, <2>1 DEF Fresh
  <2>6. Still(t)
    <3>1. ~Left(t) /\ ~Left(t)'
      BY <2>3, <2>4 DEF Left, AtBarrier, Off, OutsideGraph
    <3>2. ~Tiling(t) /\ ~Tiling(t)' /\ (AtTiles(t)' <=> AtTiles(t))
      BY <1>1, <2>3, <2>4 DEF Tiling, AtTiles, AtBarrier
    <3>3. Ended(t)' = Ended(t) /\ (AtEnd(t)' => AtEnd(t))
      BY <1>1, <2>1, <2>4, <2>5, <3>1 DEF Ended, AtEnd
    <3>. QED
      BY <1>1, <2>1, <3>2, <3>3 DEF Still, Holds
  <2>. QED
    BY <1>1, <2>1, <2>2, <2>6, OneStill DEF OutsideGraph
<1>. QED
  BY <1>2, <1>3

LEMMA BarrierOpenPieces ==
  ASSUME PoolInv, PiecesInv, NEW o \in Thread, BarrierOpen(o)
  PROVE  PiecesInv'
<1>1. /\ pc[o] = "open" /\ n_barrier_passed' = n_barrier_passed + 1 /\ Through(o)
      /\ UNCHANGED <<n_threads, cgraph, abort, ec, current_chunk, n_graph, n_barrier, seen, chunk,
                     after, computed, pending, last_graph>>
  BY DEF BarrierOpen, params, control, worker
<1>2. \A u \in Parties \ {o} : Waiting(u)
  BY <1>1 DEF PoolInv, Counting
<1>3. Position(o) = <<node_n[o], after[o]>> /\ o \in Parties /\ ~Left(o)
  BY <1>1, AtTheBarrier
<1>4. Computing /\ pc[0] \in InGraph /\ Parties \subseteq Thread /\ n_barrier_passed \in Nat
  BY <1>3, Working, ComputingTyped DEF PoolInv, PoolTyped
<1>5. ASSUME NEW u \in Parties \ {o}
      PROVE  /\ pc[u] = "spin" /\ ~Released(u) /\ pc'[u] = "spin" /\ Released(u)'
             /\ node_n'[u] = node_n[u] /\ node_n[u] = node_n[o] /\ after[u] = after[o]
             /\ ~Fresh(u) /\ ~Fresh(u)'
  <2>1. u \in Thread /\ Waiting(u)
    BY <1>2, <1>4
  <2>2. Position(u) = <<node_n[u], after[u]>> /\ ~Fresh(u)
    BY <2>1, AtTheBarrier
  <2>3. Position(u) = Position(o)
    BY <1>3 DEF PoolInv, Together
  <2>4. pc'[u] = pc[u] /\ node_n'[u] = node_n[u]
    BY <1>1, <2>1, ThroughTyped
  <2>. QED
    BY <1>1, <1>3, <1>4, <2>1, <2>2, <2>3, <2>4 DEF Waiting, Released, Fresh
<1>8. pc'[0] # "kickoff"
  <2>1. pc'[o] \in {"tiles", "loop", "done", "top"}
    BY <1>1, ThroughTyped
  <2>. QED
    BY <1>4, <1>5, <2>1 DEF Computing
<1>6. CASE after[o] # "tiles"
  <2>1. Still(o)
    BY <1>1, <1>6, ThroughStill DEF AtBarrier
  <2>2. \A u \in Parties \ {o} : Still(u)
    BY <1>1, <1>5, <1>6 DEF Still, Ended, AtTiles, Tiling, Holds, AtEnd, Left, AtBarrier, Off,
       OutsideGraph
  <2>3. Computing'
    BY <1>1, <1>4, <2>1, <2>2, NoProgress
  <2>. QED
    BY <1>1, <1>8, <2>3 DEF PiecesInv
<1>7. CASE after[o] = "tiles"
  <2>1. /\ AtTiles(o) /\ ~Tiling(o) /\ Ended(o) = node_n[o] - 1
        /\ AtTiles(o)' /\ Tiling(o)' /\ Holds(o)' /\ ~AtEnd(o)'
        /\ node_n'[o] = node_n[o] /\ Ended(o)' = node_n[o] - 1
    BY <1>1, <1>3, <1>4, <1>7, ThroughOpens
  <2>2. \A u \in Parties \ {o} :
          /\ AtTiles(u) /\ ~Tiling(u) /\ node_n[u] = node_n[o] /\ Ended(u) = node_n[o] - 1
          /\ AtTiles(u)' /\ Tiling(u)' /\ Holds(u)' /\ ~AtEnd(u)'
          /\ node_n'[u] = node_n[o] /\ Ended(u)' = node_n[o] - 1
    BY <1>1, <1>5, <1>7 DEF Ended, AtTiles, Tiling, Holds, AtEnd, Left, AtBarrier, Off,
       OutsideGraph
  <2>3. node_n[o] \in Nat \ {0}
    BY DEF PoolInv, PoolTyped
  <2>4. Computing'
    BY <1>1, <1>4, <2>1, <2>2, <2>3, OpensTiles
  <2>. QED
    BY <1>1, <1>8, <2>4 DEF PiecesInv
<1>. QED
  BY <1>6, <1>7

-----------------------------------------------------------------------------
(* The steps that compute                                                  *)

LEMMA AtLoop ==
  ASSUME PoolInv, PiecesInv, NEW t \in Thread, pc[t] = "loop"
  PROVE  /\ Computing /\ t \in Parties /\ pc[0] \in InGraph
         /\ ~Fresh(t) /\ ~AtTiles(t) /\ ~Tiling(t) /\ ~Holds(t) /\ ~AtEnd(t)
         /\ Ended(t) = node_n[t] - 1 /\ Begun(t) = node_n[t] - 1 /\ Opened(t) = node_n[t] - 1
<1>1. ~Left(t) /\ ~Fresh(t)
  BY Inside DEF InGraph, Released
<1>2. Computing /\ t \in Parties /\ pc[0] \in InGraph
  BY <1>1, Working
<1>3. ~AtTiles(t) /\ ~Tiling(t) /\ ~Holds(t) /\ ~AtEnd(t) /\ Ended(t) = node_n[t] - 1
  BY <1>1 DEF AtTiles, Tiling, Holds, AtEnd, Ended, AtBarrier, Released
<1>. QED
  BY <1>1, <1>2, <1>3 DEF Begun, Opened

\* A thread that is done with a node, whatever the abort callback says.
LEMMA ForwardedTo ==
  ASSUME PoolInv, NEW t \in Thread, ~Fresh(t), Forwarded(t),
         UNCHANGED <<n_threads, cgraph, n_graph, n_barrier_passed, seen, pending, last_graph>>
  PROVE  /\ OnlyMoves(t) /\ pc'[t] \in {"barrier", "loop"}
         /\ ~AtTiles(t)' /\ ~Tiling(t)' /\ ~Holds(t)' /\ ~AtEnd(t)'
         /\ Ended(t)' = node_n[t] /\ Begun(t)' = node_n[t] /\ Opened(t)' = node_n[t]
         /\ \/ UNCHANGED <<abort, ec>>
            \/ t = 0 /\ cgraph.abortable /\ abort' = node_n[t] + 1 /\ ec' = "aborted"
<1>1. node_n[t] \in Nat /\ PoolTyped
  BY DEF PoolInv, PoolTyped
<1>2. \/ pc'[t] = "barrier" /\ after'[t] = "next" /\ node_n'[t] = node_n[t]
      \/ pc'[t] = "loop" /\ node_n'[t] = node_n[t] + 1
  BY <1>1 DEF Forwarded, PoolTyped
<1>3. OnlyMoves(t)
  BY <1>1 DEF Forwarded, OnlyMoves, PoolTyped
<1>4. ~Fresh(t)'
  BY <1>2 DEF Fresh
<1>5. /\ ~AtTiles(t)' /\ ~Tiling(t)' /\ ~Holds(t)' /\ ~AtEnd(t)'
      /\ Ended(t)' = node_n[t]
  BY <1>1, <1>2, <1>4 DEF AtTiles, Tiling, Holds, AtEnd, Left, Ended, AtBarrier, Released, Off,
     OutsideGraph
<1>. QED
  BY <1>1, <1>2, <1>3, <1>5 DEF Begun, Opened, Forwarded

\* What a step of a thread in the graph leaves of the invariant to be shown.
LEMMA PiecesAfter ==
  ASSUME PoolInv, PiecesInv, Computing', cgraph' = cgraph, pc'[0] # "kickoff",
         current_chunk' \in Nat, chunk' \in [Thread -> Nat],
         computed \subseteq computed', computed' \subseteq GR!AllPieces(cgraph),
         \/ UNCHANGED <<abort, ec>>
         \/ cgraph.abortable /\ abort' \in Nat /\ ec' = "aborted" /\ computed' # {}
  PROVE  PiecesInv'
BY DEF PiecesInv, None

\* One piece is computed: none of those ahead of it is missing.
LEMMA Computes ==
  ASSUME PoolInv, PiecesInv, Computing, pc[0] \in InGraph, pc'[0] \in InGraph, cgraph' = cgraph,
         NEW t \in Parties, NEW n \in Nat \ {0},
         Position(t) \in {<<n, "next">>, <<n, "tiles">>, <<n + 1, "final">>},
         NEW q \in GR!AllPieces(cgraph), q.node = n, q \notin computed,
         computed' = computed \cup {q},
         \A r \in GR!AllPieces(cgraph) : r.node = n /\ r.stage < q.stage => r \in computed
  PROVE  (\E p \in GR!AllPieces(cgraph) : GR!Compute(p)) /\ computed' # computed
<1>1. {r \in GR!AllPieces(cgraph) : GR!Ahead(r, q)} \subseteq computed
  BY AheadIsComputed DEF GR!Ahead
<1>2. Status = "running" /\ Status' = "running"
  BY DEF Status, InGraph
<1>. QED
  BY <1>1, <1>2 DEF GR!Compute

\* The pieces of a node.
LEMMA StageOf ==
  ASSUME PoolInv, PiecesInv, Computing, NEW q \in GR!AllPieces(cgraph)
  PROVE  /\ q.node \in DOMAIN cgraph.op
         /\ \/ /\ q.stage = 1
               /\ \E u \in Parties : ~Skipped(cgraph, q.node) /\ q = GR!Piece(q.node, 1, u)
            \/ /\ q.stage = 2
               /\ \E c \in TileNumbers : MulMat(q.node) /\ q = GR!Piece(q.node, 2, c)
<1>1. cgraph \in Cgraph /\ Parties = 0..cgraph.n_threads - 1
  BY ComputingTyped
<1>2. PICK i \in DOMAIN cgraph.op : q \in GR!Pieces(cgraph, i)
  BY <1>1, PiecesAre
<1>3. \/ \E u \in Parties : ~Skipped(cgraph, i) /\ q = GR!Piece(i, 1, u)
      \/ \E c \in TileNumbers : cgraph.op[i] = "mul_mat" /\ q = GR!Piece(i, 2, c)
  BY <1>1, <1>2, PiecesAre DEF TileNumbers
<1>4. \A s, u : GR!Piece(i, s, u).node = i /\ GR!Piece(i, s, u).stage = s
  BY DEF GR!Piece
<1>. QED
  BY <1>2, <1>3, <1>4 DEF MulMat

\* A thread computes its share of a node.
LEMMA ShareComputes ==
  ASSUME PoolInv, PiecesInv, NEW t \in Thread, Share(t) \/ Quantise(t)
  PROVE  /\ \A i \in DOMAIN cgraph.op, u \in Parties :
              GR!Piece(i, 1, u) \in computed' <=> GR!Piece(i, 1, u) \in computed
                                                    \/ (i = node_n[t] /\ u = t)
         /\ \A i \in DOMAIN cgraph.op, c \in TileNumbers :
              GR!Piece(i, 2, c) \in computed' <=> GR!Piece(i, 2, c) \in computed
         /\ computed' \subseteq GR!AllPieces(cgraph) /\ computed' # {} /\ computed \subseteq computed'
         /\ computed' # computed
         /\ pc'[0] \in InGraph => \E p \in GR!AllPieces(cgraph) : GR!Compute(p)
<1> DEFINE n == node_n[t]
           q == GR!Piece(n, 1, t)
<1>1. /\ pc[t] = "loop" /\ InLoop(t) /\ ~Skipped(cgraph, n)
      /\ computed' = computed \cup {q} /\ cgraph' = cgraph
  BY DEF Share, Quantise, AtOp, Skipped
<1>2. Computing /\ t \in Parties /\ pc[0] \in InGraph /\ Begun(t) = n - 1
  BY <1>1, AtLoop
<1>3. /\ cgraph \in Cgraph /\ DOMAIN cgraph.op = 1..Len(cgraph.op) /\ Len(cgraph.op) \in Nat
      /\ n \in Nat \ {0} /\ Parties = 0..cgraph.n_threads - 1
  BY <1>2, ComputingTyped
<1>4. n \in DOMAIN cgraph.op
  BY <1>1, <1>3 DEF InLoop
<1>5. q \in GR!AllPieces(cgraph) /\ q \notin computed
  <2>1. q \in GR!Pieces(cgraph, n)
    BY <1>1, <1>2, <1>3, <1>4, PiecesAre
  <2>2. q \in GR!AllPieces(cgraph)
    BY <1>3, <1>4, <2>1, PiecesAre
  <2>3. ~(n <= Begun(t))
    BY <1>2, <1>3
  <2>. QED
    BY <1>1, <1>2, <1>4, <2>2, <2>3 DEF Computing, OwnPart
<1>6. q.node = n /\ q.stage = 1
  BY DEF GR!Piece
<1>7. Position(t) \in {<<n, "next">>, <<n, "tiles">>, <<n + 1, "final">>}
  <2>1. Position(t) = IF cgraph.op[n] = "mul_mat" THEN <<n, "tiles">> ELSE AfterWork(cgraph, n)
    BY <1>1, AtNodeOf
  <2>. QED
    BY <2>1 DEF AfterWork
<1>8. \A r \in GR!AllPieces(cgraph) : ~(r.stage < q.stage)
  BY <1>2, <1>6, StageOf
<1>9. \A i \in DOMAIN cgraph.op, u \in Parties :
              GR!Piece(i, 1, u) \in computed' <=> GR!Piece(i, 1, u) \in computed
                                                    \/ (i = n /\ u = t)
  BY <1>1, PieceEquals
<1>10. \A i \in DOMAIN cgraph.op, c \in TileNumbers :
              GR!Piece(i, 2, c) \in computed' <=> GR!Piece(i, 2, c) \in computed
  BY <1>1, PieceEquals
<1>11. pc'[0] \in InGraph => \E p \in GR!AllPieces(cgraph) : GR!Compute(p)
  <2> HIDE DEF n, q
  <2>. QED
    BY <1>1, <1>2, <1>3, <1>5, <1>6, <1>7, <1>8, Computes
<1>. QED
  BY <1>1, <1>5, <1>9, <1>10, <1>11 DEF PiecesInv

LEMMA SharePieces ==
  ASSUME PoolInv, PiecesInv, NEW t \in Thread, Share(t)
  PROVE  PiecesInv' /\ pc'[0] \in InGraph
<1> DEFINE n == node_n[t]
<1>1. /\ pc[t] = "loop" /\ InLoop(t) /\ Forwarded(t) /\ ~MulMat(n)
      /\ UNCHANGED <<n_threads, cgraph, current_chunk, n_graph, n_barrier_passed, seen, pending,
                     last_graph, chunk>>
  BY DEF Share, AtOp, MulMat, barrier, control, worker
<1>2. /\ Computing /\ t \in Parties /\ pc[0] \in InGraph /\ ~Fresh(t)
      /\ ~Tiling(t) /\ ~Holds(t)
      /\ Ended(t) = n - 1 /\ Begun(t) = n - 1 /\ Opened(t) = n - 1
  BY <1>1, AtLoop
<1>3. /\ OnlyMoves(t) /\ pc'[t] \in {"barrier", "loop"}
      /\ ~AtTiles(t)' /\ ~Tiling(t)' /\ ~Holds(t)' /\ ~AtEnd(t)'
      /\ Ended(t)' = n /\ Begun(t)' = n /\ Opened(t)' = n
      /\ \/ UNCHANGED <<abort, ec>>
         \/ t = 0 /\ cgraph.abortable /\ abort' = n + 1 /\ ec' = "aborted"
  BY <1>1, <1>2, ForwardedTo
<1>4. /\ \A i \in DOMAIN cgraph.op, u \in Parties :
           GR!Piece(i, 1, u) \in computed' <=> GR!Piece(i, 1, u) \in computed \/ (i = n /\ u = t)
      /\ \A i \in DOMAIN cgraph.op, c \in TileNumbers :
           GR!Piece(i, 2, c) \in computed' <=> GR!Piece(i, 2, c) \in computed
      /\ computed' \subseteq GR!AllPieces(cgraph) /\ computed' # {} /\ computed \subseteq computed'
  BY ShareComputes
<1>5. /\ DOMAIN cgraph.op = 1..Len(cgraph.op) /\ Len(cgraph.op) \in Nat /\ n \in Nat \ {0}
      /\ Parties \subseteq Thread
      /\ \A u \in Parties : Opened(u) \in Nat /\ (Tiling(u) => AtTiles(u))
  BY <1>2, ComputingTyped
<1> HIDE DEF n
<1>6. abort' = abort \/ abort = None
  BY <1>1, <1>3, NotAborted
<1>7. \A u \in Parties \ {t} : Still(u)
  BY <1>1, <1>3, <1>5, OthersStill
<1>8. \A u \in Parties \ {t} : OwnPart(u)' /\ Opened(u)' = Opened(u) /\ Ended(u)' = Ended(u)
  BY <1>1, <1>2, <1>4, <1>6, <1>7, StillOwnPart, StillNumbers DEF Still
<1>9. OwnPart(t)'
  <2>1. \A i \in DOMAIN cgraph.op :
          ~Skipped(cgraph, i) => (GR!Piece(i, 1, t) \in computed <=> i <= n - 1)
    BY <1>2 DEF Computing, OwnPart
  <2>2. \A i \in DOMAIN cgraph.op :
          ~Skipped(cgraph, i) => (GR!Piece(i, 1, t) \in computed' <=> i <= n)
    BY <1>2, <1>4, <1>5, <2>1
  <2>. QED
    BY <1>1, <1>3, <2>2 DEF OwnPart
<1>10. \A u \in Parties : OwnPart(u)' /\ Opened(u)' \in Nat /\ Opened(u) <= Opened(u)'
  BY <1>2, <1>3, <1>5, <1>8, <1>9
<1>11. \A u \in Parties, i \in DOMAIN cgraph.op : MulMat(i) /\ i <= Ended(u)' => i <= Ended(u)
  BY <1>1, <1>2, <1>3, <1>5, <1>8 DEF n
<1>12. \A u \in Parties : Tiling(u)' =>
           /\ Tiling(u) /\ node_n'[u] = node_n[u] /\ current_chunk' = current_chunk
           /\ \A v \in Parties : /\ chunk'[v] = chunk[v]
                                 /\ Tiling(v)' <=> Tiling(v)
                                 /\ Holds(v)' <=> Holds(v)
  BY <1>1, <1>2, <1>3, <1>5, <1>7 DEF Still
<1>13. Computing'
  BY <1>1, <1>2, <1>4, <1>10, <1>11, <1>12, Progress
<1>14. pc'[0] \in InGraph
  BY <1>2, <1>3, ThreadZero DEF OnlyMoves, InGraph
<1>15. pc'[0] # "kickoff" /\ (abort' = n + 1 => abort' \in Nat)
  BY <1>5, <1>14 DEF InGraph
<1>. QED
  BY <1>1, <1>3, <1>4, <1>13, <1>14, <1>15, PiecesAfter DEF PiecesInv

LEMMA QuantisePieces ==
  ASSUME PoolInv, PiecesInv, NEW t \in Thread, Quantise(t)
  PROVE  PiecesInv' /\ pc'[0] \in InGraph
<1> DEFINE n == node_n[t]
<1>1. /\ pc[t] = "loop" /\ InLoop(t) /\ ~Skipped(cgraph, n) /\ cgraph.op[n] = "mul_mat"
      /\ pc' = [pc EXCEPT ![t] = "barrier"] /\ after' = [after EXCEPT ![t] = "tiles"]
      /\ chunk' = [chunk EXCEPT ![t] = t]
      /\ current_chunk' = IF t = 0 THEN Nth ELSE current_chunk
      /\ UNCHANGED <<n_threads, cgraph, abort, ec, n_graph, n_barrier_passed, seen, pending,
                     last_graph, node_n>>
  BY DEF Quantise, AtOp, Skipped, barrier, control, worker
<1>2. /\ Computing /\ t \in Parties /\ pc[0] \in InGraph /\ ~Fresh(t)
      /\ ~Tiling(t) /\ ~Holds(t)
      /\ Ended(t) = n - 1 /\ Begun(t) = n - 1 /\ Opened(t) = n - 1
  BY <1>1, AtLoop
<1>3. /\ pc'[t] = "barrier" /\ after'[t] = "tiles" /\ chunk'[t] = t
      /\ \A u \in Thread \ {t} : pc'[u] = pc[u] /\ after'[u] = after[u] /\ chunk'[u] = chunk[u]
      /\ chunk' \in [Thread -> Nat] /\ current_chunk' \in Nat
  <2>1. t \in Nat /\ Nth \in Nat
    BY <1>2, ComputingTyped
  <2>2. /\ pc \in [Thread -> Off \cup OutsideGraph \cup InGraph \cup {"run"}]
        /\ after \in [Thread -> {"tiles", "next", "final"}]
        /\ chunk \in [Thread -> Nat] /\ current_chunk \in Nat
    BY DEF PoolInv, PoolTyped, PiecesInv
  <2>. QED
    BY <1>1, <2>1, <2>2
<1>4. OnlyMoves(t) /\ ~Fresh(t)'
  BY <1>1, <1>2, <1>3 DEF OnlyMoves, Fresh
<1>5. /\ AtTiles(t)' /\ ~Tiling(t)' /\ ~Holds(t)' /\ ~AtEnd(t)'
      /\ Ended(t)' = n - 1 /\ Begun(t)' = n /\ Opened(t)' = n - 1
  <2>1. /\ AtTiles(t)' /\ ~Tiling(t)' /\ ~Holds(t)' /\ ~AtEnd(t)' /\ Ended(t)' = n - 1
    BY <1>1, <1>3, <1>4 DEF AtTiles, Tiling, Holds, AtEnd, Left, Ended, AtBarrier, Released, Off,
       OutsideGraph
  <2>. QED
    BY <1>1, <2>1 DEF Begun, Opened
<1>6. /\ \A i \in DOMAIN cgraph.op, u \in Parties :
           GR!Piece(i, 1, u) \in computed' <=> GR!Piece(i, 1, u) \in computed \/ (i = n /\ u = t)
      /\ \A i \in DOMAIN cgraph.op, c \in TileNumbers :
           GR!Piece(i, 2, c) \in computed' <=> GR!Piece(i, 2, c) \in computed
      /\ computed' \subseteq GR!AllPieces(cgraph) /\ computed' # {} /\ computed \subseteq computed'
  BY ShareComputes
<1>7. /\ DOMAIN cgraph.op = 1..Len(cgraph.op) /\ Len(cgraph.op) \in Nat /\ n \in Nat \ {0}
      /\ Parties \subseteq Thread
      /\ \A u \in Parties : Opened(u) \in Nat /\ (Tiling(u) => AtTiles(u))
  BY <1>2, ComputingTyped
\* Nobody is at the tiles of another node: all come to this barrier.
<1>8. \A u \in Parties : ~Tiling(u)
  <2> TAKE u \in Parties
  <2>1. Position(t) = <<n, "tiles">>
    BY <1>1, AtNodeOf
  <2>2. Position(u) = <<n, "tiles">>
    BY <1>2, <2>1 DEF PoolInv, Together
  <2>3. Position(u) # AfterWork(cgraph, node_n[u])
    BY <2>2 DEF AfterWork
  <2>4. Tiling(u) => Position(u) = AfterWork(cgraph, node_n[u])
    BY <1>2, <1>7, PositionIs
  <2>. QED
    BY <2>3, <2>4
<1>9. \A u \in Parties \ {t} : Still(u)
  BY <1>3, <1>4, <1>7, OthersStill
<1>10. \A u \in Parties \ {t} : /\ OwnPart(u)' /\ Opened(u)' = Opened(u) /\ Ended(u)' = Ended(u)
                                /\ ~Tiling(u)'
  <2>1. \A u \in Parties \ {t} : OwnPart(u)'
    BY <1>1, <1>2, <1>6, <1>9, StillOwnPart
  <2>. QED
    BY <1>2, <1>8, <1>9, <2>1, StillNumbers DEF Still
<1> HIDE DEF n
<1>11. OwnPart(t)'
  <2>1. MulMat(node_n[t])'
    <3>1. n <= Len(cgraph.op) /\ node_n' = node_n
      BY <1>1 DEF InLoop, n
    <3>. QED
      BY <1>1, <1>7, <3>1 DEF MulMat, n
  <2>2. t = 0 => current_chunk' = Nth'
    BY <1>1 DEF Nth
  <2>3. \A i \in DOMAIN cgraph.op :
          ~Skipped(cgraph, i) => (GR!Piece(i, 1, t) \in computed <=> i <= n - 1)
    BY <1>2 DEF Computing, OwnPart
  <2>4. \A i \in DOMAIN cgraph.op :
          ~Skipped(cgraph, i) => (GR!Piece(i, 1, t) \in computed' <=> i <= n)
    BY <1>2, <1>6, <1>7, <2>3
  <2>. QED
    BY <1>1, <1>3, <1>5, <2>1, <2>2, <2>4 DEF OwnPart
<1>12. \A u \in Parties : OwnPart(u)' /\ Opened(u)' \in Nat /\ Opened(u) <= Opened(u)'
  BY <1>2, <1>5, <1>7, <1>10, <1>11
<1>13. \A u \in Parties, i \in DOMAIN cgraph.op : MulMat(i) /\ i <= Ended(u)' => i <= Ended(u)
  BY <1>2, <1>5, <1>10
<1>14. \A u \in Parties : ~Tiling(u)'
  BY <1>5, <1>10
<1>15. Computing'
  BY <1>1, <1>2, <1>6, <1>12, <1>13, <1>14, Progress
<1>16. pc'[0] \in InGraph /\ pc'[0] # "kickoff"
  BY <1>2, <1>3, ThreadZero DEF InGraph
<1>. QED
  BY <1>1, <1>3, <1>6, <1>15, <1>16, PiecesAfter

LEMMA SkipPieces ==
  ASSUME PoolInv, PiecesInv, NEW t \in Thread, Skip(t)
  PROVE  PiecesInv' /\ pc'[0] \in InGraph
<1> DEFINE n == node_n[t]
<1>1. /\ pc[t] = "loop" /\ Skipped(cgraph, n) /\ InLoop(t)
      /\ pc' = [pc EXCEPT ![t] = "loop"] /\ node_n' = [node_n EXCEPT ![t] = n + 1]
      /\ UNCHANGED <<n_threads, cgraph, abort, ec, current_chunk, n_graph, n_barrier_passed, seen,
                     pending, last_graph, chunk, after, computed>>
  BY DEF Skip, Goto, params, barrier, control, worker
<1>2. /\ Computing /\ t \in Parties /\ pc[0] \in InGraph /\ ~Fresh(t)
      /\ ~Tiling(t) /\ ~Holds(t)
      /\ Ended(t) = n - 1 /\ Begun(t) = n - 1 /\ Opened(t) = n - 1
  BY <1>1, AtLoop
<1>3. /\ pc'[t] = "loop" /\ node_n'[t] = n + 1
      /\ \A u \in Thread \ {t} : pc'[u] = pc[u] /\ node_n'[u] = node_n[u]
  BY <1>1 DEF PoolInv, PoolTyped
<1>4. OnlyMoves(t) /\ ~Fresh(t)'
  BY <1>1, <1>2, <1>3 DEF OnlyMoves, Fresh
<1>5. /\ DOMAIN cgraph.op = 1..Len(cgraph.op) /\ Len(cgraph.op) \in Nat /\ n \in Nat \ {0}
      /\ Parties \subseteq Thread
      /\ \A u \in Parties : Opened(u) \in Nat /\ (Tiling(u) => AtTiles(u))
  BY <1>2, ComputingTyped
<1>6. /\ ~AtTiles(t)' /\ ~Tiling(t)' /\ ~Holds(t)' /\ ~AtEnd(t)' /\ Ended(t)' = n
      /\ Begun(t)' = n /\ Opened(t)' = n
  <2>1. ~AtTiles(t)' /\ ~Tiling(t)' /\ ~Holds(t)' /\ ~AtEnd(t)' /\ Ended(t)' = n
    BY <1>3, <1>4, <1>5 DEF AtTiles, Tiling, Holds, AtEnd, Left, Ended, AtBarrier, Released, Off,
       OutsideGraph
  <2>. QED
    BY <2>1 DEF Begun, Opened
<1> HIDE DEF n
<1>7. \A u \in Parties \ {t} : Still(u)
  BY <1>1, <1>4, <1>5, OthersStill
<1>8. \A u \in Parties \ {t} : OwnPart(u)' /\ Opened(u)' = Opened(u) /\ Ended(u)' = Ended(u)
  BY <1>1, <1>2, <1>7, StillOwnPart, StillNumbers DEF Still
<1>9. OwnPart(t)'
  <2>1. \A i \in DOMAIN cgraph.op :
          ~Skipped(cgraph, i) => (GR!Piece(i, 1, t) \in computed <=> i <= n - 1)
    BY <1>2 DEF Computing, OwnPart
  <2>2. \A i \in DOMAIN cgraph.op :
          ~Skipped(cgraph, i) => (GR!Piece(i, 1, t) \in computed' <=> i <= n)
    BY <1>1, <1>5, <2>1
  <2>. QED
    BY <1>1, <1>6, <2>2 DEF OwnPart
<1>10. \A u \in Parties : OwnPart(u)' /\ Opened(u)' \in Nat /\ Opened(u) <= Opened(u)'
  BY <1>2, <1>5, <1>6, <1>8, <1>9
<1>11. \A u \in Parties, i \in DOMAIN cgraph.op : MulMat(i) /\ i <= Ended(u)' => i <= Ended(u)
  BY <1>1, <1>2, <1>5, <1>6, <1>8 DEF MulMat, Skipped
<1>12. \A u \in Parties : Tiling(u)' =>
           /\ Tiling(u) /\ node_n'[u] = node_n[u] /\ current_chunk' = current_chunk
           /\ \A v \in Parties : /\ chunk'[v] = chunk[v]
                                 /\ Tiling(v)' <=> Tiling(v)
                                 /\ Holds(v)' <=> Holds(v)
  BY <1>1, <1>2, <1>5, <1>6, <1>7 DEF Still
<1>13. Computing'
  BY <1>1, <1>2, <1>10, <1>11, <1>12, Progress
<1>14. pc'[0] \in InGraph /\ pc'[0] # "kickoff"
  BY <1>2, <1>3, ThreadZero DEF InGraph
<1>. QED
  BY <1>1, <1>13, <1>14, PiecesAfter DEF PiecesInv

LEMMA LeaveLoopPieces ==
  ASSUME PoolInv, PiecesInv, NEW t \in Thread, LeaveLoop(t)
  PROVE  PiecesInv' /\ pc'[0] \in InGraph
<1> DEFINE n == node_n[t]
<1>1. /\ pc[t] = "loop" /\ ~InLoop(t)
      /\ pc' = [pc EXCEPT ![t] = "barrier"] /\ after' = [after EXCEPT ![t] = "final"]
      /\ UNCHANGED <<n_threads, cgraph, abort, ec, current_chunk, n_graph, n_barrier_passed, seen,
                     pending, last_graph, chunk, node_n, computed>>
  BY DEF LeaveLoop, Goto, params, barrier, control, worker
<1>2. /\ Computing /\ t \in Parties /\ pc[0] \in InGraph /\ ~Fresh(t)
      /\ ~Tiling(t) /\ ~Holds(t)
      /\ Ended(t) = n - 1 /\ Begun(t) = n - 1 /\ Opened(t) = n - 1
  BY <1>1, AtLoop
<1>3. /\ pc'[t] = "barrier" /\ after'[t] = "final"
      /\ \A u \in Thread \ {t} : pc'[u] = pc[u] /\ after'[u] = after[u]
  BY <1>1 DEF PoolInv, PoolTyped
<1>4. OnlyMoves(t) /\ ~Fresh(t)'
  BY <1>1, <1>2, <1>3 DEF OnlyMoves, Fresh
<1>5. /\ DOMAIN cgraph.op = 1..Len(cgraph.op) /\ Len(cgraph.op) \in Nat /\ n \in Nat \ {0}
      /\ Parties \subseteq Thread
      /\ \A u \in Parties : Opened(u) \in Nat /\ (Tiling(u) => AtTiles(u))
  BY <1>2, ComputingTyped
<1>6. /\ ~AtTiles(t)' /\ ~Tiling(t)' /\ ~Holds(t)' /\ Ended(t)' = n - 1
      /\ Begun(t)' = n - 1 /\ Opened(t)' = n - 1
  <2>1. ~AtTiles(t)' /\ ~Tiling(t)' /\ ~Holds(t)' /\ Ended(t)' = n - 1
    BY <1>1, <1>3, <1>4 DEF AtTiles, Tiling, Holds, Ended, AtBarrier, Released
  <2>. QED
    BY <2>1 DEF Begun, Opened
<1>7. n > Len(cgraph.op) \/ n = abort
  BY <1>1, <1>5 DEF InLoop
<1>8. \A u \in Parties \ {t} : Still(u)
  BY <1>1, <1>4, <1>5, OthersStill
<1>9. \A u \in Parties \ {t} : OwnPart(u)' /\ Opened(u)' = Opened(u) /\ Ended(u)' = Ended(u)
  BY <1>1, <1>2, <1>8, StillOwnPart, StillNumbers DEF Still
<1>10. OwnPart(t)'
  BY <1>1, <1>2, <1>6, <1>7 DEF Computing, OwnPart
<1>11. \A u \in Parties : OwnPart(u)' /\ Opened(u)' \in Nat /\ Opened(u) <= Opened(u)'
  BY <1>2, <1>5, <1>6, <1>9, <1>10
<1>12. \A u \in Parties, i \in DOMAIN cgraph.op : MulMat(i) /\ i <= Ended(u)' => i <= Ended(u)
  BY <1>2, <1>6, <1>9
<1>13. \A u \in Parties : Tiling(u)' =>
           /\ Tiling(u) /\ node_n'[u] = node_n[u] /\ current_chunk' = current_chunk
           /\ \A v \in Parties : /\ chunk'[v] = chunk[v]
                                 /\ Tiling(v)' <=> Tiling(v)
                                 /\ Holds(v)' <=> Holds(v)
  BY <1>1, <1>2, <1>6, <1>8 DEF Still
<1>14. Computing'
  BY <1>1, <1>2, <1>11, <1>12, <1>13, Progress
<1>15. pc'[0] \in InGraph /\ pc'[0] # "kickoff"
  BY <1>2, <1>3, ThreadZero DEF InGraph
<1>. QED
  BY <1>1, <1>14, <1>15, PiecesAfter DEF PiecesInv

LEMMA AtTile ==
  ASSUME PoolInv, PiecesInv, NEW t \in Thread, pc[t] \in {"tiles", "steal"}
  PROVE  /\ Computing /\ t \in Parties /\ pc[0] \in InGraph /\ ~Fresh(t)
         /\ AtTiles(t) /\ Tiling(t) /\ (Holds(t) <=> pc[t] = "tiles")
         /\ Ended(t) = node_n[t] - 1 /\ Begun(t) = node_n[t]
         /\ MulMat(node_n[t]) /\ node_n[t] \in DOMAIN cgraph.op /\ TilesOf(node_n[t])
         /\ Position(t) = AfterWork(cgraph, node_n[t])
         /\ \A u \in Parties : node_n[t] <= Begun(u)
<1>1. ~Left(t) /\ ~Fresh(t)
  BY Inside DEF InGraph, Released
<1>2. Computing /\ t \in Parties /\ pc[0] \in InGraph
  BY <1>1, Working
<1>3. AtTiles(t) /\ Tiling(t) /\ (Holds(t) <=> pc[t] = "tiles") /\ Begun(t) = node_n[t]
  BY DEF AtTiles, Tiling, Holds, Begun
<1>4. Ended(t) = node_n[t] - 1 /\ node_n[t] \in Nat \ {0}
  BY <1>2, <1>3, ComputingTyped
<1>5. MulMat(node_n[t]) /\ TilesOf(node_n[t])
  BY <1>2, <1>3 DEF Computing, OwnPart
<1>6. Position(t) = AfterWork(cgraph, node_n[t])
  BY TilesPosition
<1>7. ASSUME NEW u \in Parties  PROVE node_n[t] <= Begun(u)
  <2>1. Position(u) = AfterWork(cgraph, node_n[t])
    BY <1>2, <1>6 DEF PoolInv, Together
  <2>2. (Tiling(u) /\ node_n[u] = node_n[t]) \/ node_n[t] <= Ended(u)
    BY <1>2, <1>4, <1>5, <2>1, Abreast
  <2>. QED
    BY <1>2, <1>4, <2>2, ComputingTyped DEF Begun
<1>. QED
  BY <1>1, <1>2, <1>3, <1>4, <1>5, <1>6, <1>7 DEF MulMat

LEMMA StealPieces ==
  ASSUME PoolInv, PiecesInv, NEW t \in Thread, Steal(t)
  PROVE  PiecesInv' /\ pc'[0] \in InGraph
<1> DEFINE n == node_n[t]
<1>1. /\ pc[t] = "steal" /\ pc' = [pc EXCEPT ![t] = "tiles"]
      /\ chunk' = [chunk EXCEPT ![t] = current_chunk] /\ current_chunk' = current_chunk + 1
      /\ UNCHANGED <<n_threads, cgraph, abort, ec, n_graph, n_barrier_passed, seen, after,
                     pending, last_graph, node_n, computed>>
  BY DEF Steal, Goto, barrier, control, worker
<1>2. /\ Computing /\ t \in Parties /\ pc[0] \in InGraph /\ ~Fresh(t)
      /\ Tiling(t) /\ ~Holds(t) /\ Ended(t) = n - 1 /\ Begun(t) = n
      /\ MulMat(n) /\ n \in DOMAIN cgraph.op /\ TilesOf(n)
  BY <1>1, AtTile
<1>3. /\ pc'[t] = "tiles" /\ chunk'[t] = current_chunk
      /\ \A u \in Thread \ {t} : pc'[u] = pc[u] /\ chunk'[u] = chunk[u]
      /\ chunk' \in [Thread -> Nat] /\ current_chunk' \in Nat
  BY <1>1 DEF PoolInv, PoolTyped, PiecesInv
<1>4. OnlyMoves(t) /\ ~Fresh(t)'
  BY <1>1, <1>2, <1>3 DEF OnlyMoves, Fresh
<1>5. n \in Nat \ {0} /\ Parties \subseteq Thread
  BY <1>2, ComputingTyped
<1>6. /\ AtTiles(t)' /\ Tiling(t)' /\ Holds(t)' /\ ~AtEnd(t)' /\ node_n'[t] = n
      /\ Ended(t)' = n - 1 /\ Begun(t)' = n
  <2>1. AtTiles(t)' /\ Tiling(t)' /\ Holds(t)' /\ ~AtEnd(t)' /\ Ended(t)' = n - 1
    BY <1>1, <1>3, <1>4 DEF AtTiles, Tiling, Holds, AtEnd, Left, Ended, AtBarrier, Released, Off,
       OutsideGraph
  <2>. QED
    BY <1>1, <2>1 DEF Begun
<1>7. \A u \in Parties \ {t} : Still(u)
  BY <1>3, <1>4, <1>5, OthersStill
<1>8. OwnPart(t)'
  <2>1. MulMat(node_n[t])'
    BY <1>1, <1>2 DEF MulMat
  <2>. QED
    BY <1>1, <1>2, <1>6, <2>1 DEF Computing, OwnPart
<1>9. PICK m \in Nat \ {0} : m = n
  BY <1>5
<1>10. Computing'
  <2>1. TilesOf(m)'
    BY <1>1, <1>2, <1>3, <1>6, <1>7, <1>9, TakesChunk
  <2>. QED
    BY <1>1, <1>2, <1>3, <1>6, <1>7, <1>8, <1>9, <2>1, TilerMoves
<1>11. pc'[0] \in InGraph /\ pc'[0] # "kickoff"
  BY <1>2, <1>3, ThreadZero DEF InGraph
<1>. QED
  BY <1>1, <1>3, <1>10, <1>11, PiecesAfter DEF PiecesInv

\* A thread computes the tile in its hands.
LEMMA TileComputes ==
  ASSUME PoolInv, PiecesInv, NEW t \in Thread, Tile(t)
  PROVE  /\ chunk[t] \in TileNumbers
         /\ \A i \in DOMAIN cgraph.op, u \in Parties :
              GR!Piece(i, 1, u) \in computed' <=> GR!Piece(i, 1, u) \in computed
         /\ \A i \in DOMAIN cgraph.op, c \in TileNumbers :
              GR!Piece(i, 2, c) \in computed' <=> GR!Piece(i, 2, c) \in computed
                                                    \/ (i = node_n[t] /\ c = chunk[t])
         /\ computed' \subseteq GR!AllPieces(cgraph) /\ computed' # {} /\ computed \subseteq computed'
         /\ computed' # computed
         /\ pc'[0] \in InGraph => \E p \in GR!AllPieces(cgraph) : GR!Compute(p)
<1> DEFINE n == node_n[t]
           q == GR!Piece(n, 2, chunk[t])
<1>1. /\ pc[t] = "tiles" /\ chunk[t] < Chunks(cgraph)
      /\ computed' = computed \cup {q} /\ cgraph' = cgraph
  BY DEF Tile
<1>2. /\ Computing /\ t \in Parties /\ pc[0] \in InGraph /\ Holds(t)
      /\ MulMat(n) /\ n \in DOMAIN cgraph.op /\ TilesOf(n)
      /\ Position(t) = AfterWork(cgraph, n)
      /\ \A u \in Parties : n <= Begun(u)
  BY <1>1, AtTile
<1>3. /\ cgraph \in Cgraph /\ n \in Nat \ {0}
      /\ chunk[t] \in Nat /\ Chunks(cgraph) \in Nat
  BY <1>2, ComputingTyped, ChunksCount
<1>4. chunk[t] \in TileNumbers
  BY <1>1, <1>3 DEF TileNumbers
<1>5. q \in GR!AllPieces(cgraph) /\ q \notin computed
  <2>1. q \in GR!Pieces(cgraph, n)
    BY <1>2, <1>3, <1>4, PiecesAre DEF MulMat, TileNumbers
  <2>2. q \in GR!AllPieces(cgraph)
    BY <1>2, <1>3, <2>1, PiecesAre
  <2>. QED
    BY <1>2, <1>4, <2>2 DEF TilesOf
<1>6. q.node = n /\ q.stage = 2
  BY DEF GR!Piece
<1>7. Position(t) \in {<<n, "next">>, <<n, "tiles">>, <<n + 1, "final">>}
  BY <1>2 DEF AfterWork
<1>8. ASSUME NEW r \in GR!AllPieces(cgraph), r.node = n, r.stage < q.stage
      PROVE  r \in computed
  <2>1. PICK u \in Parties : ~Skipped(cgraph, n) /\ r = GR!Piece(n, 1, u)
    BY <1>2, <1>6, <1>8, StageOf
  <2>. QED
    BY <1>2, <2>1 DEF Computing, OwnPart
<1>9. \A i \in DOMAIN cgraph.op, u \in Parties :
              GR!Piece(i, 1, u) \in computed' <=> GR!Piece(i, 1, u) \in computed
  BY <1>1, PieceEquals
<1>10. \A i \in DOMAIN cgraph.op, c \in TileNumbers :
              GR!Piece(i, 2, c) \in computed' <=> GR!Piece(i, 2, c) \in computed
                                                    \/ (i = n /\ c = chunk[t])
  BY <1>1, PieceEquals
<1>11. pc'[0] \in InGraph => \E p \in GR!AllPieces(cgraph) : GR!Compute(p)
  <2> HIDE DEF n, q
  <2>. QED
    BY <1>1, <1>2, <1>3, <1>5, <1>6, <1>7, <1>8, Computes
<1>. QED
  BY <1>1, <1>4, <1>5, <1>9, <1>10, <1>11 DEF PiecesInv

\* A thread is done with a product: no tile is left.
LEMMA TilesEnd ==
  ASSUME PoolInv, PiecesInv, NEW t \in Thread, pc[t] = "tiles", Forwarded(t),
         UNCHANGED <<n_threads, cgraph, current_chunk, n_graph, n_barrier_passed, seen, pending,
                     last_graph, chunk>>,
         current_chunk >= Chunks(cgraph),
         \A i \in DOMAIN cgraph.op, u \in Parties :
           GR!Piece(i, 1, u) \in computed' <=> GR!Piece(i, 1, u) \in computed,
         \A i \in DOMAIN cgraph.op, c \in TileNumbers :
           GR!Piece(i, 2, c) \in computed' <=> GR!Piece(i, 2, c) \in computed
                                                 \/ (i = node_n[t] /\ c = chunk[t]),
         computed' \subseteq GR!AllPieces(cgraph), computed \subseteq computed'
  PROVE  PiecesInv' /\ pc'[0] \in InGraph
<1> DEFINE n == node_n[t]
<1>1. /\ Computing /\ t \in Parties /\ pc[0] \in InGraph /\ ~Fresh(t)
      /\ Tiling(t) /\ Holds(t) /\ Ended(t) = n - 1 /\ Begun(t) = n
      /\ MulMat(n) /\ n \in DOMAIN cgraph.op /\ TilesOf(n)
  BY AtTile
<1>2. /\ OnlyMoves(t) /\ pc'[t] \in {"barrier", "loop"}
      /\ ~AtTiles(t)' /\ ~Tiling(t)' /\ ~Holds(t)' /\ ~AtEnd(t)'
      /\ Ended(t)' = n /\ Begun(t)' = n
      /\ \/ UNCHANGED <<abort, ec>>
         \/ t = 0 /\ cgraph.abortable /\ abort' = n + 1 /\ ec' = "aborted"
  BY <1>1, ForwardedTo
<1>3. n \in Nat \ {0} /\ Parties \subseteq Thread /\ current_chunk \in Nat
  BY <1>1, ComputingTyped DEF PiecesInv
<1>4. abort' = abort \/ abort = None
  BY <1>2, NotAborted
<1>5. \A u \in Parties \ {t} : Still(u)
  BY <1>2, <1>3, OthersStill
<1>6. OwnPart(t)'
  BY <1>1, <1>2 DEF Computing, OwnPart
\* Its own share of the input is among the pieces.
<1>7. computed # {}
  <2>1. n <= Begun(t) /\ ~Skipped(cgraph, n)
    BY <1>1, <1>3 DEF MulMat, Skipped
  <2>. QED
    BY <1>1, <2>1 DEF Computing, OwnPart
<1>8. PICK m \in Nat \ {0} : m = n
  BY <1>3
<1>9. Computing'
  <2>1. \A c \in TileNumbers : GR!Piece(m, 2, c) \in computed'
                                 <=> GR!Piece(m, 2, c) \in computed \/ c = chunk[t]
    BY <1>1, <1>8
  <2>2. TilesOf(m)'
    BY <1>1, <1>2, <1>5, <1>8, <2>1, PutsAway
  <2>. QED
    BY <1>1, <1>2, <1>3, <1>4, <1>5, <1>6, <1>8, <2>2, TilerMoves
<1>10. pc'[0] \in InGraph /\ pc'[0] # "kickoff"
  BY <1>1, <1>2, ThreadZero DEF OnlyMoves, InGraph
<1>11. computed' # {} /\ (abort' = n + 1 => abort' \in Nat)
  BY <1>3, <1>7
<1>. QED
  BY <1>2, <1>9, <1>10, <1>11, PiecesAfter DEF PiecesInv

LEMMA TilesDonePieces ==
  ASSUME PoolInv, PiecesInv, NEW t \in Thread, TilesDone(t)
  PROVE  PiecesInv' /\ pc'[0] \in InGraph
<1>1. /\ pc[t] = "tiles" /\ Forwarded(t) /\ chunk[t] >= Chunks(cgraph)
      /\ UNCHANGED <<n_threads, cgraph, current_chunk, n_graph, n_barrier_passed, seen, pending,
                     last_graph, chunk, computed>>
  BY DEF TilesDone, barrier, control, worker
<1>2. Computing /\ t \in Parties /\ Holds(t) /\ TilesOf(node_n[t])
  BY <1>1, AtTile
<1>3. chunk[t] \in Nat /\ Chunks(cgraph) \in Nat /\ current_chunk \in Nat
  BY <1>2, ComputingTyped, ChunksCount DEF PiecesInv
<1>4. chunk[t] < current_chunk
  BY <1>2 DEF TilesOf
<1>5. current_chunk >= Chunks(cgraph) /\ \A c \in TileNumbers : c # chunk[t]
  BY <1>1, <1>3, <1>4 DEF TileNumbers
<1>. QED
  BY <1>1, <1>5, TilesEnd DEF PiecesInv

LEMMA TilePieces ==
  ASSUME PoolInv, PiecesInv, NEW t \in Thread, Tile(t)
  PROVE  PiecesInv' /\ pc'[0] \in InGraph
<1> DEFINE n == node_n[t]
<1>1. /\ pc[t] = "tiles"
      /\ UNCHANGED <<n_threads, cgraph, current_chunk, n_graph, n_barrier_passed, seen, pending,
                     last_graph, chunk>>
  BY DEF Tile, barrier, control, worker
<1>2. /\ \A i \in DOMAIN cgraph.op, u \in Parties :
              GR!Piece(i, 1, u) \in computed' <=> GR!Piece(i, 1, u) \in computed
      /\ \A i \in DOMAIN cgraph.op, c \in TileNumbers :
              GR!Piece(i, 2, c) \in computed' <=> GR!Piece(i, 2, c) \in computed
                                                    \/ (i = n /\ c = chunk[t])
      /\ computed' \subseteq GR!AllPieces(cgraph) /\ computed \subseteq computed'
  BY TileComputes
<1>3. /\ Computing /\ t \in Parties /\ pc[0] \in InGraph /\ ~Fresh(t)
      /\ Tiling(t) /\ Holds(t) /\ Ended(t) = n - 1 /\ Begun(t) = n
      /\ MulMat(n) /\ n \in DOMAIN cgraph.op /\ TilesOf(n)
  BY <1>1, AtTile
<1>4. /\ n \in Nat \ {0} /\ Parties \subseteq Thread /\ current_chunk \in Nat
      /\ Nth \in Nat /\ Chunks(cgraph) \in Nat
  BY <1>3, ComputingTyped, ChunksCount DEF PiecesInv
<1>5. CASE Nth >= Chunks(cgraph)
  <2>1. Forwarded(t)
    BY <1>5 DEF Tile
  <2>2. current_chunk >= Nth
    BY <1>3 DEF TilesOf
  <2>3. current_chunk >= Chunks(cgraph)
    BY <1>4, <1>5, <2>2
  <2>. QED
    BY <1>1, <1>2, <2>1, <2>3, TilesEnd
<1>6. CASE ~(Nth >= Chunks(cgraph))
  <2>1. pc' = [pc EXCEPT ![t] = "steal"] /\ UNCHANGED <<abort, ec, node_n, after>>
    BY <1>6 DEF Tile
  <2>2. pc'[t] = "steal" /\ \A u \in Thread \ {t} : pc'[u] = pc[u]
    BY <2>1 DEF PoolInv, PoolTyped
  <2>3. OnlyMoves(t) /\ ~Fresh(t)'
    BY <1>1, <1>3, <2>1, <2>2 DEF OnlyMoves, Fresh
  <2>4. /\ AtTiles(t)' /\ Tiling(t)' /\ ~Holds(t)' /\ ~AtEnd(t)' /\ node_n'[t] = n
        /\ Ended(t)' = n - 1 /\ Begun(t)' = n
    <3>1. AtTiles(t)' /\ Tiling(t)' /\ ~Holds(t)' /\ ~AtEnd(t)' /\ Ended(t)' = n - 1
      BY <2>1, <2>2, <2>3 DEF AtTiles, Tiling, Holds, AtEnd, Left, Ended, AtBarrier, Released, Off,
         OutsideGraph
    <3>. QED
      BY <2>1, <3>1 DEF Begun
  <2>5. \A u \in Parties \ {t} : Still(u)
    BY <1>1, <1>4, <2>3, OthersStill
  <2>6. OwnPart(t)'
    <3>1. MulMat(node_n[t])'
      BY <1>1, <1>3, <2>1 DEF MulMat
    <3>. QED
      BY <1>1, <1>2, <1>3, <2>4, <3>1 DEF Computing, OwnPart
  <2>7. PICK m \in Nat \ {0} : m = n
    BY <1>4
  <2>8. Computing'
    <3>1. \A c \in TileNumbers : GR!Piece(m, 2, c) \in computed'
                                   <=> GR!Piece(m, 2, c) \in computed \/ c = chunk[t]
      BY <1>2, <1>3, <2>7
    <3>2. TilesOf(m)'
      BY <1>1, <1>3, <2>4, <2>5, <2>7, <3>1, PutsAway
    <3>. QED
      BY <1>1, <1>2, <1>3, <1>4, <2>1, <2>4, <2>5, <2>6, <2>7, <3>2, TilerMoves
  <2>9. pc'[0] \in InGraph /\ pc'[0] # "kickoff"
    BY <1>3, <2>2, ThreadZero DEF InGraph
  <2>. QED
    BY <1>1, <1>2, <2>1, <2>8, <2>9, PiecesAfter DEF PiecesInv
<1>. QED
  BY <1>5, <1>6

-----------------------------------------------------------------------------
(* The pool computes a graph as GraphRun promises                          *)

\* What the caller is given: everything, or whole nodes.
LEMMA ReturnsWhole ==
  ASSUME PoolInv, PiecesInv, Return
  PROVE  GR!Return
<1>1. /\ pc[0] = "done" /\ pc'[0] = "idle"
      /\ UNCHANGED <<cgraph, abort, ec, n_graph, computed>>
  BY ThreadZero DEF Return, Goto, params, control, PoolInv, PoolTyped
<1>2. Computing /\ pc[0] \in OutsideGraph
  BY <1>1 DEF PiecesInv, OutsideGraph
<1>3. /\ cgraph \in Cgraph /\ DOMAIN cgraph.op = 1..Len(cgraph.op) /\ Len(cgraph.op) \in Nat
      /\ 0 \in Parties /\ Parties \subseteq Thread /\ node_n[0] \in Nat \ {0}
  BY <1>2, ComputingTyped DEF Computing
<1> DEFINE m == node_n[0] - 1
<1>4. ASSUME NEW u \in Parties
      PROVE  /\ Ended(u) = m /\ Begun(u) = m /\ Opened(u) = m
             /\ node_n[0] > Len(cgraph.op) \/ node_n[0] = abort
  <2>1. Left(u) /\ ~Fresh(u) /\ Left(0) /\ ~Fresh(0)
    BY <1>2, <1>3, AllHaveLeft
  <2>2. Position(u) = <<node_n[u], "done">> /\ Position(0) = <<node_n[0], "done">>
    BY <2>1 DEF Position
  <2>3. node_n[u] = node_n[0]
    <3>1. Position(u) = Position(0)
      BY <1>3 DEF PoolInv, Together
    <3>. QED
      BY <2>2, <3>1
  <2>4. ~AtTiles(u) /\ ~Tiling(u) /\ Ended(u) = node_n[u] - 1 /\ AtEnd(u)
    BY <2>1 DEF AtTiles, Tiling, AtEnd, Left, Ended, Released, Off, OutsideGraph, AtBarrier
  <2>. QED
    BY <1>2, <2>3, <2>4 DEF Begun, Opened, Computing, OwnPart
<1>5. m \in Nat
  BY <1>3
<1> HIDE DEF m
\* A piece is computed when its node is behind all threads, and only then.
<1>6. ASSUME NEW q \in GR!AllPieces(cgraph)
      PROVE  q \in computed <=> q.node <= m
  <2>1. /\ q.node \in DOMAIN cgraph.op
        /\ \/ \E u \in Parties : ~Skipped(cgraph, q.node) /\ q = GR!Piece(q.node, 1, u)
           \/ \E c \in TileNumbers : MulMat(q.node) /\ q = GR!Piece(q.node, 2, c)
    BY <1>2, StageOf
  <2> DEFINE i == q.node
  <2>2. ASSUME NEW u \in Parties, ~Skipped(cgraph, i), q = GR!Piece(i, 1, u)
        PROVE  q \in computed <=> i <= m
    BY <1>2, <1>4, <2>1, <2>2 DEF Computing, OwnPart
  <2>3. ASSUME NEW c \in TileNumbers, MulMat(i), q = GR!Piece(i, 2, c)
        PROVE  q \in computed <=> i <= m
    <3>1. q \in computed => i <= Opened(0)
      BY <1>2, <1>3, <2>1, <2>3 DEF Computing, TilesInTime
    <3>2. (\A u \in Parties : i <= Ended(u)) => q \in computed
      BY <1>2, <2>1, <2>3 DEF Computing, TilesComplete
    <3>. QED
      BY <1>3, <1>4, <3>1, <3>2
  <2>. QED
    BY <2>1, <2>2, <2>3
<1>7. Status = "running" /\ Status' = ec
  BY <1>1, <1>2 DEF Status, Computing
<1>8. CASE abort = None
  <2>1. ec = "success"
    BY <1>8 DEF PiecesInv
  <2>2. m >= Len(cgraph.op)
    BY <1>3, <1>4, <1>8 DEF None, m
  <2>3. \A q \in GR!AllPieces(cgraph) : q \in computed
    <3> TAKE q \in GR!AllPieces(cgraph)
    <3>1. q.node \in 1..Len(cgraph.op)
      BY <1>2, <1>3, StageOf
    <3>. QED
      BY <1>3, <1>5, <1>6, <2>2, <3>1
  <2>4. computed = GR!AllPieces(cgraph)
    BY <2>3 DEF PiecesInv
  <2>. QED
    BY <1>1, <1>7, <2>1, <2>4 DEF GR!Return
<1>9. CASE abort # None
  <2>1. ec = "aborted" /\ cgraph.abortable /\ computed # {}
    BY <1>9 DEF PiecesInv
  <2>2. GR!WholeNodes(cgraph)
    <3> SUFFICES ASSUME NEW i \in DOMAIN cgraph.op
                 PROVE  \/ GR!Pieces(cgraph, i) \subseteq computed
                        \/ GR!Pieces(cgraph, i) \cap computed = {}
      BY DEF GR!WholeNodes
    <3>1. \A q \in GR!Pieces(cgraph, i) : q \in GR!AllPieces(cgraph) /\ q.node = i
      <4> TAKE q \in GR!Pieces(cgraph, i)
      <4>1. q \in GR!AllPieces(cgraph)
        BY <1>3, PiecesAre
      <4>2. q.node = i
        BY <1>3, PiecesAre DEF GR!Piece
      <4>. QED
        BY <4>1, <4>2
    <3>. QED
      BY <1>6, <3>1
  <2>. QED
    BY <1>1, <1>7, <2>1, <2>2 DEF GR!Return
<1>. QED
  BY <1>8, <1>9

\* The steps of the pool that GraphRun does not see.
LEMMA Unseen ==
  ASSUME UNCHANGED <<cgraph, computed>>,
         \/ UNCHANGED <<ec, n_graph>> /\ pc'[0] = pc[0]
         \/ UNCHANGED <<ec, n_graph>> /\ {pc[0], pc'[0]} \subseteq {"idle", "joining", "freed"}
         \/ {pc[0], pc'[0]} \cap {"idle", "joining", "freed"} = {}
  PROVE  UNCHANGED GR!graphRun
<1>1. Status' = Status
  <2>1. CASE UNCHANGED <<ec, n_graph>> /\ pc'[0] = pc[0]
    BY <2>1 DEF Status
  <2>2. CASE UNCHANGED <<ec, n_graph>> /\ {pc[0], pc'[0]} \subseteq {"idle", "joining", "freed"}
    BY <2>2 DEF Status
  <2>3. CASE {pc[0], pc'[0]} \cap {"idle", "joining", "freed"} = {}
    BY <2>3 DEF Status
  <2>. QED
    BY <2>1, <2>2, <2>3
<1>. QED
  BY <1>1 DEF GR!graphRun

LEMMA CallerPromise ==
  ASSUME PoolInv, PiecesInv, Caller
  PROVE  GR!Next \/ UNCHANGED GR!graphRun
<1>1. pc \in [Thread -> Off \cup OutsideGraph \cup InGraph \cup {"run"}] /\ 0 \in Thread
  BY ThreadZero DEF PoolInv, PoolTyped
<1>2. CASE Kickoff
  BY <1>1, <1>2, Unseen DEF Kickoff, Broadcast, params
<1>3. CASE Return
  BY <1>3, ReturnsWhole DEF GR!Next
<1>4. CASE PauseOrResume
  BY <1>1, <1>4, Unseen DEF PauseOrResume, Broadcast, params
<1>5. CASE Free
  BY <1>1, <1>5, Unseen DEF Free, Broadcast, params
<1>6. CASE Join
  BY <1>1, <1>6, Unseen DEF Join, Goto, params, control
<1>. QED
  BY <1>2, <1>3, <1>4, <1>5, <1>6 DEF Caller

LEMMA ResetPromise ==
  ASSUME PoolInv, PiecesInv, NEW g \in Graphs, Reset(g)
  PROVE  GR!Next
<1>1. /\ pc[0] = "idle" /\ pc'[0] = "kickoff" /\ computed' = {}
      /\ cgraph' = Capped(g, n_threads)
  BY ThreadZero DEF Reset, Goto, PoolInv, PoolTyped
<1>2. cgraph' \in Runnable
  BY <1>1 DEF PoolInv, PoolTyped, Runnable
<1>3. Status # "running" /\ Status' = "running"
  BY <1>1 DEF Status, PiecesInv
<1>. QED
  BY <1>1, <1>2, <1>3 DEF GR!Next, GR!Start

\* What the threads do in a graph and between graphs.
LEMMA GraphSteps ==
  ASSUME PoolInv, PiecesInv, NEW t \in Thread, Graph(t) \/ Between(t) \/ SpuriousWakeup(t)
  PROVE  PiecesInv' /\ UNCHANGED GR!graphRun
<1>1. cgraph' = cgraph /\ computed' = computed /\ n_graph' = n_graph
  BY DEF Graph, Skip, LeaveLoop, Steal, TilesDone, Barrier, BarrierAlone, BarrierLoad, BarrierEnter,
     BarrierOpen, BarrierSpin, Between, Top, Poll, CheckForWork, Run, SpuriousWakeup, params, control
<1>2. pc \in [Thread -> Off \cup OutsideGraph \cup InGraph \cup {"run"}] /\ 0 \in Thread
  BY ThreadZero DEF PoolInv, PoolTyped
<1>3. CASE Skip(t) \/ LeaveLoop(t) \/ Steal(t) \/ TilesDone(t)
  <2>1. PiecesInv' /\ pc'[0] \in InGraph
    BY <1>3, SkipPieces, LeaveLoopPieces, StealPieces, TilesDonePieces
  <2>2. pc[0] \in InGraph
    BY <1>3, AtLoop, AtTile DEF Skip, LeaveLoop, Steal, TilesDone, Goto
  <2>. QED
    BY <1>1, <2>1, <2>2, Unseen DEF InGraph
<1>4. CASE Barrier(t)
  <2>1. PiecesInv'
    BY <1>4, BarrierAlonePieces, BarrierQuiet, BarrierOpenPieces DEF Barrier
  <2>2. ec' = ec
    BY <1>4 DEF Barrier, BarrierAlone, BarrierLoad, BarrierEnter, BarrierOpen, BarrierSpin, params
  <2>3. CASE t # 0
    <3>1. pc'[0] = pc[0]
      BY <1>2, <1>4, <2>3 DEF Barrier, BarrierAlone, BarrierLoad, BarrierEnter, BarrierOpen,
         BarrierSpin, Goto, Through
    <3>. QED
      BY <1>1, <2>1, <2>2, <3>1, Unseen
  <2>4. CASE t = 0
    <3>1. pc[0] \in AtBarrier
      BY <1>4, <2>4 DEF Barrier, BarrierAlone, BarrierLoad, BarrierEnter, BarrierOpen, BarrierSpin,
         Goto, AtBarrier
    <3>2. CASE Through(0)
      <4>1. pc'[0] \in {"tiles", "loop", "done"}
        BY <1>2, <3>2, ThroughTyped
      <4>. QED
        BY <1>1, <2>1, <3>1, <4>1, Unseen DEF AtBarrier
    <3>3. CASE ~Through(0)
      <4>1. pc'[0] \in {"enter", "open", "spin"}
        BY <1>2, <1>4, <2>4, <3>3 DEF Barrier, BarrierAlone, BarrierLoad, BarrierEnter, BarrierOpen,
           BarrierSpin, Goto
      <4>. QED
        BY <1>1, <2>1, <3>1, <4>1, Unseen DEF AtBarrier
    <3>. QED
      BY <3>2, <3>3
  <2>. QED
    BY <2>3, <2>4
<1>5. CASE Between(t) \/ SpuriousWakeup(t)
  <2>1. PiecesInv' /\ t # 0
    BY <1>5, BetweenPieces DEF Between, SpuriousWakeup, PoolInv, Placed, OutsideGraph, InGraph
  <2>2. pc'[0] = pc[0] /\ ec' = ec
    BY <1>2, <1>5, <2>1 DEF Between, Top, Poll, CheckForWork, Run, SpuriousWakeup, Goto, params
  <2>. QED
    BY <1>1, <2>1, <2>2, Unseen
<1>. QED
  BY <1>3, <1>4, <1>5 DEF Graph

LEMMA ForwardSteps ==
  ASSUME PoolInv, PiecesInv, NEW t \in Thread, Forward(t)
  PROVE  PiecesInv' /\ GR!Next /\ computed' # computed
<1>1. PiecesInv' /\ pc'[0] \in InGraph
  BY SharePieces, QuantisePieces, TilePieces DEF Forward
<1>2. computed' # computed /\ \E p \in GR!AllPieces(cgraph) : GR!Compute(p)
  BY <1>1, ShareComputes, TileComputes DEF Forward
<1>. QED
  BY <1>1, <1>2 DEF GR!Next

LEMMA NextPieces ==
  ASSUME PoolInv, PiecesInv, [Next]_vars
  PROVE  PiecesInv' /\ [GR!Next]_GR!graphRun
<1>1. PoolInv'
  BY NextPool
<1>2. CASE Caller
  BY <1>1, <1>2, KickoffPieces, CallerQuiet, CallerPromise DEF Caller
<1>3. CASE \E g \in Graphs : Reset(g)
  BY <1>3, ResetPieces, ResetPromise
<1>4. ASSUME NEW t \in Thread, Forward(t)  PROVE PiecesInv' /\ GR!Next
  BY <1>4, ForwardSteps
<1>5. ASSUME NEW t \in Thread, Graph(t) \/ Between(t) \/ SpuriousWakeup(t)
      PROVE  PiecesInv' /\ UNCHANGED GR!graphRun
  BY <1>5, GraphSteps
<1>6. CASE UNCHANGED vars
  <2>1. /\ UNCHANGED <<cgraph, abort, ec, current_chunk, chunk, computed, n_graph, node_n, after,
                       n_barrier_passed, seen, last_graph>>
        /\ pc' = pc
    BY <1>6 DEF vars, params, barrier, control, worker
  <2>2. \A u \in Parties : Still(u)
    BY <2>1 DEF Still, Ended, AtTiles, Tiling, Holds, AtEnd, Left, Released, Fresh
  <2>3. PiecesInv'
    BY <2>1, <2>2, Quiet DEF InGraph, OutsideGraph, PiecesInv
  <2>. QED
    BY <2>1, <2>3, Unseen
<1>. QED
  BY <1>2, <1>3, <1>4, <1>5, <1>6 DEF Next

-----------------------------------------------------------------------------
(* The backend: plans and pool together                                    *)

BackendInv == PlanInv /\ PoolInv /\ workload \in Seq(Graphs)

LEMMA InitBackend == InitCompute => BackendInv
<1> SUFFICES ASSUME InitCompute  PROVE BackendInv
  OBVIOUS
<1>1. PICK w \in Workloads : /\ workload = w.graphs /\ New(w.pool, FALSE)
                             /\ GA!InitWith(Head(w.graphs))
  BY DEF InitCompute
<1>2. w.graphs \in Seq(Graphs) \ {<<>>} /\ w.pool \in 1..MaxThreads
  BY WorkloadsAssumption
<1>3. Head(w.graphs) \in Graphs
  BY <1>2
<1>. QED
  BY <1>1, <1>2, <1>3, InitPlan, NewInv DEF BackendInv

LEMMA NextBackend == BackendInv /\ [NextCompute]_system => BackendInv'
<1> SUFFICES ASSUME BackendInv, [NextCompute]_system  PROVE BackendInv'
  OBVIOUS
<1> USE DEF BackendInv
<1>1. workload # <<>> => Head(workload) \in Graphs /\ Tail(workload) \in Seq(Graphs)
  OBVIOUS
<1>2. UNCHANGED plan => PlanInv'
  BY NothingFreed DEF plan
<1>3. CASE PlanStep
  BY <1>3, StepPlan, NextPool DEF PlanStep
<1>4. CASE Replan
  BY <1>1, <1>4, ReservePlan, NextPool DEF Replan
<1>5. CASE SetInputsAndCompute
  BY <1>1, <1>2, <1>5, NextPool DEF SetInputsAndCompute, Next
<1>6. CASE CallerStep
  BY <1>2, <1>6, NextPool DEF CallerStep, Quietly, Next
<1>7. ASSUME NEW t \in Thread, Work(t) \/ ThreadStep(t) \/ Wakeup(t)  PROVE BackendInv'
  BY <1>2, <1>7, NextPool DEF Work, ThreadStep, Wakeup, Quietly, Next
<1>8. CASE UNCHANGED system
  BY <1>2, <1>8, NextPool DEF system
<1>. QED
  BY <1>3, <1>4, <1>5, <1>6, <1>7, <1>8 DEF NextCompute

\* The invariant of a backend at work: the allocator's plan (ggml-alloc.c:
\* 200-348, 621-710) and the threads of the pool between two barriers
\* (ggml-cpu.c: 550-606, 2881-3280).
THEOREM BackendInvariant == SpecCompute => []BackendInv
BY InitBackend, NextBackend, PTL DEF SpecCompute

\* Two tensors of one graph that the plan holds at the same time never share
\* memory, and no free block overlaps a tensor or another free block.
THEOREM NeverShared == SpecCompute => []Apart
<1>1. BackendInv => Apart
  BY DEF BackendInv, PlanInv, Apart
<1>. QED
  BY <1>1, BackendInvariant, PTL

\* Free blocks that touch are one block, whatever the order in which tensors
\* are given back.
THEOREM NeverFragmented == SpecCompute => []Coalesced
<1>1. BackendInv => Coalesced
  BY DEF BackendInv, PlanInv, Coalesced
<1>. QED
  BY <1>1, BackendInvariant, PTL

\* When the caller sets the parameters of the next graph, without the mutex,
\* no worker is still at work on the last one: at most it has yet to notice
\* that it has been let out of the last barrier.
THEOREM NobodyIsLeftBehind == SpecCompute => []ResetUnobserved
<1>1. ASSUME PoolInv, pc[0] = "idle", NEW t \in Thread \ {0}
      PROVE  \/ pc[t] \in {"top", "paused", "poll", "locked", "asleep", "exited"}
             \/ pc[t] = "spin" /\ n_barrier_passed # seen[t]
  <2>1. Left(t) /\ pc[t] \notin OutsideGraph
    BY <1>1, AllHaveLeft DEF OutsideGraph, PoolInv, Placed, Off, InGraph
  <2>. QED
    BY <2>1 DEF Left, Off, Released
<1>2. BackendInv => ResetUnobserved
  BY <1>1 DEF BackendInv, ResetUnobserved
<1>. QED
  BY <1>2, BackendInvariant, PTL

\* Every step of the backend is a step of its pool, or none.
LEMMA PoolSteps == BackendInv /\ [NextCompute]_system => [Next]_vars
<1> SUFFICES ASSUME BackendInv, [NextCompute]_system  PROVE [Next]_vars
  OBVIOUS
<1>1. CASE PlanStep \/ Replan \/ UNCHANGED system
  BY <1>1 DEF PlanStep, Replan, system
<1>2. CASE SetInputsAndCompute
  BY <1>2 DEF SetInputsAndCompute, Next, BackendInv
<1>3. CASE CallerStep
  BY <1>3 DEF CallerStep, Quietly, Next
<1>4. ASSUME NEW t \in Thread, Work(t) \/ ThreadStep(t) \/ Wakeup(t)  PROVE Next
  BY <1>4 DEF Work, ThreadStep, Wakeup, Quietly, Next
<1>. QED
  BY <1>1, <1>2, <1>3, <1>4 DEF NextCompute

LEMMA InitPieces == InitCompute => PiecesInv /\ GR!Init
<1> SUFFICES ASSUME InitCompute  PROVE PiecesInv /\ GR!Init
  OBVIOUS
<1>1. PICK w \in Workloads : New(w.pool, FALSE)
  BY DEF InitCompute
<1>2. cgraph \in Runnable
  BY InitBackend DEF BackendInv, PoolInv, PoolTyped
<1>3. /\ pc[0] = "idle" /\ n_graph.count = 0 /\ computed = {} /\ current_chunk = 0
      /\ chunk = [t \in Thread |-> 0] /\ abort = None /\ ec = "success"
  BY <1>1, ThreadZero DEF New
<1>4. PiecesInv
  BY <1>3 DEF PiecesInv, OutsideGraph
<1>. QED
  BY <1>2, <1>3, <1>4 DEF GR!Init, Status

LEMMA PiecesAlways == SpecCompute => [](BackendInv /\ PiecesInv)
<1>1. InitCompute => BackendInv /\ PiecesInv
  BY InitBackend, InitPieces
<1>2. BackendInv /\ PiecesInv /\ [NextCompute]_system => (BackendInv /\ PiecesInv)'
  BY NextBackend, PoolSteps, NextPieces DEF BackendInv
<1>. QED
  BY <1>1, <1>2, PTL DEF SpecCompute

\* The pool computes a graph as GraphRun promises, for any graph, any number of
\* threads and tiles and any abort (ggml-cpu.c: 1218-1402, 2881-2920, 3211-3280):
\* nodes in order, the tiles of a product behind its quantised input, and what the
\* caller is given is a graph computed to the end or to a whole node.
THEOREM RunsAsPromised == SpecCompute => RunsInOrder
<1>1. InitCompute => GR!Init
  BY InitPieces
<1>2. BackendInv /\ PiecesInv /\ [NextCompute]_system => [GR!Next]_GR!graphRun
  BY PoolSteps, NextPieces DEF BackendInv
<1>. QED
  BY <1>1, <1>2, PiecesAlways, PTL DEF SpecCompute, RunsInOrder, GR!Spec

\* No share and no tile is computed a second time: the chunk counter starts
\* behind the chunks that the threads begin with.
THEOREM NoPieceTwice == SpecCompute => EachPieceOnce
<1>1. BackendInv /\ PiecesInv /\ [NextCompute]_system
        => [\A t \in Thread : Forward(t) => computed' # computed]_system
  BY ForwardSteps DEF BackendInv
<1>. QED
  BY <1>1, PiecesAlways, PTL DEF SpecCompute, EachPieceOnce

=============================================================================
