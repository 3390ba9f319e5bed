--------------------------- MODULE ManifestProofs ---------------------------
(***************************************************************************)
(* First detect_cycle on its own, for every set of nodes, every graph and  *)
(* every start order: it accepts only acyclic graphs, and rejects only     *)
(* with a node that lies on a cycle.                                       *)
(*                                                                         *)
(* Then the whole of ManifestCfg::build and lint, for every manifest: what *)
(* is built is valid and what ends in an error is not, and lint's warning  *)
(* about the trip node is exact.  The cycle search runs on the adjacency   *)
(* build derives from the edges.                                           *)
(***************************************************************************)
EXTENDS ManifestLoader, LeastPositions, SequenceTheorems, TLAPS

Black == {n \in Node : color[n] = "black"}
Gray  == {n \in Node : color[n] = "gray"}
OnStack == {stack[k].node : k \in DOMAIN stack}

-----------------------------------------------------------------------------
(* The inductive invariant.                                                *)

\* The stack is a path of distinct nodes, and they are the gray ones.
StackPath ==
    /\ Gray = OnStack
    /\ \A j, k \in DOMAIN stack : stack[j].node = stack[k].node => j = k
    /\ \A k \in DOMAIN stack :
          k < Len(stack) => HasEdge(stack[k].node, stack[k + 1].node)

\* A child the loop has passed is black, or it is the next node on the stack.
PassedChildren ==
    \A k \in DOMAIN stack :
        \A c \in DOMAIN Children(stack[k].node) :
            c < stack[k].idx =>
                \/ color[Children(stack[k].node)[c]] = "black"
                \/ /\ k < Len(stack)
                   /\ Children(stack[k].node)[c] = stack[k + 1].node

\* Successors of finished nodes are finished, and no cycle runs through them.
BlackDone ==
    /\ \A n \in Black : \A m \in Node : HasEdge(n, m) => m \in Black
    /\ \A S \in SUBSET Black : ~Knot(S)

\* Every node is still to start from, or has been reached.
NoneForgotten == \A n \in All : n \in todo \/ color[n] # "white"

SearchInv == StackPath /\ PassedChildren /\ BlackDone /\ NoneForgotten

DfsInv == /\ DfsTypeOK
          /\ Searching => SearchInv
          /\ AcceptsOnlyAcyclic
          /\ RejectsOnlyCyclic

-----------------------------------------------------------------------------
(* Facts about the graph.                                                  *)

LEMMA ChildrenTyped ==
  ASSUME DfsTypeOK, NEW n
  PROVE  Children(n) \in Seq(Node)
  BY DEF DfsTypeOK, Children

LEMMA ChildAt ==
  ASSUME DfsTypeOK, NEW n, NEW c \in DOMAIN Children(n)
  PROVE  c \in Nat \ {0} /\ Children(n)[c] \in Node
<1>1. Children(n) \in Seq(Node)
  BY ChildrenTyped
<1>2. DOMAIN Children(n) = 1 .. Len(Children(n)) /\ Len(Children(n)) \in Nat
  BY <1>1, LenProperties
<1> QED
  BY <1>1, <1>2, ElementOfSeq

LEMMA EdgesInNode ==
  ASSUME DfsTypeOK, NEW n, NEW m, HasEdge(n, m)
  PROVE  m \in Node /\ n \in All /\ m \in All
<1>1. PICK k \in DOMAIN Children(n) : Children(n)[k] = m
  BY DEF HasEdge
<1>2. n \in DOMAIN adj /\ Children(n) = adj[n]
  BY <1>1 DEF Children
<1>3. m \in Node
  BY <1>1, ChildrenTyped, ElementOfSeq, LenProperties
<1> QED
  BY <1>1, <1>2, <1>3 DEF All

Frame == [node : Node, idx : Nat \ {0}]

LEMMA StackTyped ==
  ASSUME DfsTypeOK
  PROVE  /\ stack \in Seq(Frame)
         /\ Len(stack) \in Nat /\ DOMAIN stack = 1 .. Len(stack)
         /\ \A k \in DOMAIN stack :
               stack[k].node \in Node /\ stack[k].idx \in Nat \ {0}
<1>1. stack \in Seq(Frame)
  BY DEF DfsTypeOK, Frame
<1>2. Len(stack) \in Nat /\ DOMAIN stack = 1 .. Len(stack)
  BY <1>1, LenProperties
<1>3. \A k \in DOMAIN stack : stack[k] \in Frame
  BY <1>1, <1>2, ElementOfSeq
<1> QED
  BY <1>1, <1>2, <1>3 DEF Frame

\* The graph does not change, so nothing said of it does.
LEMMA SameGraph ==
  ASSUME UNCHANGED adj
  PROVE  /\ All' = All
         /\ \A n : Children(n)' = Children(n)
         /\ \A m, n : HasEdge(m, n)' = HasEdge(m, n)
         /\ \A S : Knot(S)' = Knot(S)
         /\ Cyclic' = Cyclic
         /\ \A n : OnCycle(n)' = OnCycle(n)
  BY DEF All, Children, HasEdge, Knot, Cyclic, OnCycle

\* Adding a node whose successors are all finished adds no cycle.
LEMMA FinishingAddsNoKnot ==
  ASSUME DfsTypeOK, BlackDone, NEW n \in Node, n \notin Black,
         \A m \in Node : HasEdge(n, m) => m \in Black
  PROVE  \A S \in SUBSET (Black \cup {n}) : ~Knot(S)
<1> SUFFICES ASSUME NEW S \in SUBSET (Black \cup {n}), Knot(S) PROVE FALSE
  OBVIOUS
<1> DEFINE T == S \ {n}
<1>1. T \in SUBSET Black
  OBVIOUS
<1>2. \A k \in S : \E m \in T : HasEdge(k, m)
  <2> SUFFICES ASSUME NEW k \in S PROVE \E m \in T : HasEdge(k, m)
    OBVIOUS
  <2>1. PICK m \in S : HasEdge(k, m)
    BY DEF Knot
  <2>2. m \in Black
    BY <2>1, EdgesInNode DEF BlackDone
  <2> QED
    BY <2>1, <2>2
<1>3. T # {} /\ \A k \in T : \E m \in T : HasEdge(k, m)
  BY <1>2 DEF Knot
<1>4. Knot(T)
  BY <1>3 DEF Knot
<1> QED
  BY <1>1, <1>4 DEF BlackDone

\* The stack from k on closes a cycle if its top has an edge back to k.
LEMMA BackEdgeClosesCycle ==
  ASSUME DfsTypeOK, StackPath, NEW k \in DOMAIN stack,
         HasEdge(stack[Len(stack)].node, stack[k].node)
  PROVE  OnCycle(stack[k].node)
<1> DEFINE n == stack[k].node
<1> SUFFICES ASSUME NEW S \in SUBSET Node,
                    \A m \in Node : HasEdge(n, m) => m \in S,
                    \A a \in S, m \in Node : HasEdge(a, m) => m \in S
             PROVE  n \in S
  BY DEF OnCycle
<1>1. /\ Len(stack) \in Nat /\ DOMAIN stack = 1 .. Len(stack)
      /\ \A j \in DOMAIN stack : stack[j].node \in Node
  BY StackTyped
<1>2. SUFFICES ASSUME n \notin S PROVE FALSE
  OBVIOUS
<1> DEFINE Out == {j \in k + 1 .. Len(stack) : stack[j].node \notin S}
<1>3. k # Len(stack)
  BY <1>1, <1>2
<1>4. stack[Len(stack)].node \notin S
  BY <1>1, <1>2
<1>5. Len(stack) \in Out
  BY <1>1, <1>3, <1>4
<1>6. PICK j \in Out : \A i \in Out : j <= i
  <2>1. Out \in SUBSET Nat /\ Out # {}
    BY <1>1, <1>5
  <2> HIDE DEF Out
  <2> QED
    BY <2>1, LeastPosition
<1>7. j - 1 \in DOMAIN stack /\ j \in DOMAIN stack /\ j - 1 < Len(stack)
      /\ (j - 1) + 1 = j
  BY <1>1, <1>6
<1>8. HasEdge(stack[j - 1].node, stack[j].node)
  BY <1>7 DEF StackPath
<1>9. stack[j - 1].node = n \/ stack[j - 1].node \in S
  <2>1. CASE j - 1 = k
    BY <2>1
  <2>2. CASE j - 1 # k
    <3>1. j - 1 \in k + 1 .. Len(stack) /\ ~(j <= j - 1)
      BY <1>1, <1>6, <2>2
    <3> QED
      BY <1>6, <3>1
  <2> QED
    BY <2>1, <2>2
<1>10. stack[j].node \in S
  BY <1>1, <1>7, <1>8, <1>9
<1> QED
  BY <1>6, <1>10

-----------------------------------------------------------------------------
(* The top of the stack.                                                   *)

LEMMA TopTyped ==
  ASSUME DfsTypeOK, stack # << >>
  PROVE  /\ Len(stack) \in DOMAIN stack /\ Len(stack) >= 1
         /\ Top.node \in Node /\ Top.idx \in Nat \ {0}
  BY StackTyped, EmptySeq DEF Top

LEMMA ChildTyped ==
  ASSUME DfsTypeOK, stack # << >>, HasChild
  PROVE  /\ Top.idx \in DOMAIN Children(Top.node)
         /\ Child \in Node
         /\ HasEdge(Top.node, Child)
<1>1. Top.idx \in DOMAIN Children(Top.node)
  BY TopTyped, ChildrenTyped, LenProperties DEF HasChild
<1>2. Child \in Node
  BY <1>1, ChildrenTyped, ElementOfSeq, LenProperties DEF Child
<1> QED
  BY <1>1, <1>2 DEF HasEdge, Child

\* Advancing the top's index changes nothing else on the stack.
LEMMA AdvancedShape ==
  ASSUME DfsTypeOK, stack # << >>
  PROVE  /\ Advanced \in Seq(Frame)
         /\ Len(Advanced) = Len(stack) /\ DOMAIN Advanced = DOMAIN stack
         /\ \A k \in DOMAIN stack :
               /\ Advanced[k].node = stack[k].node
               /\ Advanced[k].idx = IF k = Len(stack) THEN stack[k].idx + 1
                                                      ELSE stack[k].idx
<1> DEFINE f == [node |-> Top.node, idx |-> Top.idx + 1]
<1>1. stack \in Seq(Frame) /\ Len(stack) \in DOMAIN stack
  BY StackTyped, TopTyped
<1>2. f \in Frame
  <2>1. Top.node \in Node /\ Top.idx + 1 \in Nat \ {0}
    BY TopTyped
  <2> QED
    BY <2>1 DEF Frame
<1>3. Advanced = [stack EXCEPT ![Len(stack)] = f]
  BY DEF Advanced
<1>4. /\ Advanced \in Seq(Frame) /\ Len(Advanced) = Len(stack)
      /\ \A k \in 1 .. Len(stack) :
            Advanced[k] = IF k = Len(stack) THEN f ELSE stack[k]
  BY <1>1, <1>2, <1>3, ExceptSeq, LenProperties
<1>5. DOMAIN Advanced = DOMAIN stack
  BY <1>1, <1>4, LenProperties
<1>6. \A k \in DOMAIN stack :
         /\ Advanced[k].node = stack[k].node
         /\ Advanced[k].idx = IF k = Len(stack) THEN stack[k].idx + 1
                                                ELSE stack[k].idx
  BY <1>1, <1>4, LenProperties DEF Top
<1> QED
  BY <1>4, <1>5, <1>6

\* When a node has no child left, all its successors are black.
LEMMA TopFinished ==
  ASSUME DfsTypeOK, SearchInv, stack # << >>, ~HasChild,
         NEW m \in Node, HasEdge(Top.node, m)
  PROVE  m \in Black
<1>1. PICK c \in DOMAIN Children(Top.node) : Children(Top.node)[c] = m
  BY DEF HasEdge
<1>2. c < Top.idx
  BY <1>1, TopTyped, ChildrenTyped, LenProperties DEF HasChild
<1>3. Len(stack) \in DOMAIN stack /\ ~(Len(stack) < Len(stack))
  BY TopTyped, StackTyped
<1> QED
  BY <1>1, <1>2, <1>3 DEF SearchInv, PassedChildren, Black, Top

-----------------------------------------------------------------------------
(* Every step keeps the invariant.                                         *)

LEMMA DfsInvInit == DfsInit => DfsInv
<1> SUFFICES ASSUME DfsInit PROVE DfsInv
  OBVIOUS
<1>1. DOMAIN adj \subseteq Node /\ \A n \in DOMAIN adj : adj[n] \in Seq(Node)
  BY DEF DfsInit
<1>2. All \subseteq Node
  BY <1>1, ElementOfSeq, LenProperties DEF All
<1>3. DfsTypeOK
  BY <1>1, <1>2, NodeAssumption DEF DfsInit, DfsStart, DfsTypeOK
<1>4. Black = {} /\ Gray = {} /\ OnStack = {}
  BY DEF DfsInit, DfsStart, Black, Gray, OnStack
<1>5. SearchInv
  BY <1>2, <1>4 DEF DfsInit, DfsStart, SearchInv, StackPath, PassedChildren,
                    BlackDone, NoneForgotten, Knot
<1> QED
  BY <1>3, <1>5 DEF DfsInit, DfsStart, DfsInv, AcceptsOnlyAcyclic,
                    RejectsOnlyCyclic

\* While the search goes on there is no verdict to be wrong about.
LEMMA StillSearching ==
  ASSUME DfsTypeOK', SearchInv', verdict' = "searching"
  PROVE  DfsInv'
  BY DEF DfsInv, AcceptsOnlyAcyclic, RejectsOnlyCyclic

LEMMA SkipStartInv ==
  ASSUME DfsInv, UNCHANGED adj, NEW n \in Node, SkipStart(n)
  PROVE  DfsInv'
<1> USE DEF SkipStart, Searching
<1>1. DfsTypeOK'
  BY DEF DfsInv, DfsTypeOK
<1>2. StackPath' /\ PassedChildren'
  BY SameGraph DEF DfsInv, SearchInv, StackPath, PassedChildren, Gray, OnStack
<1>3. BlackDone'
  BY SameGraph DEF DfsInv, SearchInv, BlackDone, Black
<1>4. NoneForgotten'
  BY SameGraph DEF DfsInv, SearchInv, NoneForgotten
<1> QED
  BY <1>1, <1>2, <1>3, <1>4, StillSearching DEF SearchInv

LEMMA EnterStartInv ==
  ASSUME DfsInv, UNCHANGED adj, NEW n \in Node, EnterStart(n)
  PROVE  DfsInv'
<1> USE DEF EnterStart, Searching
<1>1. DfsTypeOK'
  BY DEF DfsInv, DfsTypeOK
<1>2. /\ Black' = Black /\ Gray' = Gray \cup {n}
      /\ Len(stack') = 1 /\ DOMAIN stack' = {1}
      /\ stack'[1].node = n /\ stack'[1].idx = 1
  BY DEF DfsInv, DfsTypeOK, Black, Gray
<1>3. Gray = {}
  BY DEF DfsInv, SearchInv, StackPath, OnStack
<1>4. StackPath'
  BY <1>2, <1>3 DEF StackPath, OnStack
<1>5. PassedChildren'
  <2>1. \A c \in DOMAIN Children(n) : ~(c < 1)
    BY ChildrenTyped, LenProperties DEF DfsInv
  <2> QED
    BY <1>2, <2>1, SameGraph DEF PassedChildren
<1>6. BlackDone'
  BY <1>2, SameGraph DEF DfsInv, SearchInv, BlackDone
<1>7. NoneForgotten'
  <2>1. All \subseteq Node
    BY ElementOfSeq, LenProperties DEF DfsInv, DfsTypeOK, All
  <2> QED
    BY <2>1, SameGraph DEF DfsInv, SearchInv, NoneForgotten, DfsTypeOK
<1> QED
  BY <1>1, <1>4, <1>5, <1>6, <1>7, StillSearching DEF SearchInv

LEMMA PassBlackInv ==
  ASSUME DfsInv, UNCHANGED adj, PassBlack
  PROVE  DfsInv'
<1> USE DEF PassBlack, Searching
<1>1. DfsTypeOK /\ SearchInv
  BY DEF DfsInv
<1>2. DfsTypeOK'
  BY <1>1, AdvancedShape DEF DfsTypeOK, Frame
<1>3. StackPath'
  BY <1>1, AdvancedShape, StackTyped, SameGraph
     DEF SearchInv, StackPath, Gray, OnStack
<1>4. PassedChildren'
  <2> SUFFICES ASSUME NEW k \in DOMAIN stack,
                      NEW c \in DOMAIN Children(stack[k].node),
                      c < Advanced[k].idx
               PROVE  \/ color[Children(stack[k].node)[c]] = "black"
                      \/ /\ k < Len(stack)
                         /\ Children(stack[k].node)[c] = stack[k + 1].node
    BY <1>1, AdvancedShape, StackTyped, SameGraph DEF PassedChildren
  <2>1. CASE c < stack[k].idx
    BY <1>1, <2>1 DEF SearchInv, PassedChildren
  <2>2. CASE ~(c < stack[k].idx)
    <3>1. c \in Nat /\ stack[k].idx \in Nat
      BY <1>1, StackTyped, ChildrenTyped, LenProperties
    <3>2. k = Len(stack) /\ c = Top.idx
      BY <1>1, <2>2, <3>1, AdvancedShape DEF Top
    <3> QED
      BY <3>2 DEF Child, Top
  <2> QED
    BY <2>1, <2>2
<1>5. BlackDone' /\ NoneForgotten'
  BY <1>1, SameGraph DEF SearchInv, BlackDone, NoneForgotten, Black
<1> QED
  BY <1>2, <1>3, <1>4, <1>5, StillSearching DEF SearchInv

\* Entering a white child: it goes on top of the stack, below it nothing moves.
LEMMA DescendInv ==
  ASSUME DfsInv, UNCHANGED adj, Descend
  PROVE  DfsInv'
<1> DEFINE L == Len(stack)
           entry == [node |-> Child, idx |-> 1]
<1>1. /\ DfsTypeOK /\ SearchInv /\ stack # << >> /\ HasChild
      /\ color[Child] = "white" /\ color' = [color EXCEPT ![Child] = "gray"]
      /\ stack' = Append(Advanced, entry)
      /\ UNCHANGED <<todo, verdict, culprit>> /\ verdict = "searching"
  BY DEF DfsInv, Descend, Searching
<1>2. Child \in Node /\ HasEdge(Top.node, Child)
      /\ Top.idx \in DOMAIN Children(Top.node)
  BY <1>1, ChildTyped
<1>3. L \in Nat /\ L >= 1 /\ DOMAIN stack = 1 .. L /\ L \in DOMAIN stack
  BY <1>1, StackTyped, TopTyped
<1>4. entry \in Frame
  BY <1>2 DEF Frame
<1>5. /\ stack' \in Seq(Frame) /\ Len(stack') = L + 1
      /\ DOMAIN stack' = 1 .. L + 1
      /\ \A k \in 1 .. L : stack'[k] = Advanced[k]
      /\ stack'[L + 1] = entry
  BY <1>1, <1>3, <1>4, AdvancedShape, AppendProperties, LenProperties
<1>6. \A k \in 1 .. L :
         /\ stack'[k].node = stack[k].node
         /\ stack'[k].idx = IF k = L THEN stack[k].idx + 1 ELSE stack[k].idx
  BY <1>1, <1>3, <1>5, AdvancedShape
<1>7. stack'[L + 1].node = Child /\ stack'[L + 1].idx = 1
  BY <1>5
<1> HIDE DEF L, entry
<1>8. DfsTypeOK'
  BY <1>1, <1>2, <1>5 DEF DfsTypeOK, Frame
<1>9. Black' = Black /\ Gray' = Gray \cup {Child} /\ Child \notin Gray
  BY <1>1, <1>2 DEF DfsTypeOK, Black, Gray
<1>10. StackPath'
  <2>1. /\ Gray = OnStack
        /\ \A j, k \in 1 .. L : stack[j].node = stack[k].node => j = k
        /\ \A k \in 1 .. L :
              k < L => HasEdge(stack[k].node, stack[k + 1].node)
    BY <1>1, <1>3 DEF SearchInv, StackPath, L
  <2>2. OnStack' = OnStack \cup {Child}
    BY <1>3, <1>5, <1>6, <1>7 DEF OnStack
  <2>3. \A k \in 1 .. L : stack[k].node # Child
    BY <1>3, <1>9, <2>1 DEF OnStack
  <2>4. \A j, k \in 1 .. L + 1 : stack'[j].node = stack'[k].node => j = k
    <3>1. \A j \in 1 .. L + 1 : j \in 1 .. L \/ j = L + 1
      BY <1>3
    <3>2. \A j \in 1 .. L : stack'[j].node # stack'[L + 1].node
      BY <1>6, <1>7, <2>3
    <3>3. \A j, k \in 1 .. L : stack'[j].node = stack'[k].node => j = k
      BY <1>6, <2>1
    <3> QED
      BY <3>1, <3>2, <3>3
  <2>5. ASSUME NEW k \in 1 .. L
        PROVE  HasEdge(stack'[k].node, stack'[k + 1].node)
    <3>1. CASE k = L
      BY <1>2, <1>3, <1>6, <1>7, <3>1 DEF Top, L
    <3>2. CASE k < L
      BY <1>3, <1>6, <2>1, <3>2
    <3> QED
      BY <1>3, <3>1, <3>2
  <2> QED
    BY <1>3, <1>5, <1>9, <2>1, <2>2, <2>4, <2>5, SameGraph DEF StackPath
<1>11. PassedChildren'
  <2> SUFFICES ASSUME NEW k \in 1 .. L + 1,
                      NEW c \in DOMAIN Children(stack'[k].node),
                      c < stack'[k].idx
               PROVE  \/ color'[Children(stack'[k].node)[c]] = "black"
                      \/ /\ k < L + 1
                         /\ Children(stack'[k].node)[c] = stack'[k + 1].node
    BY <1>5, SameGraph DEF PassedChildren
  <2>1. c \in Nat \ {0} /\ Children(stack'[k].node)[c] \in Node
    BY <1>1, ChildAt
  <2>2. CASE k = L + 1
    BY <1>7, <2>1, <2>2
  <2>3. CASE k \in 1 .. L /\ c < stack[k].idx
    <3>1. \/ color[Children(stack[k].node)[c]] = "black"
          \/ k < L /\ Children(stack[k].node)[c] = stack[k + 1].node
      BY <1>1, <1>3, <1>6, <2>3 DEF SearchInv, PassedChildren, L
    <3>2. \A n \in Node : color[n] = "black" => color'[n] = "black"
      BY <1>1, <1>2 DEF DfsTypeOK
    <3> QED
      BY <1>3, <1>6, <2>1, <2>3, <3>1, <3>2
  <2>4. CASE k \in 1 .. L /\ ~(c < stack[k].idx)
    <3>1. stack[k].idx \in Nat
      BY <1>1, <1>3, <2>4, StackTyped
    <3>2. c < (IF k = L THEN stack[k].idx + 1 ELSE stack[k].idx)
      BY <1>6, <2>4
    <3>3. k = L /\ c = stack[k].idx
      BY <2>1, <2>4, <3>1, <3>2
    <3>4. stack'[k].node = Top.node /\ c = Top.idx
      BY <1>3, <1>6, <3>3 DEF Top, L
    <3>5. Children(stack'[k].node)[c] = Child
      BY <3>4 DEF Child
    <3> QED
      BY <1>3, <1>7, <3>3, <3>5
  <2> QED
    BY <1>3, <2>2, <2>3, <2>4
<1>12. BlackDone'
  BY <1>1, <1>9, SameGraph DEF SearchInv, BlackDone
<1>13. NoneForgotten'
  <2>1. All \subseteq Node
    BY <1>1, ElementOfSeq, LenProperties DEF DfsTypeOK, All
  <2> QED
    BY <1>1, <2>1, SameGraph DEF SearchInv, NoneForgotten, DfsTypeOK
<1> QED
  BY <1>1, <1>8, <1>10, <1>11, <1>12, <1>13, StillSearching DEF SearchInv

\* Leaving a finished node: it turns black, and closes no cycle.
LEMMA RetreatInv ==
  ASSUME DfsInv, UNCHANGED adj, Retreat
  PROVE  DfsInv'
<1> DEFINE L == Len(stack)
           n == Top.node
<1>1. /\ DfsTypeOK /\ SearchInv /\ stack # << >> /\ ~HasChild
      /\ color' = [color EXCEPT ![n] = "black"]
      /\ stack' = SubSeq(stack, 1, L - 1)
      /\ UNCHANGED <<todo, verdict, culprit>> /\ verdict = "searching"
  BY DEF DfsInv, Retreat, Searching
<1>2. /\ L \in Nat /\ L >= 1 /\ DOMAIN stack = 1 .. L /\ L \in DOMAIN stack
      /\ n \in Node /\ n = stack[L].node
  BY <1>1, StackTyped, TopTyped DEF Top
<1>3. /\ stack' \in Seq(Frame) /\ Len(stack') = L - 1
      /\ DOMAIN stack' = 1 .. L - 1
      /\ \A k \in 1 .. L - 1 : stack'[k] = stack[k]
  <2>1. stack \in Seq(Frame)
    BY <1>1, StackTyped
  <2> QED
    BY <1>1, <1>2, <2>1
<1> HIDE DEF L, n
<1>4. DfsTypeOK'
  BY <1>1, <1>2, <1>3 DEF DfsTypeOK, Frame
<1>5. /\ Gray = OnStack
      /\ \A j, k \in 1 .. L : stack[j].node = stack[k].node => j = k
      /\ \A k \in 1 .. L : k < L => HasEdge(stack[k].node, stack[k + 1].node)
  BY <1>1, <1>2 DEF SearchInv, StackPath, L
<1>6. n \in Gray /\ n \notin Black
  BY <1>2, <1>5 DEF OnStack, Gray, Black
<1>7. Black' = Black \cup {n} /\ Gray' = Gray \ {n}
  BY <1>1, <1>2 DEF DfsTypeOK, Black, Gray
<1>8. StackPath'
  <2>1. OnStack' = OnStack \ {n}
    BY <1>2, <1>3, <1>5 DEF OnStack
  <2> QED
    BY <1>2, <1>3, <1>5, <1>7, <2>1, SameGraph DEF StackPath
<1>9. \A m \in Node : HasEdge(n, m) => m \in Black
  BY <1>1, TopFinished DEF n
<1>10. BlackDone'
  <2>1. \A S \in SUBSET (Black \cup {n}) : ~Knot(S)
    BY <1>1, <1>2, <1>6, <1>9, FinishingAddsNoKnot DEF SearchInv
  <2>2. \A k \in Black \cup {n} : \A m \in Node :
           HasEdge(k, m) => m \in Black \cup {n}
    BY <1>1, <1>9 DEF SearchInv, BlackDone
  <2> QED
    BY <1>7, <2>1, <2>2, SameGraph DEF BlackDone
<1>11. PassedChildren'
  <2> SUFFICES ASSUME NEW k \in 1 .. L - 1,
                      NEW c \in DOMAIN Children(stack[k].node),
                      c < stack[k].idx
               PROVE  \/ color'[Children(stack[k].node)[c]] = "black"
                      \/ /\ k < L - 1
                         /\ Children(stack[k].node)[c] = stack[k + 1].node
    BY <1>2, <1>3, SameGraph DEF PassedChildren
  <2>1. Children(stack[k].node)[c] \in Node
    BY <1>1, ChildrenTyped, LenProperties, ElementOfSeq
  <2>2. \/ color[Children(stack[k].node)[c]] = "black"
        \/ k < L /\ Children(stack[k].node)[c] = stack[k + 1].node
    BY <1>1, <1>2, SMTT(30) DEF SearchInv, PassedChildren, L
  <2>3. CASE color[Children(stack[k].node)[c]] = "black"
    BY <1>1, <1>2, <2>1, <2>3 DEF DfsTypeOK
  <2>4. CASE k < L /\ Children(stack[k].node)[c] = stack[k + 1].node
    <3>1. CASE k = L - 1
      BY <1>1, <1>2, <2>4, <3>1 DEF DfsTypeOK
    <3>2. CASE k < L - 1
      BY <2>4, <3>2
    <3> QED
      BY <1>2, <3>1, <3>2
  <2> QED
    BY <2>2, <2>3, <2>4
<1>12. NoneForgotten'
  <2>1. All \subseteq Node
    BY <1>1, ElementOfSeq, LenProperties DEF DfsTypeOK, All
  <2> QED
    BY <1>1, <1>2, <2>1, SameGraph DEF SearchInv, NoneForgotten, DfsTypeOK
<1> QED
  BY <1>1, <1>4, <1>8, <1>10, <1>11, <1>12, StillSearching DEF SearchInv

\* A gray child is an ancestor of the top: the named node lies on a cycle.
LEMMA BackEdgeInv ==
  ASSUME DfsInv, UNCHANGED adj, BackEdge
  PROVE  DfsInv'
<1>1. /\ DfsTypeOK /\ SearchInv /\ stack # << >> /\ HasChild
      /\ color[Child] = "gray" /\ culprit' = Child /\ verdict' = "cycle"
      /\ stack' = Advanced /\ UNCHANGED <<color, todo>>
  BY DEF DfsInv, BackEdge, Searching
<1>2. Child \in Node /\ HasEdge(Top.node, Child)
  BY <1>1, ChildTyped
<1>3. PICK k \in DOMAIN stack : stack[k].node = Child
  BY <1>1, <1>2 DEF SearchInv, StackPath, Gray, OnStack
<1>4. OnCycle(Child)
  BY <1>1, <1>2, <1>3, BackEdgeClosesCycle DEF SearchInv, Top
<1>5. DfsTypeOK'
  BY <1>1, <1>2, AdvancedShape DEF DfsTypeOK, Frame
<1>6. AcceptsOnlyAcyclic' /\ RejectsOnlyCyclic'
  BY <1>1, <1>4, SameGraph DEF AcceptsOnlyAcyclic, RejectsOnlyCyclic
<1> QED
  BY <1>1, <1>5, <1>6 DEF DfsInv, Searching

\* At the end every node of the graph is black, so no set of them is a knot.
LEMMA FinishInv ==
  ASSUME DfsInv, UNCHANGED adj, Finish
  PROVE  DfsInv'
<1>1. /\ DfsTypeOK /\ SearchInv /\ stack = << >> /\ todo = {}
      /\ verdict' = "acyclic" /\ UNCHANGED <<color, stack, todo, culprit>>
  BY DEF DfsInv, Finish, Searching
<1>2. Gray = {}
  BY <1>1 DEF SearchInv, StackPath, OnStack
<1>3. \A n \in Node : n \in All => n \in Black
  BY <1>1, <1>2 DEF SearchInv, NoneForgotten, DfsTypeOK, Gray, Black
<1>4. ~Cyclic
  <2> SUFFICES ASSUME NEW S \in SUBSET Node, Knot(S) PROVE FALSE
    BY DEF Cyclic
  <2>1. S \subseteq Black
    BY <1>1, <1>3, EdgesInNode DEF Knot
  <2> QED
    BY <1>1, <2>1 DEF SearchInv, BlackDone
<1>5. DfsTypeOK'
  BY <1>1 DEF DfsTypeOK
<1> QED
  BY <1>1, <1>4, <1>5, SameGraph
     DEF DfsInv, Searching, AcceptsOnlyAcyclic, RejectsOnlyCyclic

LEMMA DfsInvStep == DfsInv /\ [DfsNext]_<<adj, dfsVars>> => DfsInv'
<1> SUFFICES ASSUME DfsInv, [DfsNext]_<<adj, dfsVars>> PROVE DfsInv'
  OBVIOUS
<1>1. CASE DfsNext
  BY <1>1, SkipStartInv, EnterStartInv, BackEdgeInv, DescendInv, PassBlackInv,
     RetreatInv, FinishInv DEF DfsNext, DfsStep
<1>2. CASE UNCHANGED <<adj, dfsVars>>
  <2>1. UNCHANGED adj /\ UNCHANGED <<color, stack, todo, verdict, culprit>>
    BY <1>2 DEF dfsVars
  <2>2. DfsTypeOK'
    BY <2>1 DEF DfsInv, DfsTypeOK
  <2>3. Searching' => SearchInv'
    BY <2>1, SameGraph DEF DfsInv, Searching, SearchInv, StackPath, Gray,
       OnStack, PassedChildren, BlackDone, Black, NoneForgotten
  <2>4. AcceptsOnlyAcyclic' /\ RejectsOnlyCyclic'
    BY <2>1, SameGraph DEF DfsInv, AcceptsOnlyAcyclic, RejectsOnlyCyclic
  <2> QED
    BY <2>2, <2>3, <2>4 DEF DfsInv
<1> QED
  BY <1>1, <1>2

-----------------------------------------------------------------------------
(* Theorems.                                                               *)

\* The search's variables always have their types.
THEOREM DfsTypeCorrect == DfsSpec => []DfsTypeOK
<1>1. DfsInv => DfsTypeOK
  BY DEF DfsInv
<1> QED
  BY DfsInvInit, DfsInvStep, <1>1, PTL DEF DfsSpec

\* The stack is a path and holds exactly the gray nodes.
THEOREM DfsGrayIsOnStack == DfsSpec => []GrayIsOnStack
<1>1. DfsInv => GrayIsOnStack
  <2> SUFFICES ASSUME DfsInv, Searching PROVE Gray = OnStack
                 /\ \A k \in 1 .. Len(stack) - 1 :
                       HasEdge(stack[k].node, stack[k + 1].node)
    BY DEF GrayIsOnStack, Gray, OnStack
  <2>1. /\ Gray = OnStack
        /\ \A k \in DOMAIN stack :
              k < Len(stack) => HasEdge(stack[k].node, stack[k + 1].node)
    BY DEF DfsInv, SearchInv, StackPath
  <2>2. \A k \in 1 .. Len(stack) - 1 : k \in DOMAIN stack /\ k < Len(stack)
    BY StackTyped DEF DfsInv
  <2> QED
    BY <2>1, <2>2
<1> QED
  BY DfsInvInit, DfsInvStep, <1>1, PTL DEF DfsSpec

\* detect_cycle returns Ok only on acyclic graphs.
THEOREM DfsAcceptsOnlyAcyclic == DfsSpec => []AcceptsOnlyAcyclic
<1>1. DfsInv => AcceptsOnlyAcyclic
  BY DEF DfsInv
<1> QED
  BY DfsInvInit, DfsInvStep, <1>1, PTL DEF DfsSpec

\* detect_cycle returns Err only with a node that lies on a cycle.
THEOREM DfsRejectsOnlyCyclic == DfsSpec => []RejectsOnlyCyclic
<1>1. DfsInv => RejectsOnlyCyclic
  BY DEF DfsInv
<1> QED
  BY DfsInvInit, DfsInvStep, <1>1, PTL DEF DfsSpec

-----------------------------------------------------------------------------
(* The loader.                                                             *)

Checked == {"searching", "accepted", "linted", "DependencyCycle"}
Edge == [from : Node, to : Node, wcet : Nat]

\* What has been established when the program is at a point.
LoadInv ==
    /\ cfg \in Configs
    /\ outcome \in {"loading"} \cup Checked \cup Errors
    /\ outcome = "loading" =>
          /\ color = [n \in Node |-> "white"] /\ stack = << >>
          /\ culprit = CHOOSE n \in Node : TRUE
    /\ outcome \notin Checked => verdict = "searching"
    /\ outcome \in Checked => FirstError(cfg) = "none" /\ adj = Adj /\ DfsInv
    /\ Built => verdict = "acyclic"
    /\ outcome = "DependencyCycle" => verdict = "cycle"
    /\ outcome \in Errors \ Checked => outcome = FirstError(cfg)
    /\ outcome = "linted" => warnings = LintWarnings(cfg)

-----------------------------------------------------------------------------
(* The graph of the manifest.                                              *)

LEMMA ConfigTyped ==
  ASSUME NEW c \in Configs
  PROVE  /\ c.trip_node \in Node /\ DOMAIN c.nodes \subseteq Nat
         /\ c.edges \in Seq(Edge)
         /\ DOMAIN c.edges = 1 .. Len(c.edges) /\ Len(c.edges) \in Nat
         /\ \A k \in DOMAIN c.edges : c.edges[k] \in Edge
         /\ \A e \in EdgesOf(c) : e.from \in Node /\ e.to \in Node /\ e.wcet \in Nat
<1>1. /\ c.trip_node \in Node /\ DOMAIN c.nodes \subseteq Nat
      /\ c.edges \in Seq(Edge)
  BY ConfigsAssumption DEF Edge
<1>2. /\ DOMAIN c.edges = 1 .. Len(c.edges) /\ Len(c.edges) \in Nat
      /\ \A k \in DOMAIN c.edges : c.edges[k] \in Edge
  BY <1>1
<1>3. \A e \in EdgesOf(c) : e.from \in Node /\ e.to \in Node /\ e.wcet \in Nat
  BY <1>2 DEF EdgesOf, Edge
<1> QED
  BY <1>1, <1>2, <1>3

\* The children of a node are where its edges end.
LEMMA AdjHolds ==
  ASSUME cfg \in Configs
  PROVE  /\ DOMAIN Adj \subseteq Node
         /\ \A n \in DOMAIN Adj :
               /\ Adj[n] \in Seq(Node)
               /\ \A m : (\E k \in DOMAIN Adj[n] : Adj[n][k] = m)
                            <=> \E e \in EdgesOf(cfg) : e.from = n /\ e.to = m
         /\ \A e \in EdgesOf(cfg) : e.from \in DOMAIN Adj
<1> DEFINE es == cfg.edges
           L  == Len(es)
           tos == [k \in DOMAIN es |-> es[k].to]
           froms(n) == {k \in DOMAIN es : es[k].from = n}
<1>1. /\ DOMAIN es = 1 .. L /\ L \in Nat
      /\ \A k \in DOMAIN es : es[k] \in Edge
  BY ConfigTyped
<1>2. tos \in Seq(Node) /\ DOMAIN tos = DOMAIN es
      /\ \A k \in DOMAIN es : tos[k] = es[k].to
  <2>1. \A k \in 1 .. L : es[k].to \in Node
    BY <1>1 DEF Edge
  <2>2. tos \in [1 .. L -> Node]
    BY <1>1, <2>1
  <2> QED
    BY <1>1, <2>2
<1> HIDE DEF tos
<1>3. DOMAIN Adj = {es[k].from : k \in DOMAIN es}
  BY DEF Adj
<1>4. \A n \in DOMAIN Adj : Adj[n] = Grouped(tos, froms(n))
  BY DEF Adj, tos
<1>5. DOMAIN Adj \subseteq Node
  BY <1>1, <1>3 DEF Edge
<1>6. ASSUME NEW n \in DOMAIN Adj
      PROVE  /\ Adj[n] \in Seq(Node)
             /\ \A m : (\E k \in DOMAIN Adj[n] : Adj[n][k] = m)
                          <=> \E e \in EdgesOf(cfg) : e.from = n /\ e.to = m
  <2> DEFINE list == Adj[n]
  <2>1. /\ list \in Seq(Node)
        /\ {list[k] : k \in DOMAIN list} = {tos[k] : k \in froms(n) \cap DOMAIN tos}
    <3>1. list = Grouped(tos, froms(n))
      BY <1>4
    <3> HIDE DEF list, froms
    <3> QED
      BY <1>2, <3>1, GroupedTyped
  <2>2. {tos[k] : k \in froms(n) \cap DOMAIN tos}
           = {e.to : e \in {d \in EdgesOf(cfg) : d.from = n}}
    BY <1>2 DEF EdgesOf
  <2> HIDE DEF list
  <2>3. \A m : (\E k \in DOMAIN list : list[k] = m)
                  <=> m \in {list[k] : k \in DOMAIN list}
    OBVIOUS
  <2>4. \A m : m \in {e.to : e \in {d \in EdgesOf(cfg) : d.from = n}}
                  <=> \E e \in EdgesOf(cfg) : e.from = n /\ e.to = m
    OBVIOUS
  <2>5. \A m : (\E k \in DOMAIN list : list[k] = m)
                  <=> \E e \in EdgesOf(cfg) : e.from = n /\ e.to = m
    BY <2>1, <2>2, <2>3, <2>4
  <2> QED
    BY <2>1, <2>5 DEF list
<1>7. \A e \in EdgesOf(cfg) : e.from \in DOMAIN Adj
  BY <1>3 DEF EdgesOf
<1> QED
  BY <1>5, <1>6, <1>7

LEMMA GraphIsManifest ==
  ASSUME cfg \in Configs, adj = Adj, NEW n, NEW m
  PROVE  HasEdge(n, m) <=> \E e \in EdgesOf(cfg) : e.from = n /\ e.to = m
<1>1. CASE n \in DOMAIN adj
  <2>1. Children(n) = Adj[n] /\ n \in DOMAIN Adj
    BY <1>1 DEF Children
  <2>2. (\E k \in DOMAIN Adj[n] : Adj[n][k] = m)
           <=> \E e \in EdgesOf(cfg) : e.from = n /\ e.to = m
    BY <2>1, AdjHolds
  <2> QED
    BY <2>1, <2>2 DEF HasEdge
<1>2. CASE n \notin DOMAIN adj
  <2>1. Children(n) = << >>
    BY <1>2 DEF Children
  <2>2. ~HasEdge(n, m)
    BY <2>1 DEF HasEdge
  <2>3. \A e \in EdgesOf(cfg) : e.from # n
    BY <1>2, AdjHolds
  <2> QED
    BY <2>2, <2>3
<1> QED
  BY <1>1, <1>2

\* Valid's words for the absence of a cycle.
NoCycle(c) == \A S \in (SUBSET Node) \ {{}} :
                 \E n \in S : \A e \in EdgesOf(c) : e.from = n => e.to \notin S

LEMMA CyclicIsNotValid ==
  ASSUME cfg \in Configs, adj = Adj
  PROVE  Cyclic <=> ~NoCycle(cfg)
<1>1. \A S \in SUBSET Node :
         Knot(S) <=> /\ S # {}
                     /\ \A n \in S : \E e \in EdgesOf(cfg) : e.from = n /\ e.to \in S
  BY GraphIsManifest DEF Knot
<1>2. NoCycle(cfg)
         <=> \A S \in SUBSET Node : S = {} \/
                \E n \in S : \A e \in EdgesOf(cfg) : e.from = n => e.to \notin S
  BY DEF NoCycle
<1>3. \A S \in SUBSET Node :
         Knot(S) <=> ~(S = {} \/
                \E n \in S : \A e \in EdgesOf(cfg) : e.from = n => e.to \notin S)
  BY <1>1
<1> QED
  BY <1>2, <1>3 DEF Cyclic

\* A node on a cycle makes the graph cyclic: the nodes from which it is reached
\* by at least one edge all have a successor among themselves.
LEMMA OnCycleIsCyclic ==
  ASSUME NEW n \in Node, OnCycle(n)
  PROVE  Cyclic
<1> DEFINE Closed(S) == \A k \in S, m \in Node : HasEdge(k, m) => m \in S
           Beyond(k, S) == \A m \in Node : HasEdge(k, m) => m \in S
           K == {k \in Node : \A S \in SUBSET Node :
                                 Beyond(k, S) /\ Closed(S) => n \in S}
<1>1. n \in K
  BY DEF OnCycle
<1>2. Closed(Node \ K)
  <2> SUFFICES ASSUME NEW j \in Node, j \notin K, NEW m \in Node, HasEdge(j, m)
               PROVE  m \notin K
    OBVIOUS
  <2>1. PICK S \in SUBSET Node : Beyond(j, S) /\ Closed(S) /\ n \notin S
    OBVIOUS
  <2>2. m \in S /\ Beyond(m, S)
    BY <2>1
  <2> QED
    BY <2>1, <2>2
<1>3. \A k \in K : \E m \in K : HasEdge(k, m)
  <2> SUFFICES ASSUME NEW k \in K, \A m \in K : ~HasEdge(k, m)  PROVE FALSE
    OBVIOUS
  <2>1. Beyond(k, Node \ K)
    OBVIOUS
  <2>2. n \in Node \ K
    <3>1. Node \ K \in SUBSET Node
      OBVIOUS
    <3>2. \A S \in SUBSET Node : Beyond(k, S) /\ Closed(S) => n \in S
      OBVIOUS
    <3> HIDE DEF K, Beyond, Closed
    <3> QED
      BY <1>2, <2>1, <3>1, <3>2
  <2> QED
    BY <1>1, <2>2
<1>4. K \in SUBSET Node
  OBVIOUS
<1> HIDE DEF K
<1> QED
  BY <1>1, <1>3, <1>4 DEF Knot, Cyclic

-----------------------------------------------------------------------------
(* The checks before the search.                                           *)

StaticErrors == Errors \ {"DependencyCycle"}

\* Some edge is bad exactly if the loop over the edges returns an error.
LEMMA FirstEdgeErrorFinds ==
  ASSUME NEW c \in Configs
  PROVE  /\ FirstEdgeError(c) \in {"none", "DanglingNode", "BadBudget"}
         /\ FirstEdgeError(c) = "none"
               <=> \A k \in DOMAIN c.edges : EdgeError(c, c.edges[k]) = "none"
<1> DEFINE bad == {k \in DOMAIN c.edges : EdgeError(c, c.edges[k]) # "none"}
           first == CHOOSE k \in bad : \A j \in bad : k <= j
<1>1. CASE bad = {}
  BY <1>1 DEF FirstEdgeError
<1>2. CASE bad # {}
  <2>1. bad \in SUBSET Nat
    BY ConfigTyped
  <2>2. \E k \in bad : \A j \in bad : k <= j
    <3> HIDE DEF bad
    <3> QED
      BY <1>2, <2>1, LeastPosition
  <2>3. first \in bad
    <3> HIDE DEF bad
    <3> QED
      BY <2>2
  <2>4. FirstEdgeError(c) = EdgeError(c, c.edges[first])
    BY <1>2 DEF FirstEdgeError
  <2>5. EdgeError(c, c.edges[first]) # "none" /\ first \in DOMAIN c.edges
    <3> HIDE DEF first
    <3> QED
      BY <2>3
  <2>6. \A e : EdgeError(c, e) \in {"none", "DanglingNode", "BadBudget"}
    BY DEF EdgeError
  <2> HIDE DEF first, bad
  <2> QED
    BY <2>4, <2>5, <2>6
<1> QED
  BY <1>1, <1>2

LEMMA FirstErrorRange ==
  ASSUME NEW c \in Configs
  PROVE  FirstError(c) \in {"none"} \cup StaticErrors
  BY FirstEdgeErrorFinds DEF FirstError, StaticErrors, Errors

\* The checks find nothing exactly on manifests that are valid but for cycles.
LEMMA ChecksAreValidity ==
  ASSUME NEW c \in Configs
  PROVE  Valid(c) <=> FirstError(c) = "none" /\ NoCycle(c)
<1>1. (\A j, k \in DOMAIN c.nodes : c.nodes[j].id = c.nodes[k].id => j = k)
         <=> ~DuplicateNode(c)
  <2>1. \A j, k \in DOMAIN c.nodes : j = k \/ j < k \/ k < j
    BY ConfigTyped
  <2>2. \A j \in DOMAIN c.nodes : ~(j < j)
    BY ConfigTyped
  <2> QED
    BY <2>1, <2>2, Zenon DEF DuplicateNode
<1>2. ASSUME ~DuplicateNode(c)
      PROVE  (\E k \in DOMAIN c.nodes : /\ c.nodes[k].id = c.trip_node
                                        /\ c.nodes[k].matcher.kind = "profinet")
                <=> /\ c.trip_node \in Ids(c)
                    /\ MatcherOf(c, c.trip_node).kind = "profinet"
  <2> DEFINE k0 == CHOOSE k \in DOMAIN c.nodes : c.nodes[k].id = c.trip_node
  <2>1. c.trip_node \in Ids(c)
           => k0 \in DOMAIN c.nodes /\ c.nodes[k0].id = c.trip_node
    BY DEF Ids
  <2>2. \A k \in DOMAIN c.nodes : c.nodes[k].id = c.trip_node
           => c.trip_node \in Ids(c) /\ k = k0
    BY <1>1, <1>2, <2>1 DEF Ids
  <2>3. MatcherOf(c, c.trip_node) = c.nodes[k0].matcher
    BY DEF MatcherOf
  <2> HIDE DEF k0
  <2> QED
    BY <2>1, <2>2, <2>3
<1>3. (\A e \in EdgesOf(c) : /\ {e.from, e.to} \subseteq Ids(c)
                             /\ e.wcet \in 1 .. MaxSaneWcet)
         <=> FirstEdgeError(c) = "none"
  <2>1. \A e \in EdgesOf(c) :
           EdgeError(c, e) = "none" <=> /\ {e.from, e.to} \subseteq Ids(c)
                                        /\ e.wcet \in 1 .. MaxSaneWcet
    BY ConfigTyped, BudgetAssumption DEF EdgeError
  <2>2. (\A k \in DOMAIN c.edges : EdgeError(c, c.edges[k]) = "none")
           <=> \A e \in EdgesOf(c) : EdgeError(c, e) = "none"
    BY DEF EdgesOf
  <2> QED
    BY <2>1, <2>2, FirstEdgeErrorFinds
<1>4. FirstError(c) = "none" <=>
         /\ c.nodes # << >>
         /\ ~DuplicateNode(c)
         /\ c.trip_node \in Ids(c)
         /\ MatcherOf(c, c.trip_node).kind = "profinet"
         /\ FirstEdgeError(c) = "none"
  BY DEF FirstError
<1> QED
  BY <1>1, <1>2, <1>3, <1>4 DEF Valid, NoCycle

-----------------------------------------------------------------------------
(* Every step keeps the invariant.                                         *)

\* The search starts where the cycle search's specification starts.
LEMMA DfsInvStart == DfsInit' => DfsInv'
  BY DfsInvInit, PTL

LEMMA LoadInvInit == Init => LoadInv
  BY DEF Init, DfsStart, LoadInv, Checked, Errors, Built

LEMMA SearchLoads ==
  ASSUME LoadInv, Search
  PROVE  LoadInv'
<1>1. /\ cfg \in Configs /\ cfg' = cfg /\ adj' = Adj /\ verdict = "searching"
      /\ FirstError(cfg) = "none" /\ outcome' = "searching"
  BY DEF LoadInv, Search, Checked
<1>2. DfsInit'
  <2>1. DfsStart'
    BY DEF LoadInv, Search, DfsStart, Checked
  <2>2. adj' \in [DOMAIN adj' -> Seq(Node)] /\ DOMAIN adj' \in SUBSET Node
    <3>1. DOMAIN Adj \subseteq Node /\ \A n \in DOMAIN Adj : Adj[n] \in Seq(Node)
      BY <1>1, AdjHolds
    <3>2. Adj = [n \in DOMAIN Adj |-> Adj[n]]
      BY DEF Adj
    <3> QED
      BY <1>1, <3>1, <3>2
  <2> QED
    BY <2>1, <2>2 DEF DfsInit
<1>3. DfsInv'
  BY <1>2, DfsInvStart
<1>4. Adj' = Adj /\ FirstError(cfg)' = "none"
  BY <1>1 DEF Adj
<1> QED
  BY <1>1, <1>3, <1>4 DEF LoadInv, Search, Checked, Errors, Built

LEMMA LoadInvStep == LoadInv /\ [Next]_vars => LoadInv'
<1> SUFFICES ASSUME LoadInv, [Next]_vars  PROVE LoadInv'
  OBVIOUS
<1>1. cfg' = cfg /\ cfg \in Configs
  BY DEF LoadInv, Next, Reject, Search, DetectCycle, RejectCycle, Accept, Lint, vars
<1>2. Adj' = Adj /\ FirstError(cfg)' = FirstError(cfg)
      /\ LintWarnings(cfg)' = LintWarnings(cfg)
  BY <1>1 DEF Adj
<1>3. UNCHANGED <<adj, dfsVars>> /\ DfsInv => DfsInv'
  BY DfsInvStep
<1>4. UNCHANGED <<adj, dfsVars>> =>
         /\ adj' = adj /\ color' = color /\ stack' = stack
         /\ verdict' = verdict /\ culprit' = culprit
  BY DEF dfsVars
<1>5. CASE Reject
  <2>1. /\ outcome' = FirstError(cfg) /\ outcome' \in StaticErrors
        /\ verdict' = "searching"
    BY <1>1, <1>4, <1>5, FirstErrorRange DEF Reject, LoadInv, Checked
  <2>2. outcome' \in Errors /\ outcome' \notin Checked /\ ~Built'
        /\ outcome' # "loading"
    BY <2>1 DEF StaticErrors, Errors, Checked, Built
  <2> QED
    BY <1>1, <1>2, <2>1, <2>2 DEF LoadInv, Built, Checked
<1>6. CASE Search
  BY <1>6, SearchLoads
<1>7. CASE DetectCycle
  <2>1. DfsInv'
    BY <1>7, DfsInvStep DEF DetectCycle, LoadInv, Checked, DfsNext
  <2> QED
    BY <1>1, <1>2, <1>7, <2>1 DEF DetectCycle, LoadInv, Checked, Errors, Built
<1>8. CASE RejectCycle
  BY <1>1, <1>2, <1>3, <1>4, <1>8 DEF RejectCycle, LoadInv, Checked, Errors, Built
<1>9. CASE Accept
  BY <1>1, <1>2, <1>3, <1>4, <1>9 DEF Accept, LoadInv, Checked, Errors, Built
<1>10. CASE Lint
  BY <1>1, <1>2, <1>3, <1>4, <1>10 DEF Lint, LoadInv, Checked, Errors, Built
<1>11. CASE UNCHANGED vars
  BY <1>1, <1>2, <1>3, <1>4, <1>11 DEF vars, LoadInv, Checked, Errors, Built
<1> QED
  BY <1>5, <1>6, <1>7, <1>8, <1>9, <1>10, <1>11 DEF Next

-----------------------------------------------------------------------------
(* Theorems.                                                               *)

\* detect_cycle is right about the manifest's graph, as build calls it.
THEOREM LoaderAcceptsOnlyAcyclic == Spec => []AcceptsOnlyAcyclic
<1>1. LoadInv => AcceptsOnlyAcyclic
  BY DEF LoadInv, DfsInv, AcceptsOnlyAcyclic
<1> QED
  BY LoadInvInit, LoadInvStep, <1>1, PTL DEF Spec

\* The node a DependencyCycle error names lies on a cycle of the manifest.
THEOREM LoaderRejectsOnlyCyclic == Spec => []RejectsOnlyCyclic
<1>1. LoadInv => RejectsOnlyCyclic
  BY DEF LoadInv, DfsInv, RejectsOnlyCyclic
<1> QED
  BY LoadInvInit, LoadInvStep, <1>1, PTL DEF Spec

\* build accepts valid manifests only, and rejects invalid ones only: whatever
\* the manifest, the order of its nodes and edges, and the order in which the
\* search starts from the nodes.
THEOREM LoaderBuildIffValid == Spec => []BuildIffValid
<1>1. LoadInv => BuildIffValid
  <2> SUFFICES ASSUME LoadInv  PROVE BuildIffValid
    OBVIOUS
  <2>1. cfg \in Configs
    BY DEF LoadInv
  <2>2. ASSUME Built  PROVE Valid(cfg)
    <3>1. FirstError(cfg) = "none" /\ adj = Adj /\ ~Cyclic
      BY <2>2 DEF LoadInv, Built, Checked, DfsInv, AcceptsOnlyAcyclic
    <3> QED
      BY <2>1, <3>1, CyclicIsNotValid, ChecksAreValidity
  <2>3. ASSUME outcome = "DependencyCycle"  PROVE ~Valid(cfg)
    <3>1. /\ adj = Adj /\ DfsTypeOK /\ RejectsOnlyCyclic /\ verdict = "cycle"
      BY <2>3 DEF LoadInv, Checked, DfsInv
    <3>2. Cyclic
      BY <3>1, OnCycleIsCyclic DEF RejectsOnlyCyclic, DfsTypeOK
    <3> QED
      BY <2>1, <3>1, <3>2, CyclicIsNotValid, ChecksAreValidity
  <2>4. ASSUME outcome \in Errors, outcome # "DependencyCycle"  PROVE ~Valid(cfg)
    <3>1. FirstError(cfg) = outcome /\ outcome # "none"
      BY <2>4 DEF LoadInv, Errors, Checked
    <3> QED
      BY <2>1, <3>1, ChecksAreValidity
  <2> QED
    BY <2>2, <2>3, <2>4 DEF BuildIffValid
<1> QED
  BY LoadInvInit, LoadInvStep, <1>1, PTL DEF Spec

\* Without the unreachable warning, a trip can be attributed to another node:
\* the edge that silences the warning is no self loop, for build has rejected
\* those.
THEOREM LoaderLintSeesDeadTrip == Spec => []LintSeesDeadTrip
<1>1. LoadInv => LintSeesDeadTrip
  <2> SUFFICES ASSUME LoadInv, outcome = "linted"
               PROVE  [kind |-> "TripNodeUnreachable", node |-> cfg.trip_node] \notin warnings
                         <=> \E e \in EdgesOf(cfg) : /\ e.to = cfg.trip_node
                                                     /\ e.from # cfg.trip_node
    BY DEF LintSeesDeadTrip
  <2> DEFINE t == cfg.trip_node
             w == [kind |-> "TripNodeUnreachable", node |-> t]
  <2>1. /\ cfg \in Configs /\ warnings = LintWarnings(cfg) /\ adj = Adj /\ ~Cyclic
    BY DEF LoadInv, Built, Checked, DfsInv, AcceptsOnlyAcyclic
  <2>2. ~(\E e \in EdgesOf(cfg) : e.to = t /\ e.from = t)
    <3> SUFFICES ASSUME \E e \in EdgesOf(cfg) : e.from = t /\ e.to = t
                 PROVE  FALSE
      OBVIOUS
    <3>1. HasEdge(t, t)
      BY <2>1, GraphIsManifest
    <3>2. Knot({t}) /\ {t} \in SUBSET Node
      BY <2>1, <3>1, ConfigTyped DEF Knot
    <3> QED
      BY <2>1, <3>2 DEF Cyclic
  <2>3. w \in LintWarnings(cfg) <=> ~(\E e \in EdgesOf(cfg) : e.to = t)
    <3>1. \A n : [kind |-> "OrphanNode", node |-> n].kind # w.kind
      OBVIOUS
    <3>2. \A e : [kind |-> "SuspiciouslyTightBudget", edge |-> e].kind # w.kind
      OBVIOUS
    <3>3. \A n : w # [kind |-> "OrphanNode", node |-> n]
      BY <3>1
    <3>4. \A e : w # [kind |-> "SuspiciouslyTightBudget", edge |-> e]
      BY <3>2
    <3> HIDE DEF w
    <3>5. w \in LintWarnings(cfg)
             <=> w \in (IF \E e \in EdgesOf(cfg) : e.to = t THEN {} ELSE {w})
      BY <3>3, <3>4 DEF LintWarnings, w
    <3> QED
      BY <3>5
  <2> QED
    BY <2>1, <2>2, <2>3
<1> QED
  BY LoadInvInit, LoadInvStep, <1>1, PTL DEF Spec
=============================================================================
