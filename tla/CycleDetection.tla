--------------------------- MODULE CycleDetection ---------------------------
(***************************************************************************)
(* ManifestCfg::detect_cycle of src/src/manifest.rs: an iterative depth-   *)
(* first search with an explicit stack of (node, next child) and three     *)
(* colours.  The start nodes come from a HashSet, so their order is        *)
(* arbitrary; the children of a node come in declaration order.            *)
(***************************************************************************)
EXTENDS Integers, Sequences

CONSTANT Node   \* NodeId

ASSUME NodeAssumption == Node # {}

VARIABLES adj,      \* node -> its children, for nodes with outgoing edges
          color,    \* "white" (absent from the map), "gray" (on stack), "black"
          stack,    \* records [node, idx]: idx is the next child to look at
          todo,     \* start nodes the outer loop has not reached
          verdict,  \* "searching", "acyclic" (Ok) or "cycle" (Err)
          culprit   \* the node DependencyCycle names; meaningful in "cycle"

dfsVars == <<color, stack, todo, verdict, culprit>>

Children(n) == IF n \in DOMAIN adj THEN adj[n] ELSE << >>
All == DOMAIN adj \cup UNION {{adj[n][k] : k \in DOMAIN adj[n]} : n \in DOMAIN adj}

DfsTypeOK ==
    /\ DOMAIN adj \subseteq Node /\ \A n \in DOMAIN adj : adj[n] \in Seq(Node)
    /\ color \in [Node -> {"white", "gray", "black"}]
    /\ stack \in Seq([node : Node, idx : Nat \ {0}])
    /\ todo \subseteq Node
    /\ verdict \in {"searching", "acyclic", "cycle"}
    /\ culprit \in Node

\* The search as it is called: nothing coloured, every node still to start from.
DfsStart ==
    /\ color = [n \in Node |-> "white"]
    /\ stack = << >>
    /\ todo = All
    /\ verdict = "searching"
    /\ culprit = CHOOSE n \in Node : TRUE

Searching == verdict = "searching"

\* for &start in &all
SkipStart(n) ==
    /\ Searching /\ stack = << >> /\ n \in todo /\ color[n] # "white"
    /\ todo' = todo \ {n}
    /\ UNCHANGED <<color, stack, verdict, culprit>>

EnterStart(n) ==
    /\ Searching /\ stack = << >> /\ n \in todo /\ color[n] = "white"
    /\ todo' = todo \ {n}
    /\ stack' = <<[node |-> n, idx |-> 1]>>
    /\ color' = [color EXCEPT ![n] = "gray"]
    /\ UNCHANGED <<verdict, culprit>>

Top      == stack[Len(stack)]
HasChildButLast == Top.idx < Len(Children(Top.node))   \* mutant
HasChild == Top.idx <= Len(Children(Top.node))
Child    == Children(Top.node)[Top.idx]
AdvancedNot == stack   \* mutant: the next child is not counted up
Advanced == [stack EXCEPT ![Len(stack)] = [node |-> Top.node,
                                           idx |-> Top.idx + 1]]

BackEdge ==
    /\ Searching /\ stack # << >> /\ HasChild /\ color[Child] = "gray"
    /\ verdict' = "cycle"
    /\ culprit' = Child
    /\ stack' = Advanced
    /\ UNCHANGED <<color, todo>>

Descend ==
    /\ Searching /\ stack # << >> /\ HasChild /\ color[Child] = "white"
    /\ color' = [color EXCEPT ![Child] = "gray"]
    /\ stack' = Append(Advanced, [node |-> Child, idx |-> 1])
    /\ UNCHANGED <<todo, verdict, culprit>>

PassBlack ==
    /\ Searching /\ stack # << >> /\ HasChild /\ color[Child] = "black"
    /\ stack' = Advanced
    /\ UNCHANGED <<color, todo, verdict, culprit>>

\* Mutant: a finished node stays gray.
RetreatGray ==
    /\ Searching /\ stack # << >> /\ ~HasChild
    /\ stack' = SubSeq(stack, 1, Len(stack) - 1)
    /\ UNCHANGED <<color, todo, verdict, culprit>>

Retreat ==
    /\ Searching /\ stack # << >> /\ ~HasChild
    /\ color' = [color EXCEPT ![Top.node] = "black"]
    /\ stack' = SubSeq(stack, 1, Len(stack) - 1)
    /\ UNCHANGED <<todo, verdict, culprit>>

Finish ==
    /\ Searching /\ stack = << >> /\ todo = {}
    /\ verdict' = "acyclic"
    /\ UNCHANGED <<color, stack, todo, culprit>>

DfsStep == \/ \E n \in Node : SkipStart(n) \/ EnterStart(n)
           \/ BackEdge \/ Descend \/ PassBlack \/ Retreat \/ Finish

DfsInit ==
    /\ adj \in UNION {[D -> Seq(Node)] : D \in SUBSET Node}
    /\ DfsStart

DfsNext == DfsStep /\ UNCHANGED adj
DfsSpec == DfsInit /\ [][DfsNext]_<<adj, dfsVars>>

-----------------------------------------------------------------------------
(* Properties.                                                             *)

HasEdge(m, n) == \E k \in DOMAIN Children(m) : Children(m)[k] = n

\* A non-empty set in which every node has a successor: what a finite graph has
\* exactly if it has a cycle.
Knot(S) == S # {} /\ \A n \in S : \E m \in S : HasEdge(n, m)
Cyclic  == \E S \in SUBSET Node : Knot(S)

\* detect_cycle accepts only acyclic graphs, whatever the start order ...
AcceptsOnlyAcyclic == verdict = "acyclic" => ~Cyclic

\* ... rejects only cyclic ones, and the node it names lies on a cycle: it is in
\* every set that holds its successors and is closed under successors.
OnCycle(n) ==
    \A S \in SUBSET Node :
        /\ \A m \in Node : HasEdge(n, m) => m \in S
        /\ \A k \in S, m \in Node : HasEdge(k, m) => m \in S
        => n \in S
RejectsOnlyCyclic == verdict = "cycle" => OnCycle(culprit)

\* The stack is a path of gray nodes and the only gray nodes there are: a gray
\* child is an ancestor.
GrayIsOnStack ==
    Searching =>
        /\ {n \in Node : color[n] = "gray"} =
              {stack[k].node : k \in DOMAIN stack}
        /\ \A k \in 1 .. Len(stack) - 1 : HasEdge(stack[k].node, stack[k + 1].node)
=============================================================================
