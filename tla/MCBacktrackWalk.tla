--------------------------- MODULE MCBacktrackWalk ---------------------------
(***************************************************************************)
(* backtrack on every ring content of up to MaxHeld transitions, with      *)
(* timestamps in any order, over graphs that contain a chain, a diamond, a *)
(* self loop, a cycle through the trip node and parallel edges.            *)
(***************************************************************************)
EXTENDS BacktrackWalk, TLC

CONSTANTS MaxHeld, MaxTs

MCNode == 1 .. 3            \* 3 is the trip node
MCTransition == [seq : 0 .. MaxHeld - 1, node : MCNode, ts : 1 .. MaxTs]
MCWcet == {1, 2}

\* iter_rev of n transitions: newest first, sequence numbers descending.
MCViews ==
    UNION {{[i \in 1 .. n |-> [seq |-> n - i, node |-> f[i][1], ts |-> f[i][2]]] :
              f \in {g \in [1 .. n -> MCNode \X (1 .. MaxTs)] : g[1][1] = 3}} :
           n \in 1 .. MaxHeld}

E(f, t, w) == [from |-> f, to |-> t, wcet |-> w]

\* The rev_adj of the manifests explored, edges in declaration order.
MCRevAdj ==
    { 3 :> <<E(2, 3, 1)>> @@ 2 :> <<E(1, 2, 2)>>,                   \* chain
      3 :> <<E(1, 3, 2), E(2, 3, 1)>> @@ 2 :> <<E(1, 2, 1)>>,       \* diamond
      3 :> <<E(2, 3, 1), E(1, 3, 2)>> @@ 2 :> <<E(1, 2, 1)>>,       \* reordered
      3 :> <<E(2, 3, 1), E(2, 3, 2)>>,                              \* parallel
      3 :> <<E(3, 3, 1), E(2, 3, 1)>> @@ 2 :> <<E(3, 2, 1)>>        \* cycles
    }

MCInit == view \in MCViews /\ rev_adj \in MCRevAdj /\ Started

MCSpec == MCInit /\ [][WalkNext]_<<inputs, walkVars>> /\ KeepsRunning
=============================================================================
