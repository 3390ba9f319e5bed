--------------------------- MODULE MCManifestLoader ---------------------------
(***************************************************************************)
(* Every manifest over three ids with up to MaxEdges edges, budgets at the *)
(* boundaries of the sane range, and node lists that are empty, duplicated *)
(* or lack a node; and, for the cycle search, every graph of the three     *)
(* nodes with up to MaxChildren children each (self loops, parallel edges, *)
(* several components).                                                    *)
(***************************************************************************)
EXTENDS ManifestLoader

CONSTANTS MaxEdges, Wcets, MaxChildren

MCNode == 1 .. 3
Plc    == [kind |-> "profinet", frame_id |-> 1, bit_index |-> 0]
Pose   == [kind |-> "fanuc"]

N(i, m) == [id |-> i, matcher |-> m]

MCNodeLists ==
    {<< >>,
     <<N(1, Pose), N(1, Plc)>>,
     <<N(3, Plc), N(1, Pose)>>,
     <<N(1, Pose), N(2, Pose), N(3, Plc)>>}

MCSmall ==
    {[nodes |-> ns, edges |-> es, trip_node |-> t] :
        ns \in MCNodeLists, t \in {2, 3},
        es \in UNION {[1 .. k -> [from : MCNode, to : MCNode, wcet : Wcets]] :
                        k \in 0 .. MaxEdges}}

\* The edges from node n to the children cs, in their order.
Fan(n, cs) == [k \in DOMAIN cs |-> [from |-> n, to |-> cs[k], wcet |-> 1]]

MCGraphs ==
    LET kids == UNION {[1 .. k -> MCNode] : k \in 0 .. MaxChildren}
    IN  {[nodes |-> <<N(1, Pose), N(2, Pose), N(3, Plc)>>,
          edges |-> Fan(1, a) \o Fan(2, b) \o Fan(3, c), trip_node |-> 3] :
            a \in kids, b \in kids, c \in kids}

MCConfigs == MCSmall \cup MCGraphs
===============================================================================
