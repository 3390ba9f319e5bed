---------------------------- MODULE MCCausalEngine ----------------------------
(***************************************************************************)
(* The engine on small cells: node 3 is the safety PLC's interlock (the    *)
(* trip node), node 2 a ROS2 topic, node 1 a Fanuc pose stream or a second *)
(* PROFINET device.                                                        *)
(***************************************************************************)
EXTENDS CausalEngine, TLC

CONSTANT MaxTime

MCNode == 1 .. 4
MCTime == 1 .. MaxTime
MCWcet == {1, 2}
MCTransition == [seq : 0 .. MaxPushes - 1, node : MCNode, ts : MCTime,
                 interlock : Level]
MCReordered == -1     \* a stamp may lie one tick before the last one

Profinet(f, s) == [kind |-> "profinet", frame_id |-> f, status |-> s]
Topic(port) == [kind |-> "ros2", topic_port |-> port]
Pose == [kind |-> "fanuc"]

\* The trip device's frame with its interlock bit set or clear, the two
\* upstream devices, and a frame no manifest claims.
MCPayload == {Profinet(1, {0}), Profinet(1, {}), Topic(7), Pose,
              [kind |-> "s7comm"]}

PlcInterlock == [kind |-> "profinet", frame_id |-> 1, bit_index |-> 0]
OnTopic(port) == [kind |-> "ros2", topic_port |-> port]
OnPose == [kind |-> "fanuc"]

E(f, t, w) == [from |-> f, to |-> t, wcet |-> w]
Cell(es) == [nodes |-> 1 :> OnPose @@ 2 :> OnTopic(7) @@ 3 :> PlcInterlock,
             edges |-> es, trip_node |-> 3]

Chain   == Cell(<<E(1, 2, 1), E(2, 3, 2)>>)
TwoLegs == Cell(<<E(1, 3, 2), E(2, 3, 1)>>)
Diamond == Cell(<<E(1, 2, 1), E(2, 3, 1), E(1, 3, 2)>>)

\* Two nodes read different bits of one device's frame: the first in the
\* iteration order gets it.
Overlap == [nodes |-> 2 :> [PlcInterlock EXCEPT !.bit_index = 1] @@ 3 :> PlcInterlock,
            edges |-> <<E(2, 3, 1)>>, trip_node |-> 3]

MCManifests == {Chain, Diamond, Overlap}
MCTrees     == {Chain, TwoLegs}

\* Node 2 feeds the trip node directly and through node 4, and depends on 1.
MCSharedNode ==
    {[nodes |-> 1 :> OnPose @@ 2 :> OnTopic(7) @@ 3 :> PlcInterlock
                @@ 4 :> OnTopic(8),
      edges |-> <<E(1, 2, 1), E(2, 4, 2), E(2, 3, 2), E(4, 3, 2)>>,
      trip_node |-> 3]}
MCSharedPayload == {Profinet(1, {0}), Profinet(1, {}), Topic(7), Topic(8), Pose}
=============================================================================
