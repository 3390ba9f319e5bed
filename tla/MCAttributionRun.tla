--------------------------- MODULE MCAttributionRun ---------------------------
(***************************************************************************)
(* Both commands on captures of the demo cell's frames: the interlock high *)
(* and low, the two upstream devices, a device nobody tracks, and a frame  *)
(* cut to twenty bytes.                                                    *)
(***************************************************************************)
EXTENDS AttributionRun, WireFrames

CONSTANT MaxTime

MCNode == 1 .. 3
MCTime == 1 .. MaxTime
MCWcet == {1, 2}
MCTransition == [seq : 0 .. MaxPushes - 1, node : MCNode, ts : MCTime,
                 interlock : Level]
MCReordered == -1     \* a stamp may lie one tick before the last one

Pose == UdpFrame(FANUC_POSE_PORT, 12)
MCFrames == {ProfinetFrame(2, <<1>>), ProfinetFrame(2, <<0>>),
             ProfinetFrame(5, <<1>>), UdpFrame(AMR_PORT, 32),
             Pose, Cut(Pose, 20)}
MCPayload == {Parse(f).proto : f \in {g \in MCFrames : Parse(g).ok}}

\* Another cell: both devices feed the interlock directly.
TwoLegs == [DemoManifest EXCEPT
               !.edges = <<[from |-> N_AMR, to |-> N_PLC, wcet |-> 2],
                           [from |-> N_FANUC, to |-> N_PLC, wcet |-> 1]>>]
MCManifests == {DemoManifest, TwoLegs}

\* On the demo cell run-manifest does what run does, but for the event log.
MCRunInit == RunInit /\ (command = "run-manifest" => manifest = TwoLegs)
MCRunSpec == /\ MCRunInit /\ [][RunNext]_allVars
             /\ WF_allVars(Analyse) /\ WF_allVars(Store)
=============================================================================
