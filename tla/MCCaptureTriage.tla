--------------------------- MODULE MCCaptureTriage ---------------------------
(***************************************************************************)
(* Captures in families, each made for one question: every frame cut at    *)
(* every length; pairs of frames of many kinds; one PROFINET stream with   *)
(* payloads of changing length; one topic with stamps in any order; the    *)
(* edge of the coverage threshold; files without frames.                   *)
(***************************************************************************)
EXTENDS CaptureTriage, WireFrames

CONSTANTS Stamps,      \* stamps of the topic's frames
          Updates      \* number of the topic's frames

AMR_PORT == 7400
Arp      == Eth(2054)
RosFrame == UdpFrame(AMR_PORT, 4)

Bases ==
    LET plain == {Arp, ProfinetFrame(2, <<1>>), ProfinetFrame(2, <<2, 1, 0>>),
                  RosFrame, UdpFrame(AMR_PORT, 0),
                  UdpFrame(FANUC_POSE_PORT, 11), UdpFrame(FANUC_POSE_PORT, 12),
                  IpFrame(6, IPV4_PROTO_UDP, 0, FANUC_POSE_PORT, 20, 58),
                  IpFrame(4, IPV4_PROTO_UDP, 0, AMR_PORT, 8, 46),
                  IpFrame(15, IPV4_PROTO_UDP, 0, AMR_PORT, 8, 82),
                  IpFrame(5, IPV4_PROTO_UDP, 0, AMR_PORT, 7, 50),
                  IpFrame(5, IPV4_PROTO_UDP, 0, AMR_PORT, 60, 50),
                  IpFrame(5, IPV4_PROTO_TCP, 1024, S7COMM_TCP_PORT, 0, 42),
                  IpFrame(6, IPV4_PROTO_TCP, S7COMM_TCP_PORT, 1024, 0, 46),
                  IpFrame(5, IPV4_PROTO_TCP, 1024, 80, 0, 42),
                  IpFrame(5, 1, 0, S7COMM_TCP_PORT, 8, 42)}
    IN  plain \cup {WithTag(f) : f \in plain}
              \cup {WithTag(WithTag(RosFrame))}

File(frames) == [format |-> "pcap", frames |-> frames]
At(ts, f)    == [ts |-> ts, frame |-> f]

CutFrames == UNION {{File(<<At(0, Cut(f, n))>>) : n \in 0 .. f.len} : f \in Bases}

MixedPairs ==
    LET some == {Cut(Arp, 13), Cut(WithTag(RosFrame), 17)} \cup Bases
    IN  {File(<<At(1, f), At(2, g)>>) : f \in some, g \in some}

CyclicStreams ==
    LET images == {<<0>>, <<1>>, <<2, 1>>, <<3, 0>>, <<1, 1, 4>>}
    IN  {File([i \in 1 .. 4 |-> At(i, ProfinetFrame(2, io[i]))]) :
            io \in [1 .. 4 -> images]}

TopicStreams ==
    {File([i \in 1 .. Updates |-> At(ts[i], RosFrame)]) :
        ts \in [1 .. Updates -> Stamps]}

Coverage ==
    {File([i \in 1 .. 5 |-> At(i, f[i])]) : f \in [1 .. 5 -> {Arp, RosFrame}]}

MCCaptures ==
    CutFrames \cup MixedPairs \cup CyclicStreams \cup TopicStreams \cup Coverage
        \cup {File(<< >>), [format |-> "pcapng", frames |-> << >>]}
=============================================================================
