----------------------------- MODULE WireFrames -----------------------------
(***************************************************************************)
(* Frames as they stand on the wire, for the instances that are checked:   *)
(* the builders of the harness's synthetic fixture (eth, profinet_frame,   *)
(* udp_frame), widened to IPv4 headers with options, to TCP, to an 802.1Q  *)
(* tag and to a capture that keeps only the first bytes.                   *)
(***************************************************************************)
EXTENDS ParseFrame, TLC

\* eth(ethertype): two addresses and the EtherType.
Eth(ethertype) == [len |-> 14, at |-> 12 :> ethertype]

\* The FrameID and the cyclic IO bytes.
ProfinetFrame(frame_id, io) ==
    [len |-> 16 + Len(io),
     at  |-> 12 :> ETHERTYPE_PROFINET @@ 14 :> frame_id
                @@ [o \in {15 + i : i \in DOMAIN io} |-> io[o - 15]]]

\* An IPv4 header of ihl words and the first words of what it carries.
IpFrame(ihl, proto, src, dst, udp_len, len) ==
    LET l4 == 14 + 4 * ihl
    IN  [len |-> len,
         at  |-> 12 :> ETHERTYPE_IPV4 @@ 14 :> 64 + ihl @@ 23 :> proto
                    @@ l4 :> src @@ l4 + 2 :> dst @@ l4 + 4 :> udp_len]

UdpFrame(dst, payload) ==
    IpFrame(5, IPV4_PROTO_UDP, 0, dst, 8 + payload, 14 + 20 + 8 + payload)

\* The same frame behind a VLAN tag.
WithTag(f) ==
    [len |-> f.len + 4,
     at  |-> [o \in {12} \cup {o + 4 : o \in DOMAIN f.at} |->
                 IF o = 12 THEN ETHERTYPE_VLAN ELSE f.at[o - 4]]]

\* What a capture with a snap length, or a line drop, keeps of it.
Cut(f, n) == [f EXCEPT !.len = n]
=============================================================================
