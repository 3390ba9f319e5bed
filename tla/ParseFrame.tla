----------------------------- MODULE ParseFrame -----------------------------
(***************************************************************************)
(* parse_frame of src/src/ingest.rs and the three other places that read a *)
(* raw Ethernet frame: ethertype_of of the harness, profinet_io_payload    *)
(* and udp_dst_port of src/src/discovery.rs.                               *)
(*                                                                         *)
(* A frame is its captured length and the numbers that stand in it: at[o]  *)
(* is the byte, or the big-endian word, that begins at offset o.  Every    *)
(* accessor works with offsets, as the code does, and is checked against   *)
(* the length only where the code checks it.  What parse_frame returns     *)
(* carries `upto', one past the last byte the call has read: a slice index *)
(* beyond the length is a panic.                                           *)
(***************************************************************************)
EXTENDS Integers, Sequences

CONSTANT None   \* Option::None

ASSUME NoValueAssumption == None \notin Nat

ETHERTYPE_PROFINET == 34962   \* 0x8892
ETHERTYPE_IPV4     == 2048    \* 0x0800
ETHERTYPE_VLAN     == 33024   \* 0x8100
IPV4_PROTO_UDP     == 17
IPV4_PROTO_TCP     == 6
S7COMM_TCP_PORT    == 102
FANUC_POSE_PORT    == 60008

Word(f, o)   == IF o \in DOMAIN f.at THEN f.at[o] ELSE 0
Nibble(f, o) == Word(f, o) % 16
Bits(byte)   == {b \in 0 .. 7 : (byte \div 2^b) % 2 = 1}

Accept(proto, upto) == [ok |-> TRUE, proto |-> proto, upto |-> upto]
Refuse(why, upto)   == [ok |-> FALSE, why |-> why, upto |-> upto]

-----------------------------------------------------------------------------
(* The decoders.  raw_status_byte is the set of its bits that are 1.       *)

ParseProfinet(f, l3) ==
    IF f.len < l3 + 3 THEN Refuse("ShortPayload", l3)
    ELSE Accept([kind |-> "profinet", frame_id |-> Word(f, l3),
                 status |-> Bits(Word(f, l3 + 2))], l3 + 3)

\* TCP is classified by port 102 at either end, without reassembly.
ParseTcp(f, l4) ==
    IF f.len < l4 + 4 THEN Refuse("BadIpv4", l4)
    ELSE IF S7COMM_TCP_PORT \in {Word(f, l4), Word(f, l4 + 2)}
    THEN Accept([kind |-> "s7comm", port |-> S7COMM_TCP_PORT], l4 + 4)
    ELSE Refuse("UnhandledEtherType", l4 + 4)

\* The datagram's own length, not the frame's, bounds the payload.
ParseUdp(f, l4) ==
    LET dst_port == Word(f, l4 + 2)
        udp_len  == Word(f, l4 + 4)
    IN  IF udp_len < 8 \/ f.len < l4 + udp_len THEN Refuse("BadUdp", l4 + 6)
        ELSE IF dst_port # FANUC_POSE_PORT
        THEN Accept([kind |-> "ros2", topic_port |-> dst_port], l4 + 6)
        ELSE IF udp_len - 8 < 12 THEN Refuse("ShortPayload", l4 + 6)
        ELSE Accept([kind |-> "fanuc"], l4 + 8 + 12)

ParseL4(f, ip, l4) ==
    IF Word(f, ip + 9) = IPV4_PROTO_TCP THEN ParseTcp(f, l4)
    ELSE IF Word(f, ip + 9) = IPV4_PROTO_UDP THEN ParseUdp(f, l4)
    ELSE Refuse("UnhandledEtherType", ip + 10)

\* Mutant: only the fixed part of the header is checked for.
ParseIpv4Fixed(f, ip) ==
    IF f.len < ip + 20 + 8 THEN Refuse("BadIpv4", ip)
    ELSE ParseL4(f, ip, ip + Nibble(f, ip) * 4)

\* The header length is the low nibble of the first byte, in 32-bit words.
ParseIpv4(f, ip) ==
    LET ihl == Nibble(f, ip)
    IN  IF f.len < ip + 20 THEN Refuse("BadIpv4", ip)
        ELSE IF ihl < 5 \/ f.len < ip + ihl * 4 + 8 THEN Refuse("BadIpv4", ip + 1)
        ELSE ParseL4(f, ip, ip + ihl * 4)

\* Dispatch on the EtherType that stands before l3.
ParseL3(f, l3) ==
    CASE Word(f, l3 - 2) = ETHERTYPE_PROFINET -> ParseProfinet(f, l3)
      [] Word(f, l3 - 2) = ETHERTYPE_IPV4     -> ParseIpv4(f, l3)
      [] OTHER -> Refuse("UnhandledEtherType", l3)

\* One 802.1Q tag is skipped; a second one is not.
Parse(f) ==
    IF f.len < 14 THEN Refuse("Truncated", 0)
    ELSE IF Word(f, 12) # ETHERTYPE_VLAN THEN ParseL3(f, 14)
    ELSE IF f.len < 18 THEN Refuse("Truncated", 14)
    ELSE ParseL3(f, 18)

-----------------------------------------------------------------------------
(* The other readers of a raw frame.                                       *)

Tagged(f) == Word(f, 12) = ETHERTYPE_VLAN

\* ethertype_of.
EthertypeOf(f) ==
    IF f.len < 14 THEN None
    ELSE IF Tagged(f) THEN IF f.len < 18 THEN ETHERTYPE_VLAN ELSE Word(f, 16)
    ELSE Word(f, 12)

\* Mutant: the tag is not skipped.
PayloadStartUntagged(f) == 16

PayloadStart(f) == (IF Tagged(f) THEN 18 ELSE 14) + 2

\* profinet_io_payload: everything after the FrameID, as sets of bits.
IoPayload(f) ==
    IF f.len < 14 \/ (Tagged(f) /\ f.len < 18) THEN << >>
    ELSE [i \in 1 .. f.len - PayloadStart(f) |->
             Bits(Word(f, PayloadStart(f) + i - 1))]

\* udp_dst_port(..).unwrap_or(0).
UdpDstPort(f) ==
    LET off == IF Tagged(f) THEN 18 ELSE 14
        ihl == Nibble(f, off) * 4
    IN  IF \/ f.len < off
           \/ Word(f, off - 2) # ETHERTYPE_IPV4 \/ f.len < off + 20
           \/ f.len < off + ihl + 4
        THEN 0
        ELSE Word(f, off + ihl + 2)

\* *tally.entry(et).or_insert(0) += 1
Tallied(tally, et) ==
    [k \in DOMAIN tally \cup {et} |->
        (IF k \in DOMAIN tally THEN tally[k] ELSE 0) + (IF k = et THEN 1 ELSE 0)]
=============================================================================
