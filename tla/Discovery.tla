------------------------------ MODULE Discovery ------------------------------
(***************************************************************************)
(* DiscoveryEngine of src/src/discovery.rs: frames grouped into streams,   *)
(* each with a histogram of its inter-arrival times and, for PROFINET, the *)
(* mask of the payload bits that ever differed from the first payload;     *)
(* frames parse_frame refuses are tallied by EtherType.                    *)
(***************************************************************************)
EXTENDS ParseFrame, LogHistogram

VARIABLES streams,      \* StreamKey -> StreamProfile
          by_ethertype, \* UnclassifiedTally
          malformed,
          total_frames

discoveryVars == <<streams, by_ethertype, malformed, total_frames>>

\* The key a decoded frame is grouped under.  The port of a Fanuc frame is not
\* in what parse_frame returns and is read again from the raw frame.
StreamKey(f, proto) ==
    CASE proto.kind = "profinet" -> [kind |-> "profinet", id |-> proto.frame_id]
      [] proto.kind = "ros2"     -> [kind |-> "udp", id |-> proto.topic_port]
      [] proto.kind = "fanuc"    -> [kind |-> "udp", id |-> UdpDstPort(f)]
      [] proto.kind = "s7comm"   -> [kind |-> "s7comm", id |-> proto.port]

\* StreamProfile::new; an empty first payload means none yet.
NewProfile == [last |-> None, gaps |-> Empty, first |-> << >>, mask |-> << >>]

ProfileOf(key) == IF key \in DOMAIN streams THEN streams[key] ELSE NewProfile

\* ts.saturating_sub(prev): a stamp that runs backward counts as no gap.
Gap(prev, ts) == IF ts >= prev THEN ts - prev ELSE 0

\* Mutant: differences to the frame before.
TouchedLast(profile, io) ==
    IF profile.first = << >>
    THEN [profile EXCEPT !.first = io, !.mask = [i \in DOMAIN io |-> {}]]
    ELSE [profile EXCEPT
             !.first = io,
             !.mask = [i \in DOMAIN io |->
                 IF i \in DOMAIN profile.mask
                 THEN profile.mask[i] \cup SymDiff(profile.first[i], io[i])
                 ELSE {}]]

\* The payload against the first one, over the length both have.
Touched(profile, io) ==
    IF profile.first = << >>
    THEN [profile EXCEPT !.first = io, !.mask = [i \in DOMAIN io |-> {}]]
    ELSE [profile EXCEPT
             !.mask = [i \in DOMAIN profile.mask |->
                 IF i \in DOMAIN io
                 THEN profile.mask[i] \cup SymDiff(profile.first[i], io[i])
                 ELSE profile.mask[i]]]

\* StreamProfile::observe, up to the payload.
Timed(profile, ts) ==
    [profile EXCEPT
        !.gaps = IF profile.last = None THEN profile.gaps
                 ELSE RecordGap(profile.gaps, Gap(profile.last, ts)),
        !.last = ts]

\* observe: a frame parse_frame accepts.
Observe(ts, f, proto) ==
    LET key     == StreamKey(f, proto)
        timed   == Timed(ProfileOf(key), ts)
        profile == IF proto.kind = "profinet" THEN Touched(timed, IoPayload(f))
                   ELSE timed
    IN  /\ total_frames' = total_frames + 1
        /\ streams' = [k \in DOMAIN streams \cup {key} |->
                          IF k = key THEN profile ELSE streams[k]]
        /\ UNCHANGED <<by_ethertype, malformed>>

\* observe_unclassified.
ObserveUnclassified(et) ==
    /\ total_frames' = total_frames + 1
    /\ IF et = None
       THEN malformed' = malformed + 1 /\ UNCHANGED by_ethertype
       ELSE by_ethertype' = Tallied(by_ethertype, et) /\ UNCHANGED malformed
    /\ UNCHANGED streams

\* One turn of the discover command's loop.
Discover(ts, f) ==
    LET parsed == Parse(f)
    IN  IF parsed.ok THEN Observe(ts, f, parsed.proto)
        ELSE ObserveUnclassified(EthertypeOf(f))

DiscoveryInit ==
    /\ streams = << >> /\ by_ethertype = << >>
    /\ malformed = 0 /\ total_frames = 0

-----------------------------------------------------------------------------
(* What print_discovery_report adds up and lists.                          *)

Classified ==
    SumFunction([k \in DOMAIN streams |-> streams[k].gaps.count + 1])

Unclassified == SumFunction(by_ethertype) + malformed

\* toggling_bits of a stream.
TogglingBits(key) ==
    UNION {{<<i, bit>> : bit \in streams[key].mask[i]} :
              i \in DOMAIN streams[key].mask}
=============================================================================
