---------------------------- MODULE CaptureTriage ----------------------------
(***************************************************************************)
(* The two commands run on an unknown capture before any attribution,      *)
(* `preflight' and `discover', over the same file: each opens it with a    *)
(* StreamingPcapSource and takes its frames one by one to the end.  The    *)
(* two share nothing but the file, so one step hands a frame to both.      *)
(***************************************************************************)
EXTENDS Discovery, Preflight

CONSTANT Captures   \* records [format, frames]: what a file may hold

\* Stamps, lengths and the words of a frame are natural numbers.  A stamp of the
\* classic format, 32 bits of seconds and 32 of a fraction, is below 2^62 ns: 64
\* bits fit it, with eight buckets per band.
ASSUME CapturesAssumption ==
    \A file \in Captures : \A i \in DOMAIN file.frames :
        LET f == file.frames[i].frame
        IN  /\ file.frames[i].ts \in Nat /\ Fits(file.frames[i].ts)
            /\ f.len \in Nat
            /\ \A o \in DOMAIN f.at : f.at[o] \in Nat

VARIABLES capture,  \* the file
          next,     \* index of the record the reader comes to next
          verdict   \* PreflightVerdict, "reading" before there is one

triageVars == <<capture, next, verdict, discoveryVars, stats>>

\* The reader refuses pcapng and unknown magics: preflight turns that into a
\* verdict, discover into an error.
RejectFormat ==
    /\ verdict = "reading" /\ capture.format # "pcap"
    /\ verdict' = "RejectedFormat"
    /\ UNCHANGED <<capture, next, discoveryVars, stats>>

TakeFrame ==
    /\ verdict = "reading" /\ capture.format = "pcap"
    /\ next \in DOMAIN capture.frames
    /\ LET record == capture.frames[next]
       IN  Discover(record.ts, record.frame) /\ Measure(record.ts, record.frame)
    /\ next' = next + 1
    /\ UNCHANGED <<capture, verdict>>

\* The end of the capture, or a read error: both break the loop.
Conclude ==
    /\ verdict = "reading" /\ capture.format = "pcap"
    /\ next \notin DOMAIN capture.frames
    /\ verdict' = Verdict
    /\ UNCHANGED <<capture, next, discoveryVars, stats>>

TriageInit == /\ capture \in Captures
              /\ next = 1
              /\ verdict = "reading"
              /\ DiscoveryInit
              /\ stats = NoStats

TriageNext == RejectFormat \/ TakeFrame \/ Conclude

TriageSpec == TriageInit /\ [][TriageNext]_triageVars

-----------------------------------------------------------------------------
(* Properties.                                                             *)

Taken == 1 .. next - 1
FrameAt(i)  == capture.frames[i].frame
ParsedAt(i) == Parse(FrameAt(i))
Proto(i)    == ParsedAt(i).proto

\* "A passive diagnostic that panics on a malformed frame is unfit for purpose":
\* whatever the lengths a frame declares and wherever it was cut, nothing is
\* read beyond its last byte.
ReadsWithinFrame == \A i \in Taken : ParsedAt(i).upto <= FrameAt(i).len

\* The re-readers of the raw frame find what parse_frame found: discover's
\* payload starts with the status byte, the port of a Fanuc frame is recovered,
\* and an accepted frame has the EtherType its protocol rides on.
ReparsesAgree ==
    \A i \in Taken :
        ParsedAt(i).ok =>
            CASE Proto(i).kind = "profinet" ->
                    /\ EthertypeOf(FrameAt(i)) = ETHERTYPE_PROFINET
                    /\ IoPayload(FrameAt(i)) # << >>
                    /\ Head(IoPayload(FrameAt(i))) = Proto(i).status
              [] Proto(i).kind = "fanuc" ->
                    /\ EthertypeOf(FrameAt(i)) = ETHERTYPE_IPV4
                    /\ UdpDstPort(FrameAt(i)) = FANUC_POSE_PORT
              [] OTHER -> EthertypeOf(FrameAt(i)) = ETHERTYPE_IPV4

\* "Every frame is either classified into a stream profile or counted in the
\* unclassified tally", and preflight, which counts on its own, agrees with
\* discover on every number they both report: its verdict is one on discover's
\* numbers as well.
CoverageAddsUp ==
    /\ total_frames = next - 1 /\ stats.total = next - 1
    /\ Classified + Unclassified = total_frames
    /\ stats.classifiable = Classified /\ stats.unclassified = Unclassified
    /\ malformed = stats.malformed
    /\ \A et \in DOMAIN by_ethertype :
          et \in DOMAIN stats.ethertypes /\ by_ethertype[et] <= stats.ethertypes[et]
    /\ verdict = "Analyzable" => 5 * Unclassified <= total_frames
    /\ verdict = "CoverageGap" => 5 * Unclassified > total_frames

\* The frames of a stream, and their payloads.
FramesOf(key) ==
    {i \in Taken : ParsedAt(i).ok /\ StreamKey(FrameAt(i), Proto(i)) = key}

\* "any bit that ever changed is set", and no other, in the bytes of the stream's
\* first payload: such a bit is listed exactly if two payloads that reach its
\* byte have it at different values.  Of the bytes that only later payloads have
\* nothing is claimed: discovery.rs:15-17 and 180-181 promise the same of them,
\* and the code never lists one.
TogglesSeen ==
    \A key \in DOMAIN streams :
        key.kind = "profinet" =>
            LET payloads == {IoPayload(FrameAt(i)) : i \in FramesOf(key)}
            IN  \A b \in DOMAIN streams[key].first : \A bit \in 0 .. 7 :
                    <<b, bit>> \in TogglingBits(key) <=>
                        \E p, q \in {r \in payloads : b \in DOMAIN r} :
                            bit \in p[b] /\ bit \notin q[b]

\* The inter-arrival times of a stream in the order of the capture, as a bag:
\* gap -> how often.
GapAt(key, i) ==
    LET before == {j \in FramesOf(key) : j < i}
    IN  Gap(capture.frames[Max(before)].ts, capture.frames[i].ts)
GapsOf(key) ==
    LET later == {i \in FramesOf(key) : \E j \in FramesOf(key) : j < i}
    IN  [i \in later |-> GapAt(key, i)]

\* The exact quantile: the least gap with at least the rank's number of gaps
\* not above it.
Exact(gaps, rank) ==
    Min({gaps[i] : i \in {i \in DOMAIN gaps :
            Cardinality({j \in DOMAIN gaps : gaps[j] <= gaps[i]}) >= rank}})

Quantiles == {<<1, 2>>, <<19, 20>>, <<99, 100>>, <<999, 1000>>}

\* "Count, min, and max are exact" and "relative error is bounded": the estimate
\* of a quantile never exceeds the exact one and falls short of it by less than
\* one part in SUB.  (Gaps of 0 and 1 share a bucket.)
QuantileBrackets ==
    \A key \in DOMAIN streams :
        LET gaps == GapsOf(key)
            h    == streams[key].gaps
        IN  /\ h.count = Cardinality(DOMAIN gaps)
            /\ h.count > 0 =>
                  /\ h.min = Min({gaps[i] : i \in DOMAIN gaps})
                  /\ h.max = Max({gaps[i] : i \in DOMAIN gaps})
                  /\ \A q \in Quantiles :
                        LET x   == Exact(gaps, Rank(h, q[1], q[2]))
                            est == Quantile(h, q[1], q[2])
                        IN  est <= x /\ (x > 1 => (x - est) * SUB < x)
=============================================================================
