------------------------------ MODULE Preflight ------------------------------
(***************************************************************************)
(* compute_preflight of src/src/bin/harness.rs: the facts counted over a   *)
(* capture before it is analysed, and the verdict drawn from them.         *)
(***************************************************************************)
EXTENDS ParseFrame, FiniteSetsExt

VARIABLE stats   \* PreflightStats, with first_ts, last_ts and min_delta

NoStats == [total |-> 0, classifiable |-> 0, unclassified |-> 0, malformed |-> 0,
            vlan_frames |-> 0, ethertypes |-> << >>,
            first_ts |-> None, last_ts |-> 0, min_delta |-> None]

\* The least positive gap between neighbours; stamps that run backward and ties
\* are passed over.
MinDelta(s, ts) ==
    IF s.first_ts = None \/ ts <= s.last_ts THEN s.min_delta
    ELSE IF s.min_delta = None THEN ts - s.last_ts
    ELSE Min({s.min_delta, ts - s.last_ts})

Count(condition) == IF condition THEN 1 ELSE 0

Measured(ts, f, ok) ==
    LET et == EthertypeOf(f)
    IN  [total        |-> stats.total + 1,
         classifiable |-> stats.classifiable + Count(ok),
         unclassified |-> stats.unclassified + Count(~ok),
         malformed    |-> stats.malformed + Count(et = None),
         vlan_frames  |-> stats.vlan_frames + Count(f.len >= 14 /\ Tagged(f)),
         ethertypes   |-> IF et = None THEN stats.ethertypes
                          ELSE Tallied(stats.ethertypes, et),
         first_ts     |-> IF stats.first_ts = None THEN ts ELSE stats.first_ts,
         last_ts      |-> ts,
         min_delta    |-> MinDelta(stats, ts)]

\* Mutant: every frame of a known EtherType counted as classifiable.
MeasureByEthertype(ts, f) ==
    stats' = Measured(ts, f,
                 EthertypeOf(f) \in {ETHERTYPE_PROFINET, ETHERTYPE_IPV4})

\* One turn of the loop.
Measure(ts, f) == stats' = Measured(ts, f, Parse(f).ok)

\* verdict: more than COVERAGE_GAP_THRESHOLD, a fifth of all frames.
Verdict == IF stats.total = 0 THEN "RejectedEmpty"
           ELSE IF stats.unclassified * 5 > stats.total THEN "CoverageGap"
           ELSE "Analyzable"
=============================================================================
