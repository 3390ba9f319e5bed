---------------------------- MODULE EvidenceSinks ----------------------------
(***************************************************************************)
(* The two backends of TraceSink side by side: a caller whose every        *)
(* acknowledged put into the database is repeated on an in-memory sink of  *)
(* the same process, which a death of the process empties.                 *)
(***************************************************************************)
EXTENDS RocksDbSink

VARIABLES rows,      \* the map of the in-memory sink
          memory,    \* what its last put returned
          firstLife  \* history variable: no death and no power cut so far

allVars == <<vars, rows, memory, firstLife>>

M == INSTANCE InMemorySink WITH answer <- memory

TeeDuplicate(r) == PutDuplicate(r) /\ M!Put(r) /\ UNCHANGED firstLife

TeeAcknowledged ==
    /\ PutCount
    /\ \E r \in pending : M!Put(r)
    /\ UNCHANGED firstLife

DatabaseOnly ==
    /\ Open \/ (\E r \in Row : PutCheck(r)) \/ PutWrite \/ PutFails
    /\ UNCHANGED <<rows, memory, firstLife>>

Die == /\ Crash \/ PowerCut
       /\ rows' = << >> /\ memory' = "Ok" /\ firstLife' = FALSE

SinksInit == Init /\ M!Init /\ firstLife = TRUE

SinksNext == \/ \E r \in Row : TeeDuplicate(r)
             \/ TeeAcknowledged
             \/ DatabaseOnly
             \/ Die

SinksSpec == SinksInit /\ [][SinksNext]_allVars

-----------------------------------------------------------------------------
(* Properties.                                                             *)

\* A row as the harness makes it, not one put together by hand.
MadeFromTrace(r) == r.evidence \in Trace /\ FromTrace(r.evidence) = r

\* storage.rs: "both backends scan identically".  A database that does not fail
\* answers a scan as the in-memory sink would if every stored row of the
\* interval is what from_trace makes of its evidence, whatever lies around the
\* interval; one row in it with evidence that is no trace makes the scan fail,
\* and the other rows are not to be had.  Until the process dies both sinks
\* hold the same rows, report the same number of them and have answered the
\* last put alike.
SinksAgree ==
    /\ \A s, e \in Instant : s <= e =>
          LET inside == {r \in Stored : r.ts \in s .. e - 1}
              read == {a \in DbRange(s, e) : a.result # "RocksDb"}
          IN  /\ (\A r \in inside : MadeFromTrace(r)) =>
                    read = {Answer("Ok", M!RangeOf(Stored, s, e))}
              /\ (\E r \in inside : r.evidence \notin Trace) =>
                    read = {Answer("Serde", << >>)}
    /\ state = "ready" /\ firstLife =>
          /\ M!Held = Stored
          /\ Cardinality(DOMAIN rows) = count
          /\ answer \in {"Ok", "DuplicateKey"} => memory = answer

\* What the in-memory sink returns for [start, end) is complete and in order.
ScanComplete == M!ScanComplete
=============================================================================
