---------------------------- MODULE InMemorySink ----------------------------
(***************************************************************************)
(* InMemorySink of src/src/storage.rs: a BTreeMap from (trip_ts_ns,        *)
(* trace_id) to the row.                                                   *)
(***************************************************************************)
EXTENDS TraceKeys, Sequences

CONSTANTS Row,       \* records [ts, id, evidence]
          Instant    \* bounds a caller may scan between

VARIABLES rows,      \* the map
          answer     \* what the last put returned

\* Mutant: the end instant included.
SliceClosed(held, start, end) ==
    InKeyOrder({r \in held : start <= r.ts /\ r.ts <= end})

\* The rows in `held' with start <= ts < end, in key order.
Slice(held, start, end) ==
    InKeyOrder({r \in held : start <= r.ts /\ r.ts < end})

\* range: BTreeMap::range panics on a start beyond the end (an empty map never
\* looks at its bounds).
RangeOf(held, start, end) ==
    IF held # {} /\ start > end THEN "panic" ELSE Slice(held, start, end)

Held == {rows[k] : k \in DOMAIN rows}

\* Mutant: BTreeMap::insert without the test before it.
PutOver(r) ==
    /\ answer' = "Ok"
    /\ rows' = [k \in DOMAIN rows \cup {Key(r)} |->
                   IF k = Key(r) THEN r ELSE rows[k]]

Put(r) ==
    IF Key(r) \in DOMAIN rows
    THEN /\ answer' = "DuplicateKey"
         /\ UNCHANGED rows
    ELSE /\ answer' = "Ok"
         /\ rows' = [k \in DOMAIN rows \cup {Key(r)} |->
                        IF k = Key(r) THEN r ELSE rows[k]]

Init == rows = << >> /\ answer = "Ok"

\* range and len leave the sink as it is.
Next == \E r \in Row : Put(r)

Spec == Init /\ [][Next]_<<rows, answer>>

-----------------------------------------------------------------------------
(* Properties.                                                             *)

Store == INSTANCE EvidenceStore WITH stored <- Held

\* The sink is an evidence store: nothing is overwritten, dropped or admitted
\* twice, and a rejected put changes nothing.
ImplementsStore == Store!Spec

\* "all rows with trip_ts_ns in [start, end), chronological": a scan returns
\* every held row of the interval exactly once, later trips never first.  (An
\* interval whose start lies beyond its end ends the process.)
ScanComplete ==
    \A s, e \in Instant :
        s <= e =>
            LET out == RangeOf(Held, s, e)
            IN  /\ {out[i] : i \in DOMAIN out} = {r \in Held : r.ts \in s .. e - 1}
                /\ Len(out) = Cardinality({r \in Held : r.ts \in s .. e - 1})
                /\ \A i, j \in DOMAIN out : i < j => out[i].ts <= out[j].ts
=============================================================================
