---------------------------- MODULE EvidenceStore ----------------------------
(***************************************************************************)
(* What TraceSink of src/src/storage.rs promises its caller, whatever the  *)
(* backend: "trace evidence is append-only and immutable by design".  A    *)
(* row is accepted once, under a key no accepted row has, and stays.       *)
(***************************************************************************)
CONSTANT Row          \* TraceRow: records with at least ts and id

VARIABLE stored       \* the rows the store holds

SameKey(r, s) == r.ts = s.ts /\ r.id = s.id

Init == stored = {}

Accept(r) == /\ \A s \in stored : ~SameKey(r, s)
             /\ stored' = stored \cup {r}

Next == \E r \in Row : Accept(r)

Spec == Init /\ [][Next]_stored
=============================================================================
