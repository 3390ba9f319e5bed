----------------------------- MODULE TraceKeys -----------------------------
(***************************************************************************)
(* The key both backends of TraceSink keep a row under (OrderKey of        *)
(* src/src/storage.rs, rocksdb_key of src/src/trace.rs): the instant of    *)
(* the trip, then the trace id.  A trace id is a number here, its place in *)
(* the byte order of the strings, which is the order both maps sort by.    *)
(***************************************************************************)
EXTENDS Integers, FiniteSets

Key(r) == <<r.ts, r.id>>
Before(r, s) == r.ts < s.ts \/ (r.ts = s.ts /\ r.id < s.id)

\* A set of rows as an ordered map iterates over it: the i-th row has i - 1 of
\* them before it.
InKeyOrder(S) ==
    [i \in 1 .. Cardinality(S) |->
        CHOOSE r \in S : Cardinality({s \in S : Before(s, r)}) = i - 1]
=============================================================================
