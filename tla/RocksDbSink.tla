----------------------------- MODULE RocksDbSink -----------------------------
(***************************************************************************)
(* RocksDbSink of src/src/storage.rs (feature rocksdb-sink): put is a get, *)
(* a write and an increment of the row count, and the process may die      *)
(* between any two of them; open counts the rows it finds.                 *)
(*                                                                         *)
(* The database is external: a key-value map whose writes survive the      *)
(* death of the process.  db.put is called with the default write options, *)
(* which do not sync the write-ahead log: when the machine loses power, a  *)
(* most recent part of the writes may be gone, the older part intact.      *)
(***************************************************************************)
EXTENDS TraceKeys, Sequences

CONSTANTS Row,         \* records [ts, id, evidence]: any a caller may put
          Trace,       \* CausalTraces, records with ts and id; evidence that
                       \* is none of them does not parse as one
          Instant      \* bounds a caller may scan between

ASSUME RowAssumption ==
    /\ \A r \in Row : r.ts \in Nat /\ r.id \in Nat
    /\ Instant \subseteq Nat

VARIABLES log,       \* the rows in the database, in the order written
          count,     \* the sink's row count
          state,     \* "closed", "ready", "checked" (no such key), "written"
          pending,   \* the row being put, as a set of at most one
          answer,    \* what the last put returned
          acked,     \* history variable: the rows put returned Ok for
          powerLost  \* history variable: the machine has lost power once

vars == <<log, count, state, pending, answer, acked, powerLost>>

Stored == {log[i] : i \in DOMAIN log}
Has(r) == \E s \in Stored : Key(s) = Key(r)

TypeOK == /\ log \in Seq(Row)
          /\ count \in Nat
          /\ state \in {"closed", "ready", "checked", "written"}
          /\ pending \in SUBSET Row /\ Cardinality(pending) <= 1
          /\ answer \in {"none", "Ok", "DuplicateKey", "RocksDb"}
          /\ acked \subseteq Row /\ powerLost \in BOOLEAN

\* Mutants: the count starts at zero; the count misses the last row.
OpenUncounted ==
    /\ state = "closed"
    /\ state' = "ready"
    /\ count' = 0
    /\ answer' = "none"
    /\ UNCHANGED <<log, pending, acked, powerLost>>

OpenOneLess ==
    /\ state = "closed"
    /\ state' = "ready"
    /\ count' = Len(log) - 1
    /\ answer' = "none"
    /\ UNCHANGED <<log, pending, acked, powerLost>>

\* Opening scans the database to count its rows.
Open ==
    /\ state = "closed"
    /\ state' = "ready"
    /\ count' = Len(log)
    /\ answer' = "none"
    /\ UNCHANGED <<log, pending, acked, powerLost>>

PutDuplicate(r) ==
    /\ state = "ready" /\ Has(r)
    /\ answer' = "DuplicateKey"
    /\ UNCHANGED <<log, count, state, pending, acked, powerLost>>

PutCheck(r) ==
    /\ state = "ready" /\ ~Has(r)
    /\ state' = "checked"
    /\ pending' = {r}
    /\ answer' = "none"
    /\ UNCHANGED <<log, count, acked, powerLost>>

\* Mutant: the write stays in a batch nobody commits.
PutBatched ==
    /\ state = "checked"
    /\ state' = "written"
    /\ UNCHANGED <<log, count, pending, answer, acked, powerLost>>

\* Mutant: the row is written under its timestamp alone.
PutUnderTs ==
    /\ state = "checked"
    /\ \E r \in pending :
          log' = Append(SelectSeq(log, LAMBDA s : s.ts # r.ts), r)
    /\ state' = "written"
    /\ UNCHANGED <<count, pending, answer, acked, powerLost>>

PutWrite ==
    /\ state = "checked"
    /\ \E r \in pending : log' = Append(log, r)
    /\ state' = "written"
    /\ UNCHANGED <<count, pending, answer, acked, powerLost>>

PutCount ==
    /\ state = "written"
    /\ count' = count + 1
    /\ acked' = acked \cup pending
    /\ answer' = "Ok"
    /\ state' = "ready"
    /\ pending' = {}
    /\ UNCHANGED <<log, powerLost>>

\* The database refuses the get or the write: `?' returns before the count.
PutFails ==
    /\ state \in {"ready", "checked"}
    /\ state' = "ready"
    /\ answer' = "RocksDb"
    /\ pending' = {}
    /\ UNCHANGED <<log, count, acked, powerLost>>

\* The process dies; what it had not written is gone, its count too.
Crash ==
    /\ state # "closed"
    /\ state' = "closed"
    /\ count' = 0
    /\ pending' = {}
    /\ answer' = "none"
    /\ UNCHANGED <<log, acked, powerLost>>

PowerCut ==
    /\ state # "closed"
    /\ \E n \in 0 .. Len(log) : log' = SubSeq(log, 1, n)
    /\ state' = "closed"
    /\ count' = 0
    /\ pending' = {}
    /\ answer' = "none"
    /\ powerLost' = TRUE
    /\ UNCHANGED acked

Init == /\ log = << >> /\ count = 0 /\ state = "closed" /\ pending = {}
        /\ answer = "none" /\ acked = {} /\ powerLost = FALSE

Next == \/ Open
        \/ \E r \in Row : PutDuplicate(r) \/ PutCheck(r)
        \/ PutWrite \/ PutCount \/ PutFails
        \/ Crash \/ PowerCut

Spec == Init /\ [][Next]_vars

\* TraceRow::from_trace: every column is taken from the trace.
FromTrace(t) == [ts |-> t.ts, id |-> t.id, evidence |-> t]

\* Mutant: the end instant included.
VisitedClosed(start, end) ==
    InKeyOrder({r \in Stored : r.ts >= start /\ r.ts <= end})

\* The entries range rebuilds a row from: seek to the start instant, stop at
\* the first ts >= end.
Visited(start, end) ==
    LET from == InKeyOrder({r \in Stored : r.ts >= start})
        past == {i \in DOMAIN from : from[i].ts >= end}
    IN  IF past = {} THEN from
        ELSE SubSeq(from, 1, (CHOOSE i \in past : \A j \in past : i <= j) - 1)

Answer(result, list) == [result |-> result, rows |-> list]

\* The answers range may give: the iterator may fail at any entry; only the
\* evidence was stored, so each row is made again from the trace it parses as,
\* and one entry that parses as none ends the whole scan.
DbRange(start, end) ==
    LET visited == Visited(start, end) IN
    {Answer("RocksDb", << >>),
     IF \A i \in DOMAIN visited : visited[i].evidence \in Trace
     THEN Answer("Ok", [i \in DOMAIN visited |-> FromTrace(visited[i].evidence)])
     ELSE Answer("Serde", << >>)}

-----------------------------------------------------------------------------
(* Properties.                                                             *)

\* len() is the number of rows in the database whenever no put is under way:
\* after a death between the write and the increment as well.
CountMatchesRows == state = "ready" => count = Cardinality(Stored)

\* storage.rs: "survives power loss with WAL".  A row put returned Ok for is in
\* the database.
AcknowledgedRowsSurvive == acked \subseteq Stored

\* What holds of it: no number of deaths of the process, at any point of a put,
\* loses an acknowledged row.
AcknowledgedRowsSurviveDeaths ==
    ~powerLost => acked \subseteq Stored

Store == INSTANCE EvidenceStore WITH stored <- Stored

\* As long as the power holds, putting, dying half way and reopening implement
\* the append-only evidence store; a power cut is the one step that does not.
ImplementsStore == Store!Init /\ [][Store!Next \/ PowerCut]_Stored
=============================================================================
