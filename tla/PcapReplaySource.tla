--------------------------- MODULE PcapReplaySource ---------------------------
(***************************************************************************)
(* PcapReplaySource of src/src/replay.rs: the whole file is in memory and  *)
(* a cursor moves over it.  Left out: max_cap_minus_orig, a statistic.     *)
(***************************************************************************)
EXTENDS PcapFile

VARIABLES
    data,              \* the file
    cursor,            \* offset of the next record
    answer,            \* "new", "open", or why the replay was left
    replayed_read, replayed_truncated,  \* records_read, truncated_records
    replayed           \* history variable: the frames returned

replayVars == <<data, cursor, answer, replayed_read, replayed_truncated, replayed>>

ReplayTypeOK ==
    /\ data \in File
    /\ cursor \in Nat
    /\ answer \in {"new", "open", "Eof", "TruncatedRecord", "TruncatedData",
                   "ImplausibleLength", "IsPcapng", "BadMagic"}
    /\ replayed_read \in Nat /\ replayed_truncated \in Nat
    /\ replayed \in Seq([ts : Nat, len : Nat])

Answer(why) ==
    /\ answer' = why
    /\ UNCHANGED <<data, replayed_read, replayed_truncated, replayed>>

\* from_bytes()
FromBytes ==
    /\ answer = "new"
    /\ IF data.size < GlobalHeader
       THEN Answer("TruncatedRecord") /\ UNCHANGED cursor
       ELSE Answer(Verdict(data)) /\ cursor' = GlobalHeader

\* Mutant: off by one at the end of the file.
HeaderMissingOrLast == cursor + RecordHeader >= data.size

HeaderMissing == cursor + RecordHeader > data.size

\* The record the cursor points at.
AtCursor == {data.recs[i] : i \in {j \in DOMAIN data.recs :
                                     data.recs[j].at = cursor}}

NoMoreRecords ==
    /\ answer = "open" /\ HeaderMissing
    /\ Answer(IF cursor = data.size THEN "Eof" ELSE "TruncatedRecord")
    /\ UNCHANGED cursor

Refuse ==
    /\ answer = "open" /\ ~HeaderMissing
    /\ \E r \in AtCursor :
          \/ r.incl > MaxFrame /\ Answer("ImplausibleLength")
          \/ /\ r.incl <= MaxFrame
             /\ r.incl > data.size - (cursor + RecordHeader)
             /\ Answer("TruncatedData")
    /\ UNCHANGED cursor

Replay ==
    /\ answer = "open" /\ ~HeaderMissing
    /\ \E r \in AtCursor :
          /\ r.incl <= MaxFrame
          /\ r.incl <= data.size - (cursor + RecordHeader)
          /\ replayed' = Append(replayed, Frame(data, r))
          /\ replayed_truncated' = replayed_truncated
                                   + (IF r.incl < r.orig THEN 1 ELSE 0)
          /\ cursor' = cursor + RecordHeader + r.incl
    /\ replayed_read' = replayed_read + 1
    /\ UNCHANGED <<data, answer>>

ReplayInit ==
    /\ data \in File
    /\ cursor = 0 /\ answer = "new"
    /\ replayed_read = 0 /\ replayed_truncated = 0 /\ replayed = << >>

ReplayNext == FromBytes \/ NoMoreRecords \/ Refuse \/ Replay
=============================================================================
