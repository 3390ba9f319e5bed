------------------------- MODULE StreamingPcapSource -------------------------
(***************************************************************************)
(* StreamingPcapSource of src/src/stream.rs: records are pulled one at a   *)
(* time off a reader that may return any part of what it is asked for.     *)
(* One Fill step is one successful read() of the loops of                  *)
(* read_full_or_eof and read_exact_or_short; an interrupted read changes   *)
(* nothing and is a stuttering step.                                       *)
(*                                                                         *)
(* Whoever calls next_frame (run_with_manifest, preflight, discover) stops *)
(* at the first Ok(None) or Err: done is final.                            *)
(***************************************************************************)
EXTENDS PcapFile

CONSTANT NoHeader      \* no record header read yet

VARIABLES
    file,              \* the file behind the reader; never changes
    reading,           \* "global", "header", "body": the buffer being filled;
                       \* "done": the stream was left
    pos,               \* bytes taken from the reader
    filled,            \* bytes of the current buffer that are filled
    header,            \* the record header the body belongs to
    records_read, truncated_records, ended_mid_record,
    outcome,           \* why the stream was left
    frames             \* history variable: the frames returned

readerVars == <<reading, pos, filled, header, records_read, truncated_records,
                ended_mid_record, outcome, frames>>
streamVars == <<file, readerVars>>

StreamTypeOK ==
    /\ file \in File
    /\ reading \in {"global", "header", "body", "done"}
    /\ pos \in 0 .. file.size
    /\ filled \in Nat
    /\ reading = "body" => header \in Record
    /\ records_read \in Nat /\ truncated_records \in Nat
    /\ ended_mid_record \in BOOLEAN
    /\ outcome \in {"none", "Eof", "Io", "ImplausibleLength", "IsPcapng", "BadMagic"}
    /\ frames \in Seq([ts : Nat, len : Nat])

\* buf.len() of the read in progress.
Want == CASE reading = "global" -> GlobalHeader
          [] reading = "header" -> RecordHeader
          [] reading = "body"   -> header.incl
          [] OTHER              -> 0

\* read() returned n > 0 bytes, as many as it liked.
Fill(n) ==
    /\ filled + n <= Want /\ pos + n <= file.size
    /\ pos' = pos + n
    /\ filled' = filled + n
    /\ UNCHANGED <<file, reading, header, records_read, truncated_records,
                   ended_mid_record, outcome, frames>>

Leave(why) ==
    /\ reading' = "done"
    /\ outcome' = why
    /\ UNCHANGED <<file, pos, filled, header, records_read, truncated_records,
                   frames>>

\* read() returned 0 although the buffer is not full.
AtEnd == reading # "done" /\ filled < Want /\ pos = file.size

\* The global header: read_exact turns it into an error.
EndInGlobalHeader ==
    reading = "global" /\ AtEnd /\ Leave("Io") /\ UNCHANGED ended_mid_record

\* Mutant: a cut header is a clean end too.
EndAnywhereInHeader ==
    /\ reading = "header" /\ AtEnd
    /\ Leave("Eof") /\ UNCHANGED ended_mid_record

\* Before the first byte of a record header: clean end.
EndAtBoundary ==
    /\ reading = "header" /\ AtEnd /\ filled = 0
    /\ Leave("Eof") /\ UNCHANGED ended_mid_record

\* Mutants: a cut body is returned as it is; a cut header is read on and on.
EndMidRecordYields ==
    /\ AtEnd /\ reading = "body"
    /\ frames' = Append(frames, [ts |-> header.sec, len |-> filled])
    /\ reading' = "header" /\ filled' = 0
    /\ UNCHANGED <<file, pos, header, records_read, truncated_records,
                   ended_mid_record, outcome>>

EndMidBodyOnly ==
    /\ AtEnd /\ reading = "body"
    /\ ended_mid_record' = TRUE
    /\ Leave("Eof")

\* Inside a record.
EndMidRecord ==
    /\ AtEnd
    /\ reading = "body" \/ (reading = "header" /\ filled > 0)
    /\ ended_mid_record' = TRUE
    /\ Leave("Eof")

\* read() failed with anything but Interrupted.
ReadFails ==
    /\ reading # "done" /\ filled < Want
    /\ Leave("Io") /\ UNCHANGED ended_mid_record

\* new(): the global header is read.
Opened ==
    /\ reading = "global" /\ filled = Want
    /\ IF Verdict(file) = "open"
       THEN reading' = "header" /\ filled' = 0 /\ UNCHANGED outcome
       ELSE reading' = "done" /\ outcome' = Verdict(file) /\ UNCHANGED filled
    /\ UNCHANGED <<file, pos, header, records_read, truncated_records,
                   ended_mid_record, frames>>

\* The 16 bytes before pos are a record's header if one starts there.
HeaderRead == {file.recs[i] : i \in {j \in DOMAIN file.recs :
                                       file.recs[j].at = pos - RecordHeader}}

Implausible ==
    /\ reading = "header" /\ filled = Want
    /\ \E r \in HeaderRead : r.incl > MaxFrame
    /\ Leave("ImplausibleLength") /\ UNCHANGED ended_mid_record

HeaderDone ==
    /\ reading = "header" /\ filled = Want
    /\ \E r \in HeaderRead : r.incl <= MaxFrame /\ header' = r
    /\ reading' = "body"
    /\ filled' = 0
    /\ UNCHANGED <<file, pos, records_read, truncated_records,
                   ended_mid_record, outcome, frames>>

\* The body is read (a record without bytes needs no read): Ok(Some(frame)).
Yield ==
    /\ reading = "body" /\ filled = Want
    /\ frames' = Append(frames, Frame(file, header))
    /\ records_read' = records_read + 1
    /\ truncated_records' = truncated_records
                            + (IF header.incl < header.orig THEN 1 ELSE 0)
    /\ reading' = "header"
    /\ filled' = 0
    /\ header' = NoHeader
    /\ UNCHANGED <<file, pos, ended_mid_record, outcome>>

StreamInit ==
    /\ file \in File
    /\ reading = "global" /\ pos = 0 /\ filled = 0 /\ header = NoHeader
    /\ records_read = 0 /\ truncated_records = 0 /\ ended_mid_record = FALSE
    /\ outcome = "none" /\ frames = << >>

\* What the loops do while read() succeeds.
StreamProgress ==
    \/ \E n \in 1 .. Want : Fill(n)
    \/ EndInGlobalHeader \/ EndAtBoundary \/ EndMidRecord
    \/ Opened \/ Implausible \/ HeaderDone \/ Yield

StreamNext == StreamProgress \/ ReadFails
=============================================================================
