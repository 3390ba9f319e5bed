---------------------------- MODULE CaptureReaders ----------------------------
(***************************************************************************)
(* The two readers of one capture file: `run' replays it from memory, the  *)
(* other commands stream it.  Here the same file is streamed, in parts of  *)
(* any size and with a read that may fail, and then replayed.              *)
(***************************************************************************)
EXTENDS StreamingPcapSource, PcapReplaySource

vars == <<streamVars, replayVars>>

Init == StreamInit /\ data = file /\ ReplayInit

Next == \/ StreamNext /\ UNCHANGED replayVars
        \/ reading = "done" /\ ReplayNext /\ UNCHANGED streamVars

\* What neither a failing read nor the end keeps from happening.
Progress == \/ StreamProgress /\ UNCHANGED replayVars
            \/ reading = "done" /\ ReplayNext /\ UNCHANGED streamVars

\* Both are plain loops of a caller that goes on until it is told to stop, on a
\* file that does not grow.  That a read fails is never assumed.
Spec == Init /\ [][Next]_vars /\ WF_vars(Progress)

-----------------------------------------------------------------------------
(* Properties.                                                             *)

TypeOK == StreamTypeOK /\ ReplayTypeOK

\* However the reads are cut, and wherever one fails, the stream has returned
\* the first frames of the file, whole and in order, and never a part of one.
YieldsWholeFrames ==
    /\ Len(frames) <= Len(file.recs)
    /\ \A i \in 1 .. Len(frames) : i \in Whole(file)
    /\ frames = FirstFrames(file, Len(frames))

\* If no read failed the stream has returned all of them when it ends, and
\* "file ended mid-record. Distinct from a clean EOF at a record boundary":
\* ended_mid_record tells whether the file is cut inside a record.
EndsExactly ==
    outcome = "Eof" =>
        /\ DOMAIN frames = Whole(file)
        /\ ended_mid_record <=> ~EndsAtBoundary(file)

\* "Format support is identical to the eager reader": same frames, same counts,
\* and the same reason to stop, where the stream's flag stands for the replay's
\* errors about a cut file.
SameReason ==
    IF outcome = "Eof" /\ ended_mid_record
    THEN answer \in {"TruncatedRecord", "TruncatedData"}
    ELSE answer = outcome

ReadersAgree ==
    answer \notin {"new", "open"} =>
        /\ file.size < GlobalHeader => outcome = "Io" /\ answer = "TruncatedRecord"
        /\ outcome # "Io" => /\ frames = replayed
                            /\ records_read = replayed_read
                            /\ truncated_records = replayed_truncated
                            /\ SameReason

\* Either reader is a CaptureSource of the frames wholly in its file: it hands
\* them over one by one, ends when it has handed over all, and gives nothing
\* after that.  The replay, which has its file in memory, keeps no frame back
\* for an error.
Streamed == INSTANCE CaptureSource WITH
    MayFail <- TRUE, there <- Contents(file), handed <- frames,
    ended <- CASE outcome = "none" -> "no" [] outcome = "Eof" -> "None" [] OTHER -> "Err"
Replayed == INSTANCE CaptureSource WITH
    MayFail <- FALSE, there <- Contents(data), handed <- replayed,
    ended <- CASE answer \in {"new", "open"} -> "no" [] answer = "Eof" -> "None"
               [] OTHER -> "Err"

ReadersAreSources == Streamed!Spec /\ Replayed!Spec

\* Both come to an end on every file.
ReadersEnd == <>(reading = "done" /\ answer \notin {"new", "open"})
=============================================================================
