---------------------------- MODULE CaptureSource ----------------------------
(***************************************************************************)
(* What the trait CaptureSource of src/src/ingest.rs promises a caller of  *)
(* next_frame when there is a fixed number of frames to be had: they come  *)
(* one at a time and in order, Ok(None) comes when all have come, and      *)
(* whoever got Ok(None) or an error does not ask again.                    *)
(***************************************************************************)
EXTENDS Integers, Sequences

CONSTANT MayFail      \* an error may keep frames back (a failing read)

VARIABLES there,      \* the frames to be had
          handed,     \* the frames handed over
          ended       \* "no", "None" or "Err": the answer that ended it

sourceVars == <<there, handed, ended>>

Init == handed = << >> /\ ended = "no"

HandOver ==
    /\ ended = "no" /\ Len(handed) + 1 \in DOMAIN there
    /\ handed' = Append(handed, there[Len(handed) + 1])
    /\ UNCHANGED <<there, ended>>

EndOfStream ==
    /\ ended = "no" /\ handed = there
    /\ ended' = "None"
    /\ UNCHANGED <<there, handed>>

Fail ==
    /\ ended = "no" /\ (MayFail \/ handed = there)
    /\ ended' = "Err"
    /\ UNCHANGED <<there, handed>>

Next == HandOver \/ EndOfStream \/ Fail

Spec == Init /\ [][Next]_sourceVars
=============================================================================
