------------------------------- MODULE PcapFile -------------------------------
(***************************************************************************)
(* A classic capture file as src/src/stream.rs and src/src/replay.rs see   *)
(* it: a global header of 24 bytes, then records, each a header of 16      *)
(* bytes and incl_len bytes of frame.  The file may stop anywhere (a       *)
(* capture cut by a full disk or an unfinished download).                  *)
(*                                                                         *)
(* A file is its magic, the records it was written with, each with the     *)
(* offset it starts at, and the number of bytes it has.  Bytes themselves  *)
(* are not modelled: the fields are those the writer wrote, in the order   *)
(* the magic declares.                                                     *)
(***************************************************************************)
EXTENDS Integers, Sequences

CONSTANTS File,        \* the capture files
          MaxFrame     \* MAX_FRAME: lengths beyond it are implausible

GlobalHeader == 24
RecordHeader == 16

\* Where the i-th record ends, where it starts, and where a whole file ends
\* (one past the last record).
RecordEnd(f, i) == f.recs[i].at + RecordHeader + f.recs[i].incl
Boundary(f, i)  == IF i = 1 THEN GlobalHeader ELSE RecordEnd(f, i - 1)

Record == [at : Nat, sec : Nat, frac : Nat, incl : Nat, orig : Nat]

ASSUME FileAssumption ==
    \A f \in File :
        /\ f.magic \in {"usec", "nsec", "pcapng", "other"}
        /\ f.recs \in Seq(Record)
        /\ \A i \in DOMAIN f.recs : f.recs[i].at = Boundary(f, i)
        /\ f.size \in 0 .. Boundary(f, Len(f.recs) + 1)
ASSUME MaxFrameAssumption == MaxFrame \in Nat

\* What new() and from_bytes() answer to the magic.
Verdict(f) == CASE f.magic = "pcapng" -> "IsPcapng"
                [] f.magic = "other"  -> "BadMagic"
                [] OTHER              -> "open"

\* (ts_ns, frame) of a record: seconds and a fraction in ns or in us.
Frame(f, r) ==
    [ts  |-> r.sec * 1000000000 + r.frac * (IF f.magic = "nsec" THEN 1 ELSE 1000),
     len |-> r.incl]

-----------------------------------------------------------------------------
(* Reference: what there is to read.                                       *)

\* The records that are wholly in the file, before any implausible one.
Whole(f) == {i \in DOMAIN f.recs :
                /\ RecordEnd(f, i) <= f.size
                /\ \A j \in 1 .. i : f.recs[j].incl <= MaxFrame}

\* The file ends between two records.
EndsAtBoundary(f) == \E i \in 1 .. Len(f.recs) + 1 : f.size = Boundary(f, i)

\* The frames to be had: none if the magic is refused.
Contents(f) ==
    IF Verdict(f) = "open" THEN [i \in Whole(f) |-> Frame(f, f.recs[i])] ELSE << >>

\* The first n frames of the file.
FirstFrames(f, n) == [i \in 1 .. n |-> Frame(f, f.recs[i])]
=============================================================================
