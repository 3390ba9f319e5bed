--------------------------- MODULE MCCaptureReaders ---------------------------
(* Every file of up to two records without bytes, with two (the limit) and *)
(* with three bytes (implausible), captured whole or cut by the snap       *)
(* length, that stops after any number of bytes.                           *)
EXTENDS CaptureReaders

CONSTANT Magic

MCRecord(f, at, i) == [at |-> at, sec |-> i, frac |-> 1 + i,
                       incl |-> f[i].incl, orig |-> f[i].orig]
MCShape == [incl : 0 .. 3, orig : {2}]
MCRecords ==
    {<< >>} \cup {<<MCRecord(<<a>>, 24, 1)>> : a \in MCShape}
    \cup {<<MCRecord(<<a, b>>, 24, 1), MCRecord(<<a, b>>, 40 + a.incl, 2)>> :
             a \in MCShape, b \in MCShape}
MCFile == {f \in [magic : Magic, recs : MCRecords, size : 0 .. 62] :
              f.size <= Boundary(f, Len(f.recs) + 1)}
=============================================================================
