------------------------ MODULE CaptureReadersProofs ------------------------
(***************************************************************************)
(* For every capture file, every way its reads are cut into parts and any  *)
(* read that fails: the stream returns whole frames in order, it ends      *)
(* exactly where the file does, and it agrees with the replay.             *)
(***************************************************************************)
EXTENDS CaptureReaders, LeastPositions, FiniteSetTheorems, SequenceTheorems

-----------------------------------------------------------------------------
(* How far into a file a reader is, and the three ways it can stop there.  *)

\* The first n records have been taken.
Taken(f, n) ==
    /\ n \in 0 .. Len(f.recs)
    /\ GlobalHeader <= f.size /\ Boundary(f, n + 1) <= f.size
    /\ \A j \in 1 .. n : f.recs[j].incl <= MaxFrame

\* The next record is there, header and body.
HasNext(f, n) ==
    /\ n + 1 \in DOMAIN f.recs /\ f.recs[n + 1].incl <= MaxFrame
    /\ RecordEnd(f, n + 1) <= f.size

\* The file ends in its header, or in its body.
CutAt(f, n) ==
    /\ n + 1 \in DOMAIN f.recs
    /\ \/ /\ f.recs[n + 1].at < f.size
          /\ f.size < f.recs[n + 1].at + RecordHeader
       \/ /\ f.recs[n + 1].incl <= MaxFrame
          /\ f.recs[n + 1].at + RecordHeader <= f.size
          /\ f.size < RecordEnd(f, n + 1)

\* Its length is implausible.
Refused(f, n) ==
    /\ n + 1 \in DOMAIN f.recs /\ f.recs[n + 1].incl > MaxFrame
    /\ f.recs[n + 1].at + RecordHeader <= f.size

Stops(f, n) == f.size = Boundary(f, n + 1) \/ CutAt(f, n) \/ Refused(f, n)

\* Those of the first n records the capture cut short.
Truncated(f, n) == {i \in 1 .. n : f.recs[i].incl < f.recs[i].orig}

-----------------------------------------------------------------------------
(* The layout of a file.                                                   *)

LEMMA FileShape ==
  ASSUME NEW f \in File
  PROVE  /\ f.recs \in Seq(Record) /\ Len(f.recs) \in Nat
         /\ DOMAIN f.recs = 1 .. Len(f.recs)
         /\ f.size \in Int
         /\ f.size <= Boundary(f, Len(f.recs) + 1)
<1>1. f.recs \in Seq(Record) /\ f.size \in 0 .. Boundary(f, Len(f.recs) + 1)
  BY FileAssumption
<1>2. Len(f.recs) \in Nat /\ DOMAIN f.recs = 1 .. Len(f.recs)
  BY <1>1
<1>3. f.size \in Int /\ f.size <= Boundary(f, Len(f.recs) + 1)
  BY <1>1
<1> QED
  BY <1>1, <1>2, <1>3

LEMMA RecordShape ==
  ASSUME NEW f \in File, NEW i \in 1 .. Len(f.recs)
  PROVE  /\ f.recs[i] \in Record
         /\ f.recs[i].at \in Nat /\ f.recs[i].incl \in Nat
         /\ f.recs[i].orig \in Nat
         /\ RecordEnd(f, i) = f.recs[i].at + RecordHeader + f.recs[i].incl
         /\ RecordEnd(f, i) \in Nat
         /\ f.recs[i].at + RecordHeader <= RecordEnd(f, i)
         /\ f.recs[i].at < RecordEnd(f, i)
         /\ Boundary(f, i) = f.recs[i].at
         /\ Boundary(f, i + 1) = RecordEnd(f, i)
<1>1. f.recs[i] \in Record
  BY FileShape, ElementOfSeq
<1>2. f.recs[i].at \in Nat /\ f.recs[i].incl \in Nat /\ f.recs[i].orig \in Nat
  BY <1>1 DEF Record
<1>3. Boundary(f, i) = f.recs[i].at
  BY FileShape, FileAssumption
<1>4. i + 1 # 1 /\ (i + 1) - 1 = i
  BY FileShape
<1>5. Boundary(f, i + 1) = RecordEnd(f, i)
  BY <1>4, Zenon DEF Boundary
<1> QED
  BY <1>1, <1>2, <1>3, <1>5 DEF RecordEnd, RecordHeader

\* Records do not overlap: the first that would start before the end of an
\* earlier one starts where the record before it ends.
LEMMA NoOverlap ==
  ASSUME NEW f \in File, NEW i \in 1 .. Len(f.recs), NEW k \in 1 .. Len(f.recs),
         i < k
  PROVE  RecordEnd(f, i) <= f.recs[k].at
<1> DEFINE Bad == {j \in 1 .. Len(f.recs) :
                      i < j /\ ~(RecordEnd(f, i) <= f.recs[j].at)}
<1> SUFFICES ASSUME Bad # {}  PROVE FALSE
  OBVIOUS
<1>1. Bad \in SUBSET Nat
  BY FileShape
<1>2. PICK j \in Bad : \A l \in Bad : j <= l
  <2> HIDE DEF Bad
  <2> QED
    BY <1>1, LeastPosition
<1>3. /\ j \in 1 .. Len(f.recs) /\ i < j /\ i \in Nat /\ j \in Nat
      /\ j - 1 \in 1 .. Len(f.recs) /\ ~(j <= j - 1) /\ (j - 1) + 1 = j
  BY <1>2, FileShape
<1>4. f.recs[j].at = RecordEnd(f, j - 1)
  <2>1. Boundary(f, (j - 1) + 1) = RecordEnd(f, j - 1)
    BY <1>3, RecordShape
  <2> QED
    BY <1>3, <2>1, RecordShape
<1>5. CASE j - 1 = i
  <2>1. RecordEnd(f, i) \in Nat
    BY RecordShape
  <2> QED
    BY <1>2, <1>4, <1>5, <2>1
<1>6. CASE j - 1 # i
  <2>1. i < j - 1 /\ j - 1 \notin Bad
    <3>1. i < j - 1
      BY <1>3, <1>6
    <3> HIDE DEF Bad
    <3> QED
      BY <1>2, <1>3, <3>1
  <2>2. RecordEnd(f, i) <= f.recs[j - 1].at
    BY <1>3, <2>1
  <2>3. /\ RecordEnd(f, i) \in Nat /\ RecordEnd(f, j - 1) \in Nat
        /\ f.recs[j - 1].at \in Nat /\ f.recs[j - 1].at < RecordEnd(f, j - 1)
    BY <1>3, RecordShape
  <2>4. RecordEnd(f, i) <= f.recs[j].at
    BY <1>4, <2>2, <2>3
  <2> QED
    BY <1>2, <2>4
<1> QED
  BY <1>5, <1>6

\* Records lie one behind the other.
LEMMA Boundaries ==
  ASSUME NEW f \in File, NEW i \in 1 .. Len(f.recs),
         NEW j \in 1 .. Len(f.recs) + 1, i < j
  PROVE  Boundary(f, j) \in Nat /\ RecordEnd(f, i) <= Boundary(f, j)
<1>1. CASE j \in 1 .. Len(f.recs)
  <2>1. RecordEnd(f, i) <= f.recs[j].at
    BY <1>1, FileShape, NoOverlap
  <2> QED
    BY <1>1, <2>1, RecordShape
<1>2. CASE j = Len(f.recs) + 1
  <2> DEFINE last == Len(f.recs)
  <2>1. last \in 1 .. Len(f.recs)
    BY FileShape
  <2>2. Boundary(f, j) = RecordEnd(f, last) /\ RecordEnd(f, last) \in Nat
    BY <1>2, <2>1, RecordShape
  <2>3. CASE i = last
    BY <2>2, <2>3
  <2>4. CASE i < last
    <3>1. RecordEnd(f, i) <= f.recs[last].at
      BY <2>1, <2>4, FileShape, NoOverlap
    <3>2. f.recs[last].at < RecordEnd(f, last)
      BY <2>1, RecordShape
    <3>3. RecordEnd(f, i) \in Nat /\ f.recs[last].at \in Nat
      BY <2>1, RecordShape
    <3> QED
      BY <2>2, <3>1, <3>2, <3>3
  <2> QED
    BY <2>1, <2>3, <2>4
<1> QED
  BY <1>1, <1>2, FileShape

\* A record header is found at a boundary and nowhere else.
LEMMA OneRecordAt ==
  ASSUME NEW f \in File, NEW n \in 1 .. Len(f.recs)
  PROVE  {f.recs[i] : i \in {j \in DOMAIN f.recs : f.recs[j].at = f.recs[n].at}}
            = {f.recs[n]}
<1>1. ASSUME NEW j \in 1 .. Len(f.recs), f.recs[j].at = f.recs[n].at
      PROVE  j = n
  <2>1. ASSUME NEW a \in 1 .. Len(f.recs), NEW b \in 1 .. Len(f.recs), a < b
        PROVE  f.recs[a].at < f.recs[b].at
    <3>1. RecordEnd(f, a) <= f.recs[b].at
      BY <2>1, FileShape, NoOverlap
    <3>2. f.recs[a].at \in Nat /\ f.recs[a].at < RecordEnd(f, a) /\ RecordEnd(f, a) \in Nat
      BY RecordShape
    <3>3. f.recs[b].at \in Nat
      BY RecordShape
    <3> QED
      BY <3>1, <3>2, <3>3, SMTT(30)
  <2>2. n \in Int /\ j \in Int /\ f.recs[n].at \in Nat
    BY FileShape, RecordShape
  <2>3. ~(j < n) /\ ~(n < j)
    BY <1>1, <2>1, <2>2
  <2> QED
    BY <2>2, <2>3
<1> QED
  BY <1>1, FileShape

\* What has been taken is whole; where a reader stops, nothing else is.
LEMMA TakenIsWhole ==
  ASSUME NEW f \in File, NEW n, Taken(f, n)
  PROVE  1 .. n \subseteq Whole(f)
<1> SUFFICES ASSUME NEW i \in 1 .. n  PROVE i \in Whole(f)
  OBVIOUS
<1>1. n \in 0 .. Len(f.recs) /\ i \in 1 .. Len(f.recs)
      /\ n + 1 \in 1 .. Len(f.recs) + 1 /\ i < n + 1
  BY FileShape DEF Taken
<1>2. Boundary(f, n + 1) \in Nat /\ RecordEnd(f, i) <= Boundary(f, n + 1)
  BY <1>1, Boundaries
<1>3. RecordEnd(f, i) <= f.size
  BY <1>1, <1>2, FileShape, RecordShape DEF Taken
<1> QED
  BY <1>1, <1>3, FileShape DEF Taken, Whole

LEMMA StopsAtLastWhole ==
  ASSUME NEW f \in File, NEW n, Taken(f, n), Stops(f, n)
  PROVE  Whole(f) = 1 .. n
<1>1. n \in 0 .. Len(f.recs) /\ Len(f.recs) \in Nat
  BY FileShape DEF Taken
<1>2. ASSUME NEW i \in Whole(f), i > n  PROVE FALSE
  <2>1. /\ i \in 1 .. Len(f.recs) /\ n + 1 \in 1 .. Len(f.recs)
        /\ RecordEnd(f, i) <= f.size
        /\ f.recs[n + 1].incl <= MaxFrame
    BY <1>1, <1>2, FileShape DEF Whole
  <2>2. RecordEnd(f, n + 1) <= f.size
    <3>1. CASE i = n + 1
      BY <2>1, <3>1
    <3>2. CASE n + 1 < i
      <4>1. RecordEnd(f, n + 1) <= Boundary(f, i) /\ Boundary(f, i) = f.recs[i].at
        BY <2>1, <3>2, Boundaries, RecordShape, FileShape
      <4>2. /\ RecordEnd(f, n + 1) \in Nat /\ f.recs[i].at \in Nat
            /\ RecordEnd(f, i) \in Nat /\ f.recs[i].at < RecordEnd(f, i)
            /\ f.size \in Int
        BY <2>1, RecordShape, FileShape
      <4> QED
        BY <2>1, <4>1, <4>2
    <3> QED
      BY <1>1, <1>2, <2>1, <3>1, <3>2
  <2> DEFINE r == f.recs[n + 1]
  <2>3. /\ Boundary(f, n + 1) = r.at
        /\ r.at \in Nat /\ r.incl \in Nat
        /\ r.at < RecordEnd(f, n + 1) /\ RecordEnd(f, n + 1) \in Nat
        /\ r.at + RecordHeader <= RecordEnd(f, n + 1)
    BY <2>1, RecordShape
  <2>4. f.size \in Int /\ RecordHeader \in Int
    BY FileShape DEF RecordHeader
  <2>5. CASE f.size = Boundary(f, n + 1)
    BY <2>2, <2>3, <2>4, <2>5
  <2>6. CASE CutAt(f, n)
    BY <2>2, <2>3, <2>4, <2>6 DEF CutAt
  <2>7. CASE Refused(f, n)
    BY <2>1, <2>3, <2>7, MaxFrameAssumption DEF Refused
  <2> QED
    BY <2>5, <2>6, <2>7 DEF Stops
<1>3. \A i \in Whole(f) : i \in 1 .. Len(f.recs)
  BY FileShape DEF Whole
<1>4. \A i \in Whole(f) : i \in 1 .. n
  BY <1>1, <1>2, <1>3
<1> QED
  BY <1>4, TakenIsWhole

LEMMA CutIsNoBoundary ==
  ASSUME NEW f \in File, NEW n, Taken(f, n), CutAt(f, n)
  PROVE  ~EndsAtBoundary(f)
<1> SUFFICES ASSUME NEW i \in 1 .. Len(f.recs) + 1, f.size = Boundary(f, i)
             PROVE  FALSE
  BY DEF EndsAtBoundary
<1>1. n \in 0 .. Len(f.recs) /\ n + 1 \in 1 .. Len(f.recs) /\ Len(f.recs) \in Nat
  BY FileShape DEF Taken, CutAt
<1> DEFINE r == f.recs[n + 1]
<1>0. /\ r.at \in Nat /\ r.incl \in Nat /\ f.size \in Int
      /\ RecordEnd(f, n + 1) = r.at + RecordHeader + r.incl
  BY <1>1, RecordShape, FileShape
<1>2. f.recs[n + 1].at < f.size /\ f.size < RecordEnd(f, n + 1)
  <2> HIDE DEF r
  <2>1. \/ r.at < f.size /\ f.size < r.at + RecordHeader
        \/ r.at + RecordHeader <= f.size /\ f.size < RecordEnd(f, n + 1)
    BY DEF CutAt, r
  <2>2. r.at < f.size /\ f.size < RecordEnd(f, n + 1)
    BY <1>0, <2>1 DEF RecordHeader
  <2> QED
    BY <2>2 DEF r
<1>3. CASE n + 1 < i
  BY <1>1, <1>2, <1>3, Boundaries, RecordShape, FileShape
<1>4. CASE i = n + 1
  BY <1>1, <1>2, <1>4, RecordShape, FileShape
<1>5. CASE i < n + 1
  <2>1. i \in 1 .. Len(f.recs) /\ Boundary(f, i) = f.recs[i].at
    BY <1>1, <1>5, RecordShape
  <2>2. RecordEnd(f, i) <= f.recs[n + 1].at
    BY <1>1, <1>5, <2>1, FileShape, NoOverlap
  <2>3. f.recs[i].at \in Nat /\ f.recs[i].at < RecordEnd(f, i) /\ RecordEnd(f, i) \in Nat
        /\ f.recs[n + 1].at \in Nat /\ f.size \in Int
    BY <1>1, <2>1, RecordShape, FileShape
  <2> QED
    BY <1>2, <2>1, <2>2, <2>3
<1> QED
  BY <1>1, <1>3, <1>4, <1>5

\* A reader that has taken n records has one reason to stop at most.
LEMMA StopsOneWay ==
  ASSUME NEW f \in File, NEW n, Taken(f, n)
  PROVE  /\ ~(f.size = Boundary(f, n + 1) /\ CutAt(f, n))
         /\ ~(f.size = Boundary(f, n + 1) /\ Refused(f, n))
         /\ ~(CutAt(f, n) /\ Refused(f, n))
<1>1. CASE n + 1 \in DOMAIN f.recs
  <2> DEFINE r == f.recs[n + 1]
  <2>1. /\ r.at \in Nat /\ r.incl \in Nat /\ f.size \in Int
        /\ Boundary(f, n + 1) = r.at
    BY <1>1, FileShape, RecordShape
  <2> QED
    BY <2>1, MaxFrameAssumption DEF CutAt, Refused, RecordHeader
<1>2. CASE n + 1 \notin DOMAIN f.recs
  BY <1>2 DEF CutAt, Refused
<1> QED
  BY <1>1, <1>2

\* Taking one more record.
LEMMA TakesNext ==
  ASSUME NEW f \in File, NEW n, Taken(f, n), HasNext(f, n)
  PROVE  Taken(f, n + 1)
<1>1. n \in 0 .. Len(f.recs) /\ n + 1 \in 1 .. Len(f.recs) /\ Len(f.recs) \in Nat
  BY FileShape DEF Taken, HasNext
<1>2. Boundary(f, (n + 1) + 1) = RecordEnd(f, n + 1)
  BY <1>1, RecordShape
<1> QED
  BY <1>1, <1>2 DEF Taken, HasNext

\* Where the next record starts, or the whole file ends.
LEMMA TakenShape ==
  ASSUME NEW f \in File, NEW n, Taken(f, n)
  PROVE  /\ n \in Nat /\ Boundary(f, n + 1) \in Int
         /\ n + 1 \in DOMAIN f.recs => Boundary(f, n + 1) = f.recs[n + 1].at
         /\ Boundary(f, n + 1) < f.size => n + 1 \in DOMAIN f.recs
<1>1. n \in 0 .. Len(f.recs) /\ Len(f.recs) \in Nat /\ n \in Nat
  BY FileShape DEF Taken
<1>2. n + 1 \in 1 .. Len(f.recs) => Boundary(f, n + 1) = f.recs[n + 1].at
                                  /\ f.recs[n + 1].at \in Nat
  BY RecordShape
<1>3. n = Len(f.recs) => f.size <= Boundary(f, n + 1)
  BY FileShape
<1>4. CASE n + 1 \in 1 .. Len(f.recs)
  BY <1>1, <1>2, <1>4, FileShape
<1>5. CASE n = Len(f.recs)
  <2>1. n = 0 \/ n \in 1 .. Len(f.recs)
    BY <1>1, <1>5
  <2>2. Boundary(f, n + 1) \in Int
    BY <1>1, <2>1, RecordShape DEF Boundary, GlobalHeader
  <2> QED
    BY <1>1, <1>3, <1>5, <2>2, FileShape
<1> QED
  BY <1>1, <1>4, <1>5

LEMMA TruncatedGrows ==
  ASSUME NEW f \in File, NEW n \in Nat, n + 1 \in DOMAIN f.recs
  PROVE  /\ Cardinality(Truncated(f, n)) \in Nat
         /\ Cardinality(Truncated(f, n + 1)) =
               Cardinality(Truncated(f, n))
               + (IF f.recs[n + 1].incl < f.recs[n + 1].orig THEN 1 ELSE 0)
<1>1. IsFiniteSet(Truncated(f, n))
  <2>1. IsFiniteSet(1 .. n)
    BY FS_Interval
  <2> QED
    BY <2>1, FS_Subset DEF Truncated
<1>2. Cardinality(Truncated(f, n)) \in Nat
  BY <1>1, FS_CardinalityType
<1>3. n + 1 \notin Truncated(f, n)
  BY DEF Truncated
<1>4. CASE f.recs[n + 1].incl < f.recs[n + 1].orig
  <2>1. Truncated(f, n + 1) = Truncated(f, n) \cup {n + 1}
    BY <1>4 DEF Truncated
  <2> QED
    BY <1>1, <1>2, <1>3, <1>4, <2>1, FS_AddElement
<1>5. CASE ~(f.recs[n + 1].incl < f.recs[n + 1].orig)
  <2>1. Truncated(f, n + 1) = Truncated(f, n)
    BY <1>5 DEF Truncated
  <2> QED
    BY <1>2, <1>5, <2>1
<1> QED
  BY <1>2, <1>4, <1>5

-----------------------------------------------------------------------------
(* The inductive invariant: where each reader is, and why it has stopped.  *)

Counted(f, n, read, truncated) ==
    read = n /\ truncated = Cardinality(Truncated(f, n))

StreamInv ==
    LET n == Len(frames)
    IN  /\ file \in File /\ filled \in Nat /\ pos \in 0 .. file.size
        /\ n \in Nat /\ frames = FirstFrames(file, n)
        /\ Counted(file, n, records_read, truncated_records)
        /\ reading \in {"global", "header", "body", "done"}
        /\ reading # "done" => outcome = "none"
        /\ outcome # "Eof" => ended_mid_record = FALSE
        /\ reading = "global" => n = 0 /\ pos = filled /\ filled <= GlobalHeader
        /\ n = 0 \/ Taken(file, n)
        /\ reading \in {"header", "body"} \/ outcome \in {"Eof", "ImplausibleLength"}
              => Verdict(file) = "open" /\ Taken(file, n)
        /\ reading = "header" =>
              filled <= RecordHeader /\ pos = Boundary(file, n + 1) + filled
        /\ reading = "body" =>
              /\ n + 1 \in DOMAIN file.recs /\ header = file.recs[n + 1]
              /\ header.incl <= MaxFrame
              /\ filled <= header.incl
              /\ pos = header.at + RecordHeader + filled

StreamEnd ==
    LET n == Len(frames)
    IN  /\ ended_mid_record \in BOOLEAN
        /\ outcome = "Eof" /\ ended_mid_record => CutAt(file, n)
        /\ outcome = "Eof" /\ ~ended_mid_record => file.size = Boundary(file, n + 1)
        /\ outcome = "ImplausibleLength" => Refused(file, n)
        /\ outcome \in {"IsPcapng", "BadMagic"} =>
              outcome = Verdict(file) /\ n = 0 /\ GlobalHeader <= file.size
        /\ outcome \in {"none", "Eof", "Io", "ImplausibleLength", "IsPcapng",
                        "BadMagic"}
        /\ reading = "done" => outcome # "none"

ReplayInv ==
    LET n == Len(replayed)
    IN  /\ data = file /\ cursor \in Nat
        /\ n \in Nat /\ replayed = FirstFrames(data, n)
        /\ Counted(data, n, replayed_read, replayed_truncated)
        /\ answer # "new" => reading = "done"
        /\ answer = "new" => n = 0
        /\ answer = "open" => cursor = Boundary(data, n + 1)
        /\ answer \in {"open", "Eof", "TruncatedData", "ImplausibleLength"}
              => Verdict(data) = "open" /\ Taken(data, n)

ReplayEnd ==
    LET n == Len(replayed)
    IN  /\ answer \in {"new", "open", "Eof", "TruncatedRecord", "TruncatedData",
                       "ImplausibleLength", "IsPcapng", "BadMagic"}
        /\ answer = "Eof" => data.size = Boundary(data, n + 1)
        /\ answer = "TruncatedRecord" =>
              \/ data.size < GlobalHeader /\ n = 0
              \/ Verdict(data) = "open" /\ Taken(data, n) /\ CutAt(data, n)
        /\ answer = "TruncatedData" => CutAt(data, n)
        /\ answer = "ImplausibleLength" => Refused(data, n)
        /\ answer \in {"IsPcapng", "BadMagic"} =>
              answer = Verdict(data) /\ n = 0 /\ GlobalHeader <= data.size

ReadersInv == StreamInv /\ StreamEnd /\ ReplayInv /\ ReplayEnd

-----------------------------------------------------------------------------
(* The steps of the stream.                                                *)

LEMMA FramesGrow ==
  ASSUME NEW f, NEW n \in Nat
  PROVE  /\ Len(FirstFrames(f, n)) = n
         /\ Append(FirstFrames(f, n), Frame(f, f.recs[n + 1])) = FirstFrames(f, n + 1)
  BY DEF FirstFrames

LEMMA FillKeeps ==
  ASSUME StreamInv, StreamEnd, NEW k \in 1 .. Want, Fill(k)
  PROVE  StreamInv' /\ StreamEnd'
<1>1. k \in Nat /\ reading \in {"global", "header", "body"}
  BY DEF StreamInv, Want
<1>2. /\ filled' \in Nat /\ pos' \in 0 .. file'.size
      /\ pos' = pos + k /\ filled' = filled + k /\ filled + k <= Want
  BY <1>1 DEF StreamInv, Fill
<1>3. Len(frames)' = Len(frames)
  BY DEF Fill
<1>4. CASE reading = "global"
  BY <1>2, <1>3, <1>4 DEF StreamInv, StreamEnd, Fill, Want, Counted
<1>5. CASE reading = "header"
  <2>1. Taken(file, Len(frames))
    BY <1>5 DEF StreamInv
  <2>2. Boundary(file, Len(frames) + 1) \in Int
    BY <2>1, <1>5, TakenShape DEF StreamInv
  <2>3. pos' = Boundary(file, Len(frames) + 1) + filled'
    BY <1>1, <1>2, <1>5, <2>2 DEF StreamInv
  <2>4. filled' <= RecordHeader
    BY <1>2, <1>5 DEF Want
  <2> QED
    BY <1>2, <1>3, <1>5, <2>3, <2>4 DEF StreamInv, StreamEnd, Fill, Counted
<1>6. CASE reading = "body"
  <2>1. header.at \in Nat /\ RecordHeader \in Nat
    BY <1>6, RecordShape, FileShape DEF StreamInv, RecordHeader
  <2>2. pos' = header.at + RecordHeader + filled' /\ filled' <= header.incl
    BY <1>1, <1>2, <1>6, <2>1, SMTT(30) DEF StreamInv, Want
  <2> QED
    BY <1>2, <1>3, <1>6, <2>2 DEF StreamInv, StreamEnd, Fill, Counted
<1> QED
  BY <1>1, <1>4, <1>5, <1>6

\* Leaving with any reason that is not a claim about the file.
LEMMA LeaveKeeps ==
  ASSUME StreamInv, StreamEnd, reading # "done", NEW why, Leave(why),
         why # "Eof" => UNCHANGED ended_mid_record,
         why \in {"Eof", "ImplausibleLength"} =>
            Verdict(file) = "open" /\ Taken(file, Len(frames))
  PROVE  StreamInv'
  BY DEF StreamInv, Leave

LEMMA EndsKeep ==
  ASSUME StreamInv, StreamEnd, EndInGlobalHeader \/ EndAtBoundary \/ ReadFails
  PROVE  StreamInv' /\ StreamEnd'
<1>1. CASE EndInGlobalHeader
  <2>1. StreamInv'
    BY <1>1, LeaveKeeps DEF EndInGlobalHeader, AtEnd
  <2> QED
    BY <1>1, <2>1 DEF EndInGlobalHeader, AtEnd, Leave, StreamInv, StreamEnd
<1>2. CASE EndAtBoundary
  <2>1. Verdict(file) = "open" /\ Taken(file, Len(frames)) /\ reading = "header"
    BY <1>2 DEF EndAtBoundary, StreamInv
  <2>2. StreamInv'
    BY <1>2, <2>1, LeaveKeeps DEF EndAtBoundary
  <2>3. file.size = Boundary(file, Len(frames) + 1)
    BY <1>2, <2>1, TakenShape DEF EndAtBoundary, AtEnd, StreamInv
  <2> QED
    BY <1>2, <2>1, <2>2, <2>3 DEF EndAtBoundary, Leave, StreamInv, StreamEnd
<1>3. CASE ReadFails
  <2>1. StreamInv'
    BY <1>3, LeaveKeeps DEF ReadFails
  <2> QED
    BY <1>3, <2>1 DEF ReadFails, Leave, StreamInv, StreamEnd
<1> QED
  BY <1>1, <1>2, <1>3

LEMMA EndMidRecordKeeps ==
  ASSUME StreamInv, StreamEnd, EndMidRecord
  PROVE  StreamInv' /\ StreamEnd'
<1> DEFINE n == Len(frames)
<1>1. /\ reading \in {"header", "body"} /\ pos = file.size /\ filled < Want
      /\ file \in File /\ Verdict(file) = "open" /\ Taken(file, n)
  BY DEF EndMidRecord, AtEnd, StreamInv
<1>2. StreamInv'
  BY <1>1, LeaveKeeps DEF EndMidRecord
<1>3. n \in Nat /\ Boundary(file, n + 1) \in Int /\ file.size \in Int
      /\ filled \in Nat /\ RecordHeader \in Nat
  BY <1>1, TakenShape, FileShape DEF StreamInv, RecordHeader
<1>4. ASSUME reading = "header"  PROVE CutAt(file, n)
  <2>1. /\ filled > 0 /\ filled < RecordHeader
        /\ file.size = Boundary(file, n + 1) + filled
    BY <1>1, <1>3, <1>4 DEF EndMidRecord, StreamInv, Want
  <2>2. n + 1 \in DOMAIN file.recs /\ Boundary(file, n + 1) = file.recs[n + 1].at
    BY <1>1, <1>3, <2>1, TakenShape
  <2> QED
    BY <1>3, <2>1, <2>2 DEF CutAt
<1>5. ASSUME reading = "body"  PROVE CutAt(file, n)
  <2>1. /\ n + 1 \in DOMAIN file.recs /\ file.recs[n + 1].incl <= MaxFrame
        /\ filled < file.recs[n + 1].incl
        /\ file.size = file.recs[n + 1].at + RecordHeader + filled
    BY <1>1, <1>5 DEF StreamInv, Want
  <2>2. /\ file.recs[n + 1].at \in Nat /\ file.recs[n + 1].incl \in Nat
        /\ RecordEnd(file, n + 1)
              = file.recs[n + 1].at + RecordHeader + file.recs[n + 1].incl
    BY <1>1, <2>1, FileShape, RecordShape
  <2> QED
    BY <1>3, <2>1, <2>2, SMTT(30) DEF CutAt
<1>6. CutAt(file, n)
  BY <1>1, <1>4, <1>5
<1> QED
  BY <1>2, <1>6 DEF EndMidRecord, Leave, StreamEnd

LEMMA OpenedKeeps ==
  ASSUME StreamInv, StreamEnd, Opened
  PROVE  StreamInv' /\ StreamEnd'
<1> DEFINE n == Len(frames)
<1>1. /\ n = 0 /\ pos = GlobalHeader /\ GlobalHeader <= file.size /\ file \in File
      /\ outcome = "none" /\ n' = n
  BY DEF Opened, StreamInv, Want
<1>2. Boundary(file, n + 1) = GlobalHeader
  BY <1>1 DEF Boundary
<1>3. Taken(file, n)
  BY <1>1, <1>2, FileShape DEF Taken
<1>4. Verdict(file) \in {"open", "IsPcapng", "BadMagic"}
  BY DEF Verdict
<1>5. CASE Verdict(file) = "open"
  BY <1>1, <1>2, <1>3, <1>5 DEF Opened, StreamInv, StreamEnd, Counted, GlobalHeader, RecordHeader
<1>6. CASE Verdict(file) # "open"
  BY <1>1, <1>4, <1>6 DEF Opened, StreamInv, StreamEnd, Counted
<1> QED
  BY <1>5, <1>6

\* The header that has just been read is the next record's.
LEMMA HeaderIsNext ==
  ASSUME StreamInv, reading = "header", filled = Want
  PROVE  /\ Len(frames) + 1 \in DOMAIN file.recs
         /\ HeaderRead = {file.recs[Len(frames) + 1]}
         /\ pos = file.recs[Len(frames) + 1].at + RecordHeader
<1> DEFINE n == Len(frames)
<1>1. /\ file \in File /\ Taken(file, n) /\ pos <= file.size
      /\ pos = Boundary(file, n + 1) + RecordHeader
  BY FileShape DEF StreamInv, Want
<1>2. n \in Nat /\ Boundary(file, n + 1) \in Int /\ file.size \in Int
  BY <1>1, TakenShape, FileShape
<1>3. Boundary(file, n + 1) < file.size
  BY <1>1, <1>2 DEF RecordHeader
<1>4. n + 1 \in DOMAIN file.recs /\ Boundary(file, n + 1) = file.recs[n + 1].at
  BY <1>1, <1>3, TakenShape
<1>5. pos - RecordHeader = file.recs[n + 1].at
  BY <1>1, <1>2, <1>4 DEF RecordHeader
<1>6. {file.recs[i] : i \in {j \in DOMAIN file.recs :
                                file.recs[j].at = file.recs[n + 1].at}}
         = {file.recs[n + 1]}
  BY <1>1, <1>4, OneRecordAt, FileShape
<1>7. pos = file.recs[n + 1].at + RecordHeader
  BY <1>1, <1>4
<1> QED
  BY <1>4, <1>5, <1>6, <1>7, Zenon DEF HeaderRead

LEMMA ImplausibleKeeps ==
  ASSUME StreamInv, StreamEnd, Implausible
  PROVE  StreamInv' /\ StreamEnd'
<1>1. Verdict(file) = "open" /\ Taken(file, Len(frames)) /\ reading = "header"
  BY DEF Implausible, StreamInv
<1>2. StreamInv'
  BY <1>1, LeaveKeeps DEF Implausible
<1>3. Refused(file, Len(frames))
  <2> DEFINE r == file.recs[Len(frames) + 1]
  <2>1. /\ Len(frames) + 1 \in DOMAIN file.recs /\ r.incl > MaxFrame
        /\ pos = r.at + RecordHeader
    BY HeaderIsNext DEF Implausible
  <2>2. r.at \in Nat /\ file.size \in Int /\ pos <= file.size
    BY <2>1, FileShape, RecordShape, SMTT(30) DEF StreamInv
  <2> QED
    BY <2>1, <2>2 DEF Refused
<1> QED
  BY <1>1, <1>2, <1>3 DEF Implausible, Leave, StreamInv, StreamEnd

LEMMA HeaderDoneKeeps ==
  ASSUME StreamInv, StreamEnd, HeaderDone
  PROVE  StreamInv' /\ StreamEnd'
<1> DEFINE n == Len(frames)
<1>1. /\ n + 1 \in DOMAIN file.recs /\ header' = file.recs[n + 1]
      /\ header'.incl <= MaxFrame
      /\ pos = header'.at + RecordHeader
  BY HeaderIsNext DEF HeaderDone
<1>2. header'.at \in Nat /\ header'.incl \in Nat
  BY <1>1, FileShape, RecordShape DEF StreamInv
<1> QED
  BY <1>1, <1>2 DEF HeaderDone, StreamInv, StreamEnd, Counted, RecordHeader

LEMMA YieldKeeps ==
  ASSUME StreamInv, StreamEnd, Yield
  PROVE  StreamInv' /\ StreamEnd'
<1> DEFINE n == Len(frames)
<1>1. /\ file \in File /\ n \in Nat /\ n + 1 \in DOMAIN file.recs
      /\ header = file.recs[n + 1] /\ header.incl <= MaxFrame
      /\ pos = header.at + RecordHeader + header.incl /\ pos <= file.size
      /\ Verdict(file) = "open" /\ Taken(file, n)
  BY FileShape DEF Yield, Want, StreamInv
<1>2. RecordEnd(file, n + 1) = pos /\ Boundary(file, (n + 1) + 1) = pos
  BY <1>1, FileShape, RecordShape
<1>3. Taken(file, n + 1)
  BY <1>1, <1>2, TakesNext DEF HasNext
<1>4. Len(frames') = n + 1 /\ frames' = FirstFrames(file, n + 1)
  <2>1. frames' = Append(FirstFrames(file, n), Frame(file, file.recs[n + 1]))
    BY <1>1 DEF Yield, StreamInv
  <2>2. frames' = FirstFrames(file, n + 1)
    BY <1>1, <2>1, FramesGrow
  <2>3. Len(FirstFrames(file, n + 1)) = n + 1
    BY <1>1, FramesGrow
  <2> QED
    BY <2>2, <2>3
<1>5. Counted(file, n + 1, records_read', truncated_records')
  BY <1>1, TruncatedGrows DEF Yield, StreamInv, Counted
<1>6. pos' = Boundary(file, (n + 1) + 1) + 0 /\ pos' \in 0 .. file.size
  BY <1>2 DEF Yield, StreamInv
<1>7. n + 1 \in Nat
  BY <1>1
<1> QED
  BY <1>1, <1>3, <1>4, <1>5, <1>6, <1>7 DEF Yield, StreamInv, StreamEnd, RecordHeader

LEMMA StreamKeeps ==
  ASSUME ReadersInv, StreamNext, UNCHANGED replayVars
  PROVE  ReadersInv'
<1>1. reading # "done" /\ UNCHANGED file
  BY DEF ReadersInv, StreamInv, StreamNext, StreamProgress, Fill, Want, EndInGlobalHeader, AtEnd,
         EndAtBoundary, EndMidRecord, ReadFails, Opened, Implausible, HeaderDone,
         Yield, Leave
<1>2. StreamInv' /\ StreamEnd'
  BY FillKeeps, EndsKeep, EndMidRecordKeeps, OpenedKeeps, ImplausibleKeeps,
     HeaderDoneKeeps, YieldKeeps DEF ReadersInv, StreamNext, StreamProgress
<1>3. ReplayInv' /\ ReplayEnd'
  BY <1>1 DEF ReadersInv, ReplayInv, ReplayEnd, replayVars
<1> QED
  BY <1>2, <1>3 DEF ReadersInv

-----------------------------------------------------------------------------
(* The steps of the replay.                                                *)

LEMMA FromBytesKeeps ==
  ASSUME data \in File, reading = "done", ReplayInv, ReplayEnd, FromBytes, UNCHANGED streamVars
  PROVE  ReplayInv' /\ ReplayEnd'
<1>1. Len(replayed) = 0
  BY DEF FromBytes, ReplayInv
<1>2. data.size \in Int /\ Boundary(data, 0 + 1) = GlobalHeader
  BY FileShape DEF Boundary
<1>3. CASE data.size < GlobalHeader
  BY <1>1, <1>3 DEF FromBytes, Answer, ReplayInv, ReplayEnd, Counted, streamVars, readerVars
<1>4. CASE ~(data.size < GlobalHeader)
  <2>1. GlobalHeader <= data.size /\ GlobalHeader \in Nat
    BY <1>2, <1>4 DEF GlobalHeader
  <2>2. Taken(data, 0)
    BY <1>2, <2>1, FileShape DEF Taken
  <2>3. Verdict(data) \in {"open", "IsPcapng", "BadMagic"}
    BY DEF Verdict
  <2> QED
    BY <1>1, <1>2, <1>4, <2>1, <2>2, <2>3
       DEF FromBytes, Answer, ReplayInv, ReplayEnd, Counted, streamVars, readerVars
<1> QED
  BY <1>3, <1>4

\* The record at the cursor is the next one.
LEMMA CursorAtNext ==
  ASSUME data \in File, ReplayInv, answer = "open", ~HeaderMissing
  PROVE  /\ Len(replayed) + 1 \in DOMAIN data.recs
         /\ AtCursor = {data.recs[Len(replayed) + 1]}
         /\ cursor = data.recs[Len(replayed) + 1].at
         /\ cursor + RecordHeader <= data.size
<1> DEFINE n == Len(replayed)
<1>1. /\ Taken(data, n) /\ cursor = Boundary(data, n + 1) /\ cursor \in Nat
      /\ ~(cursor + RecordHeader > data.size)
  BY DEF ReplayInv, HeaderMissing
<1>2. cursor + RecordHeader <= data.size /\ cursor < data.size
  BY <1>1, FileShape DEF RecordHeader
<1>3. n + 1 \in DOMAIN data.recs /\ cursor = data.recs[n + 1].at
  BY <1>1, <1>2, TakenShape
<1>4. {data.recs[i] : i \in {j \in DOMAIN data.recs :
                                data.recs[j].at = data.recs[n + 1].at}}
         = {data.recs[n + 1]}
  BY <1>3, OneRecordAt, FileShape
<1> QED
  BY <1>2, <1>3, <1>4, Zenon DEF AtCursor

LEMMA NoMoreRecordsKeeps ==
  ASSUME data \in File, reading = "done", ReplayInv, ReplayEnd, NoMoreRecords, UNCHANGED streamVars
  PROVE  ReplayInv' /\ ReplayEnd'
<1> DEFINE n == Len(replayed)
<1>1. /\ Taken(data, n) /\ cursor = Boundary(data, n + 1) /\ cursor \in Nat
      /\ cursor + RecordHeader > data.size /\ Verdict(data) = "open"
      /\ data.size \in Int
  BY FileShape DEF NoMoreRecords, ReplayInv, HeaderMissing
<1>2. CASE cursor = data.size
  BY <1>1, <1>2 DEF NoMoreRecords, Answer, ReplayInv, ReplayEnd, Counted, streamVars, readerVars
<1>3. CASE cursor # data.size
  <2>1. cursor < data.size
    BY <1>1, <1>3, TakenShape DEF Taken
  <2>2. CutAt(data, n)
    BY <1>1, <2>1, TakenShape DEF CutAt
  <2> QED
    BY <1>1, <1>3, <2>2 DEF NoMoreRecords, Answer, ReplayInv, ReplayEnd, Counted, streamVars, readerVars
<1> QED
  BY <1>2, <1>3

LEMMA RefuseKeeps ==
  ASSUME data \in File, reading = "done", ReplayInv, ReplayEnd, Refuse, UNCHANGED streamVars
  PROVE  ReplayInv' /\ ReplayEnd'
<1> DEFINE n == Len(replayed)
           r == data.recs[n + 1]
<1>1. /\ Taken(data, n) /\ Verdict(data) = "open"
      /\ n + 1 \in DOMAIN data.recs /\ AtCursor = {r} /\ cursor = r.at
      /\ cursor + RecordHeader <= data.size
  BY CursorAtNext DEF Refuse, ReplayInv
<1>2. /\ r.at \in Nat /\ r.incl \in Nat /\ data.size \in Int /\ RecordHeader \in Nat
      /\ RecordEnd(data, n + 1) = r.at + RecordHeader + r.incl
  BY <1>1, FileShape, RecordShape DEF RecordHeader
<1>3. CASE r.incl > MaxFrame /\ Answer("ImplausibleLength")
  <2>1. Refused(data, n)
    BY <1>1, <1>3 DEF Refused
  <2> QED
    BY <1>1, <1>3, <2>1 DEF Refuse, Answer, ReplayInv, ReplayEnd, Counted, streamVars, readerVars
<1>4. CASE /\ r.incl <= MaxFrame
           /\ r.incl > data.size - (cursor + RecordHeader)
           /\ Answer("TruncatedData")
  <2>1. data.size < RecordEnd(data, n + 1)
    BY <1>1, <1>2, <1>4, SMTT(30)
  <2>2. CutAt(data, n)
    BY <1>1, <1>4, <2>1 DEF CutAt
  <2> QED
    BY <1>1, <1>4, <2>2 DEF Refuse, Answer, ReplayInv, ReplayEnd, Counted, streamVars, readerVars
<1> QED
  BY <1>1, <1>3, <1>4 DEF Refuse

LEMMA ReplayKeeps ==
  ASSUME data \in File, reading = "done", ReplayInv, ReplayEnd, Replay, UNCHANGED streamVars
  PROVE  ReplayInv' /\ ReplayEnd'
<1> DEFINE n == Len(replayed)
           r == data.recs[n + 1]
<1>1. /\ Taken(data, n) /\ Verdict(data) = "open" /\ n \in Nat
      /\ n + 1 \in DOMAIN data.recs /\ AtCursor = {r} /\ cursor = r.at
      /\ replayed = FirstFrames(data, n)
      /\ Counted(data, n, replayed_read, replayed_truncated)
  BY CursorAtNext DEF Replay, ReplayInv
<1>2. /\ r.incl <= MaxFrame
      /\ r.incl <= data.size - (cursor + RecordHeader)
      /\ replayed' = Append(replayed, Frame(data, r))
      /\ replayed_truncated' = replayed_truncated + (IF r.incl < r.orig THEN 1 ELSE 0)
      /\ cursor' = cursor + RecordHeader + r.incl
      /\ replayed_read' = replayed_read + 1
      /\ UNCHANGED <<data, answer>> /\ answer = "open"
  BY <1>1 DEF Replay
<1>3. /\ r.at \in Nat /\ r.incl \in Nat /\ data.size \in Int /\ RecordHeader \in Nat
      /\ RecordEnd(data, n + 1) = r.at + RecordHeader + r.incl
      /\ Boundary(data, (n + 1) + 1) = RecordEnd(data, n + 1)
  BY <1>1, FileShape, RecordShape DEF RecordHeader
<1>4. RecordEnd(data, n + 1) <= data.size /\ cursor' = Boundary(data, (n + 1) + 1)
      /\ cursor' \in Nat
  <2>1. r.incl <= data.size - (cursor + RecordHeader) /\ cursor = r.at
        /\ cursor' = cursor + RecordHeader + r.incl
    BY <1>1, <1>2
  <2> HIDE DEF r
  <2>2. RecordEnd(data, n + 1) = cursor' /\ cursor' \in Nat
    BY <1>3, <2>1
  <2>3. cursor' <= data.size
    BY <1>3, <2>1
  <2> QED
    BY <1>3, <2>2, <2>3
<1>5. Taken(data, n + 1)
  BY <1>1, <1>2, <1>4, TakesNext DEF HasNext
<1>6. Len(replayed') = n + 1 /\ replayed' = FirstFrames(data, n + 1)
  <2>1. replayed' = FirstFrames(data, n + 1)
    BY <1>1, <1>2, FramesGrow
  <2>2. Len(FirstFrames(data, n + 1)) = n + 1
    BY <1>1, FramesGrow
  <2> QED
    BY <2>1, <2>2
<1>7. Counted(data, n + 1, replayed_read', replayed_truncated')
  BY <1>1, <1>2, TruncatedGrows DEF Counted
<1>8. n + 1 \in Nat
  BY <1>1
<1>9. data' = data /\ answer' = "open" /\ file' = file /\ reading' = "done"
  BY <1>2 DEF streamVars, readerVars
<1>10. data = file
  BY DEF ReplayInv
<1> QED
  BY <1>1, <1>4, <1>5, <1>6, <1>7, <1>8, <1>9, <1>10 DEF ReplayInv, ReplayEnd

LEMMA ReplayStepKeeps ==
  ASSUME ReadersInv, reading = "done", ReplayNext, UNCHANGED streamVars
  PROVE  ReadersInv'
<1>1. data \in File
  BY DEF ReadersInv, ReplayInv, StreamInv
<1>2. ReplayInv' /\ ReplayEnd'
  BY <1>1, FromBytesKeeps, NoMoreRecordsKeeps, RefuseKeeps, ReplayKeeps
     DEF ReadersInv, ReplayNext
<1>3. StreamInv' /\ StreamEnd'
  BY DEF ReadersInv, StreamInv, StreamEnd, streamVars, readerVars
<1> QED
  BY <1>2, <1>3 DEF ReadersInv

LEMMA ReadersInvInit == Init => ReadersInv
<1> SUFFICES ASSUME Init  PROVE ReadersInv
  OBVIOUS
<1>1. file \in File /\ data = file
  BY DEF Init, StreamInit
<1>2. file.size \in Nat
  BY <1>1, FileShape, FileAssumption
<1>3. Truncated(file, 0) = {} /\ Cardinality({}) = 0
  BY FS_EmptySet DEF Truncated
<1>4. << >> = FirstFrames(file, 0) /\ Len(<< >>) = 0
  BY DEF FirstFrames
<1>5. StreamInv
  BY <1>1, <1>2, <1>3, <1>4 DEF Init, StreamInit, StreamInv, Counted, GlobalHeader
<1>6. StreamEnd
  BY DEF Init, StreamInit, StreamEnd
<1>7. ReplayInv
  BY <1>1, <1>3, <1>4 DEF Init, StreamInit, ReplayInit, ReplayInv, Counted
<1>8. ReplayEnd
  BY DEF Init, ReplayInit, ReplayEnd
<1> QED
  BY <1>5, <1>6, <1>7, <1>8 DEF ReadersInv

LEMMA ReadersInvStep == ReadersInv /\ [Next]_vars => ReadersInv'
<1> SUFFICES ASSUME ReadersInv, [Next]_vars  PROVE ReadersInv'
  OBVIOUS
<1>1. CASE StreamNext /\ UNCHANGED replayVars
  BY <1>1, StreamKeeps
<1>2. CASE reading = "done" /\ ReplayNext /\ UNCHANGED streamVars
  BY <1>2, ReplayStepKeeps
<1>3. CASE UNCHANGED vars
  BY <1>3 DEF vars, streamVars, readerVars, replayVars, ReadersInv, StreamInv,
     StreamEnd, ReplayInv, ReplayEnd
<1> QED
  BY <1>1, <1>2, <1>3 DEF Next

LEMMA ReadersInvAlways == Spec => []ReadersInv
  BY ReadersInvInit, ReadersInvStep, PTL DEF Spec

-----------------------------------------------------------------------------
(* What follows.                                                           *)

\* The frames taken so far have stamps and lengths.
LEMMA FramesTyped ==
  ASSUME NEW f \in File, NEW n \in Nat, n = 0 \/ Taken(f, n)
  PROVE  FirstFrames(f, n) \in Seq([ts : Nat, len : Nat])
<1>1. \A i \in 1 .. n : i \in 1 .. Len(f.recs)
  BY FileShape DEF Taken
<1>2. ASSUME NEW i \in 1 .. n  PROVE Frame(f, f.recs[i]) \in [ts : Nat, len : Nat]
  <2>1. f.recs[i].sec \in Nat /\ f.recs[i].frac \in Nat /\ f.recs[i].incl \in Nat
    BY <1>1, RecordShape DEF Record
  <2> QED
    BY <2>1 DEF Frame
<1> DEFINE S == [ts : Nat, len : Nat]
           list == [i \in 1 .. n |-> Frame(f, f.recs[i])]
<1>3. list \in [1 .. n -> S]
  BY <1>2
<1>4. list \in Seq(S)
  <2> HIDE DEF list, S
  <2> QED
    BY <1>3
<1> QED
  BY <1>4 DEF FirstFrames

LEMMA TruncatedCounts ==
  ASSUME NEW f, NEW n \in Nat
  PROVE  Cardinality(Truncated(f, n)) \in Nat
<1>1. IsFiniteSet(1 .. n)
  BY FS_Interval
<1>2. IsFiniteSet(Truncated(f, n))
  BY <1>1, FS_Subset DEF Truncated
<1> QED
  BY <1>2, FS_CardinalityType

\* The frames the stream has returned are the first of the file, whole and in
\* order, at every moment and after any failure.
THEOREM StreamYieldsWholeFrames == Spec => []YieldsWholeFrames
<1>1. ReadersInv => YieldsWholeFrames
  <2> SUFFICES ASSUME ReadersInv  PROVE YieldsWholeFrames
    OBVIOUS
  <2>1. /\ file \in File /\ frames = FirstFrames(file, Len(frames))
        /\ Len(frames) = 0 \/ Taken(file, Len(frames))
    BY DEF ReadersInv, StreamInv
  <2>2. Len(frames) <= Len(file.recs)
    BY <2>1, FileShape DEF Taken
  <2>3. \A i \in 1 .. Len(frames) : i \in Whole(file)
    BY <2>1, TakenIsWhole
  <2> QED
    BY <2>1, <2>2, <2>3 DEF YieldsWholeFrames
<1> QED
  BY <1>1, ReadersInvAlways, PTL

\* A stream that ends without an error has returned every whole frame, and its
\* flag tells whether the file is cut inside a record.
THEOREM StreamEndsExactly == Spec => []EndsExactly
<1>1. ReadersInv => EndsExactly
  <2> SUFFICES ASSUME ReadersInv, outcome = "Eof"
               PROVE  /\ DOMAIN frames = Whole(file)
                      /\ ended_mid_record <=> ~EndsAtBoundary(file)
    BY DEF EndsExactly
  <2> DEFINE n == Len(frames)
  <2>1. /\ file \in File /\ Taken(file, n) /\ n \in Nat
        /\ frames = FirstFrames(file, n) /\ ended_mid_record \in BOOLEAN
        /\ ended_mid_record => CutAt(file, n)
        /\ ~ended_mid_record => file.size = Boundary(file, n + 1)
    BY DEF ReadersInv, StreamInv, StreamEnd
  <2>2. DOMAIN frames = 1 .. n
    BY <2>1 DEF FirstFrames
  <2>3. Whole(file) = 1 .. n
    BY <2>1, StopsAtLastWhole DEF Stops
  <2>4. n + 1 \in 1 .. Len(file.recs) + 1
    BY <2>1, FileShape DEF Taken
  <2>5. CASE ended_mid_record
    BY <2>1, <2>2, <2>3, <2>5, CutIsNoBoundary
  <2>6. CASE ~ended_mid_record
    BY <2>1, <2>2, <2>3, <2>4, <2>6 DEF EndsAtBoundary
  <2> QED
    BY <2>1, <2>5, <2>6
<1> QED
  BY <1>1, ReadersInvAlways, PTL

\* The stream and the replay of a file agree on its frames, on their counts and
\* on why there are no more.
THEOREM StreamAgreesWithReplay == Spec => []ReadersAgree
<1>1. ReadersInv => ReadersAgree
  <2> SUFFICES ASSUME ReadersInv, answer \notin {"new", "open"}
               PROVE  /\ file.size < GlobalHeader =>
                            outcome = "Io" /\ answer = "TruncatedRecord"
                      /\ outcome # "Io" => /\ frames = replayed
                                          /\ records_read = replayed_read
                                          /\ truncated_records = replayed_truncated
                                          /\ SameReason
    BY DEF ReadersAgree
  <2> DEFINE n == Len(frames)
             m == Len(replayed)
  <2>1. /\ file \in File /\ data = file /\ reading = "done"
        /\ n \in Nat /\ m \in Nat
        /\ frames = FirstFrames(file, n) /\ replayed = FirstFrames(file, m)
        /\ Counted(file, n, records_read, truncated_records)
        /\ Counted(file, m, replayed_read, replayed_truncated)
        /\ ended_mid_record \in BOOLEAN
        /\ file.size \in Int
    BY FileShape DEF ReadersInv, StreamInv, StreamEnd, ReplayInv, ReplayEnd
  <2>2. /\ outcome \in {"Eof", "Io", "ImplausibleLength", "IsPcapng", "BadMagic"}
        /\ answer \in {"Eof", "TruncatedRecord", "TruncatedData",
                       "ImplausibleLength", "IsPcapng", "BadMagic"}
    BY <2>1 DEF ReadersInv, StreamEnd, ReplayEnd
  <2>3. CASE outcome \in {"Eof", "ImplausibleLength"}
    <3>1. /\ Verdict(file) = "open" /\ Taken(file, n) /\ Stops(file, n)
          /\ ~(file.size < GlobalHeader)
      BY <2>1, <2>3 DEF ReadersInv, StreamInv, StreamEnd, Stops, Taken, GlobalHeader
    <3>2. answer \in {"Eof", "TruncatedRecord", "TruncatedData", "ImplausibleLength"}
      BY <2>1, <2>2, <3>1 DEF ReadersInv, ReplayEnd
    <3>3. /\ Taken(file, m) /\ Stops(file, m)
          /\ answer = "Eof" => file.size = Boundary(file, m + 1)
          /\ answer \in {"TruncatedRecord", "TruncatedData"} => CutAt(file, m)
          /\ answer = "ImplausibleLength" => Refused(file, m)
      BY <2>1, <3>1, <3>2 DEF ReadersInv, ReplayInv, ReplayEnd, Stops
    <3>4. 1 .. n = 1 .. m
      BY <2>1, <3>1, <3>3, StopsAtLastWhole
    <3>5. n = m
      BY <2>1, <3>4
    <3>6. /\ outcome = "Eof" /\ ended_mid_record => CutAt(file, m)
          /\ outcome = "Eof" /\ ~ended_mid_record => file.size = Boundary(file, m + 1)
          /\ outcome = "ImplausibleLength" => Refused(file, m)
          /\ outcome # "Eof" => ~ended_mid_record
      BY <3>5 DEF ReadersInv, StreamInv, StreamEnd
    <3>7. SameReason
      BY <2>1, <2>3, <3>2, <3>3, <3>6, StopsOneWay DEF SameReason
    <3> QED
      BY <2>1, <3>1, <3>5, <3>7 DEF Counted
  <2>4. CASE outcome \in {"IsPcapng", "BadMagic"}
    <3>1. outcome = Verdict(file) /\ n = 0 /\ ~(file.size < GlobalHeader)
          /\ ended_mid_record = FALSE
      BY <2>1, <2>4 DEF ReadersInv, StreamInv, StreamEnd, GlobalHeader
    <3>2. answer = Verdict(file) /\ m = 0
      BY <2>1, <2>2, <2>4, <3>1 DEF ReadersInv, ReplayInv, ReplayEnd
    <3> QED
      BY <2>1, <2>4, <3>1, <3>2 DEF Counted, SameReason
  <2>5. CASE outcome = "Io"
    <3>1. file.size < GlobalHeader => answer = "TruncatedRecord"
      BY <2>1, <2>2 DEF ReadersInv, ReplayInv, ReplayEnd, Taken, GlobalHeader
    <3> QED
      BY <2>5, <3>1
  <2> QED
    BY <2>2, <2>3, <2>4, <2>5
<1> QED
  BY <1>1, ReadersInvAlways, PTL

\* The variables of both readers always have their types: no counter, flag or
\* frame is ever anything else, whatever the file.
THEOREM ReadersTypeCorrect == Spec => []TypeOK
<1>1. ReadersInv => TypeOK
  <2> SUFFICES ASSUME ReadersInv  PROVE TypeOK
    OBVIOUS
  <2>1. /\ file \in File /\ data = file
        /\ Len(frames) \in Nat /\ frames = FirstFrames(file, Len(frames))
        /\ Len(replayed) \in Nat /\ replayed = FirstFrames(file, Len(replayed))
        /\ Len(frames) = 0 \/ Taken(file, Len(frames))
    BY DEF ReadersInv, StreamInv, ReplayInv
  <2>2. Len(replayed) = 0 \/ Taken(file, Len(replayed))
    BY <2>1 DEF ReadersInv, ReplayInv, ReplayEnd
  <2>3. frames \in Seq([ts : Nat, len : Nat]) /\ replayed \in Seq([ts : Nat, len : Nat])
    BY <2>1, <2>2, FramesTyped
  <2>4. /\ records_read \in Nat /\ truncated_records \in Nat
        /\ replayed_read \in Nat /\ replayed_truncated \in Nat
    BY <2>1, TruncatedCounts DEF ReadersInv, StreamInv, ReplayInv, Counted
  <2>5. reading = "body" => header \in Record
    BY <2>1, FileShape, ElementOfSeq DEF ReadersInv, StreamInv
  <2> QED
    BY <2>1, <2>3, <2>4, <2>5
       DEF ReadersInv, StreamInv, StreamEnd, ReplayInv, ReplayEnd, TypeOK,
           StreamTypeOK, ReplayTypeOK
<1> QED
  BY <1>1, ReadersInvAlways, PTL

-----------------------------------------------------------------------------
(* Either reader is a CaptureSource.                                       *)

\* A reader that stands behind the n-th frame has the next one still to hand
\* over if that frame is taken next, and has handed over all if it stops there.
LEMMA NextOfContents ==
  ASSUME NEW f \in File, NEW n \in Nat, Verdict(f) = "open", Taken(f, n + 1)
  PROVE  /\ n + 1 \in DOMAIN Contents(f)
         /\ Contents(f)[n + 1] = Frame(f, f.recs[n + 1])
<1>1. n + 1 \in Whole(f)
  BY TakenIsWhole
<1> QED
  BY <1>1 DEF Contents

LEMMA AllOfContents ==
  ASSUME NEW f \in File, NEW n, Verdict(f) = "open", Taken(f, n), Stops(f, n)
  PROVE  FirstFrames(f, n) = Contents(f)
<1>1. Whole(f) = 1 .. n
  BY StopsAtLastWhole
<1> QED
  BY <1>1 DEF Contents, FirstFrames

LEMMA NothingRefused ==
  ASSUME NEW f, Verdict(f) # "open"
  PROVE  FirstFrames(f, 0) = Contents(f)
  BY DEF Contents, FirstFrames

\* Of a file without a whole global header there is nothing to be had.
LEMMA NothingBehindCutHeader ==
  ASSUME NEW f \in File, f.size < GlobalHeader
  PROVE  FirstFrames(f, 0) = Contents(f)
<1>1. ASSUME NEW i \in Whole(f)  PROVE FALSE
  <2>1. i \in 1 .. Len(f.recs) /\ RecordEnd(f, i) <= f.size
    BY <1>1, FileShape DEF Whole
  <2>2. RecordEnd(f, i) = f.recs[i].at + RecordHeader + f.recs[i].incl
        /\ f.recs[i].at \in Nat /\ f.recs[i].incl \in Nat
    BY <2>1, RecordShape
  <2>3. GlobalHeader <= f.recs[i].at
    <3>1. CASE i = 1
      BY <2>1, <3>1, RecordShape, FileShape, FileAssumption DEF Boundary
    <3>2. CASE i # 1
      <4>1. 1 \in 1 .. Len(f.recs) /\ 1 < i
        BY <2>1, <3>2, FileShape
      <4>2. RecordEnd(f, 1) <= f.recs[i].at
        BY <2>1, <4>1, NoOverlap
      <4>3. /\ RecordEnd(f, 1) = f.recs[1].at + RecordHeader + f.recs[1].incl
            /\ f.recs[1].at \in Nat /\ f.recs[1].incl \in Nat
        BY <4>1, RecordShape
      <4>4. f.recs[1].at = GlobalHeader
        BY <4>1, FileShape, FileAssumption DEF Boundary
      <4> QED
        BY <2>2, <4>2, <4>3, <4>4 DEF GlobalHeader, RecordHeader
    <3> QED
      BY <3>1, <3>2
  <2> QED
    BY <2>1, <2>2, <2>3, FileShape DEF GlobalHeader, RecordHeader
<1>2. Whole(f) = 1 .. 0
  BY <1>1
<1> QED
  BY <1>2 DEF Contents, FirstFrames

\* StreamingPcapSource keeps the promise of CaptureSource: one frame at a time,
\* in order, Ok(None) only when all have come, and nothing after an end.
THEOREM StreamIsCaptureSource == Spec => Streamed!Spec
<1>1. Init => Streamed!Init
  BY DEF Init, StreamInit, Streamed!Init
<1>2. ReadersInv /\ ReadersInv' /\ [Next]_vars => [Streamed!Next]_(Streamed!sourceVars)
  <2> SUFFICES ASSUME ReadersInv, ReadersInv', [Next]_vars
               PROVE  Streamed!Next \/ UNCHANGED Streamed!sourceVars
    OBVIOUS
  <2> DEFINE n == Len(frames)
  <2>1. file \in File /\ n \in Nat /\ frames = FirstFrames(file, n)
        /\ (reading # "done" => outcome = "none")
    BY DEF ReadersInv, StreamInv
  <2>2. CASE UNCHANGED <<file, frames, outcome>>
    BY <2>2 DEF Streamed!sourceVars
  <2>3. CASE Yield
    <3>1. /\ n + 1 \in DOMAIN file.recs /\ header = file.recs[n + 1]
          /\ Verdict(file) = "open"
          /\ frames' = Append(frames, Frame(file, header))
          /\ UNCHANGED <<file, outcome>> /\ outcome = "none"
      BY <2>1, <2>3 DEF ReadersInv, StreamInv, Yield
    <3>2. Len(frames') = n + 1
      BY <2>1, <3>1, FramesGrow
    <3>3. Taken(file, n + 1)
      BY <2>1, <2>3, <3>1, <3>2 DEF ReadersInv, StreamInv, Yield
    <3>4. n + 1 \in DOMAIN Contents(file)
          /\ Contents(file)[n + 1] = Frame(file, file.recs[n + 1])
      BY <2>1, <3>1, <3>3, NextOfContents
    <3> QED
      BY <3>1, <3>4 DEF Streamed!Next, Streamed!HandOver
  <2>4. CASE \E why : reading # "done" /\ Leave(why)
    <3>1. PICK why : reading # "done" /\ Leave(why)
      BY <2>4
    <3>2. /\ UNCHANGED <<file, frames>> /\ outcome = "none" /\ outcome' = why
          /\ why # "none"
      BY <2>1, <3>1 DEF Leave, ReadersInv, StreamEnd
    <3>3. CASE why = "Eof"
      <4>1. /\ Verdict(file) = "open" /\ Taken(file, n)
            /\ Stops(file, n)
        BY <3>2, <3>3 DEF ReadersInv, StreamInv, StreamEnd, Stops
      <4>2. frames = Contents(file)
        BY <2>1, <4>1, AllOfContents
      <4> QED
        BY <3>2, <3>3, <4>2 DEF Streamed!Next, Streamed!EndOfStream
    <3>4. CASE why # "Eof"
      BY <3>2, <3>4 DEF Streamed!Next, Streamed!Fail
    <3> QED
      BY <3>3, <3>4
  <2>5. CASE Opened
    <3>1. UNCHANGED <<file, frames>>
          /\ (outcome' = outcome \/ outcome' \in {"IsPcapng", "BadMagic"})
          /\ outcome = "none"
      BY <2>1, <2>5 DEF Opened, Verdict
    <3> QED
      BY <3>1 DEF Streamed!Next, Streamed!Fail, Streamed!sourceVars
  <2>6. CASE StreamNext
    <3>1. CASE (\E k \in 1 .. Want : Fill(k)) \/ HeaderDone
      BY <2>2, <3>1 DEF Fill, HeaderDone
    <3>2. CASE EndInGlobalHeader \/ EndAtBoundary \/ EndMidRecord \/ ReadFails \/ Implausible
      BY <2>4, <3>2 DEF EndInGlobalHeader, EndAtBoundary, EndMidRecord, ReadFails,
         Implausible, AtEnd
    <3> QED
      BY <2>3, <2>5, <2>6, <3>1, <3>2 DEF StreamNext, StreamProgress
  <2>7. CASE ReplayNext /\ UNCHANGED streamVars
    BY <2>2, <2>7 DEF streamVars, readerVars
  <2>8. CASE UNCHANGED vars
    BY <2>2, <2>8 DEF vars, streamVars, readerVars
  <2> QED
    BY <2>6, <2>7, <2>8 DEF Next
<1> QED
  BY <1>1, <1>2, ReadersInvAlways, PTL DEF Spec, Streamed!Spec

\* PcapReplaySource keeps it too, and keeps no frame back for an error: whatever
\* is wrong with the file is told after the last whole frame.
THEOREM ReplayIsCaptureSource == Spec => Replayed!Spec
<1>1. Init => Replayed!Init
  BY DEF Init, ReplayInit, Replayed!Init
<1>2. ReadersInv /\ ReadersInv' /\ [Next]_vars => [Replayed!Next]_(Replayed!sourceVars)
  <2> SUFFICES ASSUME ReadersInv, ReadersInv', [Next]_vars
               PROVE  Replayed!Next \/ UNCHANGED Replayed!sourceVars
    OBVIOUS
  <2> DEFINE n == Len(replayed)
  <2>1. data \in File /\ n \in Nat /\ replayed = FirstFrames(data, n)
    BY DEF ReadersInv, ReplayInv, StreamInv
  <2>2. CASE UNCHANGED <<data, replayed, answer>>
    BY <2>2 DEF Replayed!sourceVars
  <2>3. CASE Replay
    <3>1. /\ Verdict(data) = "open" /\ answer = "open"
          /\ AtCursor = {data.recs[n + 1]}
          /\ UNCHANGED <<data, answer>>
      BY <2>1, <2>3, CursorAtNext DEF Replay, ReadersInv, ReplayInv
    <3>2. replayed' = Append(replayed, Frame(data, data.recs[n + 1]))
      BY <2>3, <3>1 DEF Replay
    <3>3. Len(replayed') = n + 1
      BY <2>1, <3>2, FramesGrow
    <3>4. Taken(data, n + 1)
      BY <3>1, <3>3 DEF ReadersInv, ReplayInv
    <3>5. n + 1 \in DOMAIN Contents(data)
          /\ Contents(data)[n + 1] = Frame(data, data.recs[n + 1])
      BY <2>1, <3>1, <3>4, NextOfContents
    <3> QED
      BY <3>1, <3>2, <3>5 DEF Replayed!Next, Replayed!HandOver
  <2>4. CASE FromBytes \/ NoMoreRecords \/ Refuse
    <3>1. UNCHANGED <<data, replayed>> /\ answer \in {"new", "open"}
      BY <2>4 DEF FromBytes, NoMoreRecords, Refuse, Answer
    <3>2. CASE answer' \in {"new", "open"}
      BY <3>1, <3>2 DEF Replayed!sourceVars
    <3>3. CASE answer' \notin {"new", "open"}
      <4>1. replayed = Contents(data)
        BY <2>1, <3>1, <3>3, NothingBehindCutHeader, NothingRefused, AllOfContents
           DEF ReadersInv, ReplayInv, ReplayEnd, Stops
      <4> QED
        BY <3>1, <3>3, <4>1
           DEF Replayed!Next, Replayed!EndOfStream, Replayed!Fail
    <3> QED
      BY <3>2, <3>3
  <2>5. CASE StreamNext /\ UNCHANGED replayVars
    BY <2>2, <2>5 DEF replayVars
  <2>6. CASE UNCHANGED vars
    BY <2>2, <2>6 DEF vars, replayVars
  <2> QED
    BY <2>3, <2>4, <2>5, <2>6 DEF Next, ReplayNext
<1> QED
  BY <1>1, <1>2, ReadersInvAlways, PTL DEF Spec, Replayed!Spec
\* Either reader is a CaptureSource of the frames wholly in its file.
THEOREM ReadersAreCaptureSources == Spec => ReadersAreSources
  BY StreamIsCaptureSource, ReplayIsCaptureSource DEF ReadersAreSources
=============================================================================
