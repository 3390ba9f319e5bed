---------------------------- MODULE EngineProofs ----------------------------
(***************************************************************************)
(* First the ring on its own, for every capacity and number of pushes: it  *)
(* holds exactly the last CAP transitions, its reader never meets an empty *)
(* slot, and it implements the sliding window of TransitionWindow.         *)
(*                                                                         *)
(* Then the composed engine, for every manifest, HashMap order, capacity   *)
(* and stream of frames.  A trip is exactly a falling edge of the trip     *)
(* node in the whole history, and the ring stays the window it promises    *)
(* while walks run on it.  A bounded ring forgets but never misleads:      *)
(* whatever is reported from the last CAP transitions is a violation       *)
(* upstream of the trip in the full history, under increasing stamps its   *)
(* trigger is the latest update of its source, and nothing but eviction    *)
(* and competing instances can make the report incomplete.                 *)
(***************************************************************************)
EXTENDS CausalEngine, LeastPositions, FiniteSetTheorems, TLAPS

-----------------------------------------------------------------------------
(* Index arithmetic: the two uses of % in push and iter_rev.               *)

\* head advances by one and wraps at CAP (push, causal.rs).
LEMMA HeadWraps ==
  ASSUME NEW h \in Slot
  PROVE  (h + 1) % CAP = IF h + 1 = CAP THEN 0 ELSE h + 1
  BY CAPAssumption, SMTT(20) DEF Slot

\* Counting back i slots from h wraps at 0 (iter_rev, causal.rs).
LEMMA BackWraps ==
  ASSUME NEW h \in Slot, NEW i \in 1 .. CAP
  PROVE  (h + CAP - i) % CAP = IF h >= i THEN h - i ELSE h + CAP - i
  BY CAPAssumption, SMTT(20) DEF Slot

\* The slots iter_rev visits exist, and only the CAP-th newest is at head.
LEMMA RevIndexSlot ==
  ASSUME head \in Slot, NEW i \in 1 .. CAP
  PROVE  RevIndex(i) \in Slot /\ (RevIndex(i) = head <=> i = CAP)
  BY BackWraps, CAPAssumption DEF RevIndex, Slot

\* A push makes the slot at head the newest and every other one older by one.
LEMMA RevIndexShifts ==
  ASSUME head \in Slot, head' = (head + 1) % CAP
  PROVE  /\ RevIndex(1)' = head
         /\ \A i \in 1 .. CAP : i > 1 => RevIndex(i)' = RevIndex(i - 1)
<1>1. head' \in Slot /\ head' = IF head + 1 = CAP THEN 0 ELSE head + 1
  BY HeadWraps, CAPAssumption DEF Slot
<1>2. \A i \in 1 .. CAP :
        RevIndex(i)' = IF head' >= i THEN head' - i ELSE head' + CAP - i
  BY <1>1, BackWraps DEF RevIndex
<1>3. \A i \in 1 .. CAP :
        RevIndex(i) = IF head >= i THEN head - i ELSE head + CAP - i
  BY BackWraps DEF RevIndex
<1>4. RevIndex(1)' = head
  BY <1>1, <1>2, CAPAssumption DEF Slot
<1>5. ASSUME NEW i \in 1 .. CAP, i > 1  PROVE RevIndex(i)' = RevIndex(i - 1)
  BY <1>1, <1>2, <1>3, <1>5, CAPAssumption DEF Slot
<1> QED
  BY <1>4, <1>5

-----------------------------------------------------------------------------
(* The inductive invariant: HoldsLastCAP needs only the types beside it.   *)

RingInv == RingTypeOK /\ HoldsLastCAP

LEMMA RingInvInit == RingInit => RingInv
  BY CAPAssumption DEF RingInit, RingInv, RingTypeOK, HoldsLastCAP, Slot

LEMMA PushKeepsType ==
  ASSUME RingTypeOK, NEW t \in Transition, Push(t)
  PROVE  RingTypeOK'
<1>1. head' \in Slot
  BY HeadWraps, CAPAssumption DEF RingTypeOK, Push, Slot
<1>2. len' \in 0 .. CAP
  BY CAPAssumption DEF RingTypeOK, Push
<1>3. buf' \in [Slot -> Transition \cup {NoTransition}]
  BY DEF RingTypeOK, Push
<1>4. pushed' \in Seq(Transition)
  BY DEF RingTypeOK, Push
<1> QED
  BY <1>1, <1>2, <1>3, <1>4 DEF RingTypeOK

\* What the reader sees after a push, in terms of what it saw before.
LEMMA PushSlides ==
  ASSUME RingTypeOK, NEW t \in Transition, Push(t)
  PROVE  \A i \in 1 .. CAP :
            buf'[RevIndex(i)'] = IF i = 1 THEN t ELSE buf[RevIndex(i - 1)]
<1> USE DEF RingTypeOK
<1>1. head \in Slot /\ head' = (head + 1) % CAP
  BY DEF Push
<1>2. buf' = [buf EXCEPT ![head] = t]
  BY DEF Push
<1> SUFFICES ASSUME NEW i \in 1 .. CAP
             PROVE  buf'[RevIndex(i)'] = IF i = 1 THEN t ELSE buf[RevIndex(i - 1)]
  OBVIOUS
<1>3. CASE i = 1
  BY <1>1, <1>2, <1>3, RevIndexShifts
<1>4. CASE i > 1
  <2>1. i - 1 \in 1 .. CAP /\ i - 1 # CAP
    BY <1>4, CAPAssumption
  <2>2. RevIndex(i - 1) \in Slot /\ RevIndex(i - 1) # head
    BY <1>1, <2>1, RevIndexSlot
  <2>3. RevIndex(i)' = RevIndex(i - 1)
    BY <1>1, <1>4, RevIndexShifts
  <2> QED
    BY <1>2, <1>4, <2>2, <2>3
<1> QED
  BY <1>3, <1>4

LEMMA PushKeepsLastCAP ==
  ASSUME RingInv, NEW t \in Transition, Push(t)
  PROVE  HoldsLastCAP'
<1> DEFINE n == Len(pushed)
<1>1. pushed \in Seq(Transition) /\ len \in 0 .. CAP /\ n \in Nat
  BY DEF RingInv, RingTypeOK
<1>2. /\ pushed' = Append(pushed, t)
      /\ Len(pushed') = n + 1
      /\ pushed'[n + 1] = t
      /\ \A j \in 1 .. n : pushed'[j] = pushed[j]
  BY <1>1 DEF Push
<1>3. /\ len = IF n < CAP THEN n ELSE CAP
      /\ \A i \in 1 .. len : buf[RevIndex(i)] = pushed[n + 1 - i]
  BY DEF RingInv, HoldsLastCAP
<1>4. len' = IF n + 1 < CAP THEN n + 1 ELSE CAP
  BY <1>1, <1>3, CAPAssumption DEF Push
<1>5. ASSUME NEW i \in 1 .. len'
      PROVE  buf'[RevIndex(i)'] = pushed'[n + 2 - i]
  <2>1. i \in 1 .. CAP
    BY <1>4, CAPAssumption, <1>1
  <2>2. buf'[RevIndex(i)'] = IF i = 1 THEN t ELSE buf[RevIndex(i - 1)]
    BY <2>1, PushSlides DEF RingInv
  <2>3. CASE i = 1
    BY <1>1, <1>2, <2>2, <2>3
  <2>4. CASE i > 1
    <3>1. i - 1 \in 1 .. len /\ n + 2 - i \in 1 .. n
      BY <1>1, <1>3, <1>4, <2>1, <2>4, CAPAssumption
    <3>2. buf[RevIndex(i - 1)] = pushed[n + 1 - (i - 1)]
      BY <1>3, <3>1
    <3>3. n + 1 - (i - 1) = n + 2 - i
      BY <1>1, <2>1
    <3> QED
      BY <1>2, <2>2, <2>4, <3>1, <3>2, <3>3
  <2> QED
    BY <2>1, <2>3, <2>4
<1>6. \A i \in 1 .. len' : Len(pushed') + 1 - i = n + 2 - i
  BY <1>1, <1>2, <1>4, CAPAssumption
<1>7. \A i \in 1 .. len' : buf'[RevIndex(i)'] = pushed'[Len(pushed') + 1 - i]
  BY <1>5, <1>6
<1> QED
  BY <1>2, <1>4, <1>7 DEF HoldsLastCAP

\* A push is the window's Record step on what iter_rev returns.
LEMMA PushRecords ==
  ASSUME RingInv, NEW t \in Transition, Push(t)
  PROVE  Window!Record(t)
<1>1. len \in 0 .. CAP /\ len' = IF len < CAP THEN len + 1 ELSE CAP
  BY CAPAssumption DEF RingInv, RingTypeOK, Push
<1>2. Len(IterRev) = len
  BY <1>1 DEF IterRev
<1>3. \A i \in 1 .. len' :
         buf'[RevIndex(i)'] = IF i = 1 THEN t ELSE IterRev[i - 1]
  <2> SUFFICES ASSUME NEW i \in 1 .. len'
               PROVE  buf'[RevIndex(i)'] = IF i = 1 THEN t ELSE IterRev[i - 1]
    OBVIOUS
  <2>1. i \in 1 .. CAP /\ (i > 1 => i - 1 \in 1 .. len)
    BY <1>1, CAPAssumption
  <2>2. buf'[RevIndex(i)'] = IF i = 1 THEN t ELSE buf[RevIndex(i - 1)]
    BY <2>1, PushSlides DEF RingInv
  <2> QED
    BY <2>1, <2>2 DEF IterRev
<1>4. IterRev' = [i \in 1 .. len' |-> IF i = 1 THEN t ELSE IterRev[i - 1]]
  BY <1>3 DEF IterRev
<1> QED
  BY <1>1, <1>2, <1>4 DEF Window!Record, Window!Slide

LEMMA RingInvStep == RingInv /\ [RingNext]_ringVars => RingInv'
<1> SUFFICES ASSUME RingInv, [RingNext]_ringVars PROVE RingInv'
  OBVIOUS
<1>1. ASSUME NEW t \in Transition, Push(t) PROVE RingInv'
  BY <1>1, PushKeepsType, PushKeepsLastCAP DEF RingInv
<1>2. CASE UNCHANGED ringVars
  BY <1>2 DEF RingInv, RingTypeOK, HoldsLastCAP, RevIndex, ringVars
<1> QED
  BY <1>1, <1>2 DEF RingNext

-----------------------------------------------------------------------------
(* Theorems.                                                               *)

\* The ring's fields always have their types (causal.rs, struct RingBuffer).
THEOREM RingTypeCorrect == RingSpec => []RingTypeOK
<1>1. RingInv => RingTypeOK
  BY DEF RingInv
<1> QED
  BY RingInvInit, RingInvStep, <1>1, PTL DEF RingSpec

\* For every CAP and after any number of pushes, iter_rev yields exactly the
\* last CAP transitions pushed, newest first.
THEOREM RingHoldsLastCAP == RingSpec => []HoldsLastCAP
<1>1. RingInv => HoldsLastCAP
  BY DEF RingInv
<1> QED
  BY RingInvInit, RingInvStep, <1>1, PTL DEF RingSpec

\* iter_rev's `expect("len invariant")' cannot fail.
THEOREM RingReadsOnlyWritten == RingSpec => []ReadsOnlyWrittenSlots
<1>1. RingInv => ReadsOnlyWrittenSlots
  <2> SUFFICES ASSUME RingInv, NEW i \in 1 .. len
               PROVE  buf[RevIndex(i)] # NoTransition
    BY DEF ReadsOnlyWrittenSlots
  <2>1. /\ pushed \in Seq(Transition)
        /\ len = IF Len(pushed) < CAP THEN Len(pushed) ELSE CAP
        /\ buf[RevIndex(i)] = pushed[Len(pushed) + 1 - i]
    BY DEF RingInv, RingTypeOK, HoldsLastCAP
  <2>2. Len(pushed) + 1 - i \in 1 .. Len(pushed)
    BY <2>1, CAPAssumption
  <2>3. pushed[Len(pushed) + 1 - i] \in Transition
    BY <2>1, <2>2
  <2> QED
    BY <2>1, <2>3, NoneAssumption
<1> QED
  BY RingInvInit, RingInvStep, <1>1, PTL DEF RingSpec

\* The slots, the head and the length implement the sliding window: every push
\* is the window's Record step on what iter_rev returns.
THEOREM RingImplementsWindow == RingSpec => ImplementsWindow
<1>1. RingInit => Window!Init
  BY DEF RingInit, Window!Init, IterRev
<1>2. RingInv /\ [RingNext]_ringVars => [Window!Next]_IterRev
  <2> SUFFICES ASSUME RingInv, [RingNext]_ringVars
               PROVE  [Window!Next]_IterRev
    OBVIOUS
  <2>1. ASSUME NEW t \in Transition, Push(t) PROVE Window!Next
    BY <2>1, PushRecords DEF Window!Next
  <2>2. CASE UNCHANGED ringVars
    BY <2>2 DEF ringVars, IterRev, RevIndex
  <2> QED
    BY <2>1, <2>2 DEF RingNext
<1> QED
  BY RingInvInit, RingInvStep, <1>1, <1>2, PTL
     DEF RingSpec, ImplementsWindow, Window!Spec

-----------------------------------------------------------------------------
(* The composed engine.                                                    *)

\* The results about the walk, with the engine's ring and manifest for inputs.
W == INSTANCE BacktrackProofs WITH view <- IterRev, rev_adj <- RevAdj

\* What last_interlock remembers of the trip node: its latest sample, at
\* whatever distance in the history, or that there was none.
Latest(k) ==
    /\ k \in 1 .. Len(pushed)
    /\ pushed[k].node = manifest.trip_node
    /\ pushed[k].interlock = last_interlock[manifest.trip_node]
    /\ \A j \in k + 1 .. Len(pushed) : pushed[j].node # manifest.trip_node

Tracked ==
    IF last_interlock[manifest.trip_node] = "none"
    THEN \A i \in 1 .. Len(pushed) : pushed[i].node # manifest.trip_node
    ELSE \E k \in Nat : Latest(k)

\* The sequence number of a transition is its place in the history.
Numbered == \A i \in 1 .. Len(pushed) : pushed[i].seq = i - 1

EngineInv == TypeOK /\ HoldsLastCAP /\ Tracked /\ Numbered

-----------------------------------------------------------------------------
(* Classification.                                                         *)

\* classify finds a node of the manifest: among the nodes that match, one is
\* first in the order of the map.
LEMMA ClassifiesToNode ==
  ASSUME manifest \in Manifests, NEW r \in Orders, classify = Classifies(r)
  PROVE  /\ DOMAIN classify \subseteq Payload
         /\ \A p \in DOMAIN classify : classify[p] \in DOMAIN manifest.nodes
<1> DEFINE N == DOMAIN manifest.nodes
<1>1. DOMAIN classify \subseteq Payload
  BY DEF Classifies
<1>2. r \in [N -> 1 .. Cardinality(N)] /\ Cardinality(N) \in Nat
  BY ManifestsAssumption, FS_CardinalityType DEF Orders
<1>3. ASSUME NEW p \in DOMAIN classify  PROVE classify[p] \in N
  <2> DEFINE C == Claimants(p)
             R == {r[n] : n \in C}
  <2>1. C # {} /\ C \subseteq N
    BY <1>3 DEF Classifies, Claimants
  <2>2. classify[p] = CHOOSE n \in C : \A m \in C : r[n] <= r[m]
    BY <1>3 DEF Classifies
  <2>3. R \in SUBSET Nat /\ R # {}
    BY <1>2, <2>1
  <2>4. PICK i \in R : \A j \in R : i <= j
    <3> HIDE DEF R
    <3> QED
      BY <2>3, LeastPosition
  <2>5. \E n \in C : \A m \in C : r[n] <= r[m]
    BY <2>4
  <2> HIDE DEF C
  <2>6. classify[p] \in C
    BY <2>2, <2>5
  <2> QED
    BY <2>1, <2>6
<1> QED
  BY <1>1, <1>3

\* The transition a classified frame becomes; the trip node's always carries a
\* level, since ManifestCfg::build demands a profinet matcher of it.
LEMMA TransitionOfType ==
  ASSUME TypeOK, Room, NEW p \in DOMAIN classify, NEW ts \in Time
  PROVE  /\ TransitionOf(p, ts) \in Transition
         /\ TransitionOf(p, ts).seq = seq
         /\ TransitionOf(p, ts).node \in DOMAIN manifest.nodes
         /\ TransitionOf(p, ts).interlock \in Level
         /\ TransitionOf(p, ts).node = manifest.trip_node
               => TransitionOf(p, ts).interlock # "none"
<1> DEFINE n == classify[p]
           l == LevelRead(manifest.nodes[n], p)
<1>1. n \in DOMAIN manifest.nodes /\ n \in Node
  BY ManifestsAssumption DEF TypeOK
<1>2. l \in Level /\ (n = manifest.trip_node => l # "none")
  BY ManifestsAssumption DEF TypeOK, LevelRead, Level
<1>3. seq \in 0 .. MaxPushes - 1
  BY MaxPushesAssumption DEF TypeOK, Room
<1>4. TransitionOf(p, ts) = [seq |-> seq, node |-> n, ts |-> ts, interlock |-> l]
  BY DEF TransitionOf
<1> HIDE DEF n, l
<1> QED
  BY <1>1, <1>2, <1>3, <1>4, TransitionShape

-----------------------------------------------------------------------------
(* One recorded frame.                                                     *)

LEMMA RecordKeepsType ==
  ASSUME TypeOK, NEW t \in Transition, Record(t),
         t.node \in DOMAIN manifest.nodes, t.interlock \in Level
  PROVE  TypeOK'
<1>1. RingTypeOK'
  BY PushKeepsType DEF TypeOK, Record
<1>2. seq' \in Nat /\ seq' = Len(pushed')
  BY DEF TypeOK, Record, Push, RingTypeOK
<1>3. last_interlock' \in [DOMAIN manifest.nodes -> Level]
  BY DEF TypeOK, Record
<1>4. manifest' = manifest /\ classify' = classify
  BY DEF Record
<1> QED
  BY <1>1, <1>2, <1>3, <1>4 DEF TypeOK

LEMMA RecordKeepsTracked ==
  ASSUME EngineInv, NEW t \in Transition, Record(t),
         t.node \in DOMAIN manifest.nodes, t.interlock \in Level,
         t.node = manifest.trip_node => t.interlock # "none"
  PROVE  Tracked'
<1> DEFINE n == manifest.trip_node
           L == Len(pushed)
<1>1. /\ L \in Nat /\ Len(pushed') = L + 1
      /\ pushed'[L + 1] = t
      /\ \A i \in 1 .. L : pushed'[i] = pushed[i]
  BY DEF EngineInv, TypeOK, RingTypeOK, Record, Push
<1>2. manifest' = manifest /\ n \in DOMAIN manifest.nodes
  BY ManifestsAssumption DEF EngineInv, TypeOK, Record
<1>3. CASE t.node = n
  <2>1. last_interlock'[n] = t.interlock /\ t.interlock # "none"
    BY <1>2, <1>3 DEF Record, EngineInv, TypeOK
  <2>2. manifest'.trip_node = n
    BY <1>2
  <2>3. /\ L + 1 \in 1 .. Len(pushed')
        /\ pushed'[L + 1].node = n
        /\ pushed'[L + 1].interlock = last_interlock'[n]
        /\ \A j \in (L + 1) + 1 .. Len(pushed') : pushed'[j].node # n
    BY <1>1, <1>3, <2>1
  <2>4. \E k \in Nat : Latest(k)'
    <3>1. L + 1 \in Nat
      BY <1>1
    <3> HIDE DEF n, L
    <3> QED
      BY <2>2, <2>3, <3>1 DEF Latest
  <2> QED
    BY <2>1, <2>2, <2>4 DEF Tracked
<1>4. CASE t.node # n
  <2>1. last_interlock'[n] = last_interlock[n]
    BY <1>2, <1>4 DEF Record, EngineInv, TypeOK
  <2>2. CASE last_interlock[n] = "none"
    <3>1. \A i \in 1 .. L + 1 : pushed'[i].node # n
      BY <1>1, <1>4, <2>2 DEF EngineInv, Tracked
    <3> QED
      BY <1>1, <1>2, <2>1, <2>2, <3>1 DEF Tracked
  <2>3. CASE last_interlock[n] # "none"
    <3>1. PICK k \in Nat : Latest(k)
      BY <2>3 DEF EngineInv, Tracked
    <3>2. /\ k \in 1 .. L
          /\ pushed[k].node = n /\ pushed[k].interlock = last_interlock[n]
          /\ \A j \in k + 1 .. L : pushed[j].node # n
      BY <3>1 DEF Latest
    <3>3. /\ k \in 1 .. Len(pushed')
          /\ pushed'[k].node = n /\ pushed'[k].interlock = last_interlock'[n]
          /\ \A j \in k + 1 .. Len(pushed') : pushed'[j].node # n
      <4>1. k \in 1 .. L /\ k \in 1 .. Len(pushed') /\ pushed'[k] = pushed[k]
        BY <1>1, <3>2
      <4>2. ASSUME NEW j \in k + 1 .. Len(pushed')  PROVE pushed'[j].node # n
        <5>1. CASE j = L + 1
          BY <1>1, <1>4, <5>1
        <5>2. CASE j # L + 1
          <6>1. j \in 1 .. L /\ j \in k + 1 .. L
            BY <1>1, <4>1, <5>2
          <6> QED
            BY <1>1, <3>2, <6>1
        <5> QED
          BY <5>1, <5>2
      <4> HIDE DEF n, L
      <4> QED
        BY <2>1, <3>2, <4>1, <4>2
    <3>4. Latest(k)'
      <4>1. manifest'.trip_node = n
        BY <1>2
      <4> HIDE DEF n
      <4> QED
        BY <3>3, <4>1 DEF Latest
    <3> QED
      BY <1>2, <2>1, <2>3, <3>4 DEF Tracked
  <2> QED
    BY <2>2, <2>3
<1> QED
  BY <1>3, <1>4

\* The engine's memory of one level decides what the whole history decides.
LEMMA FallsIsFallingEdge ==
  ASSUME EngineInv, NEW t \in Transition
  PROVE  Falls(t) <=> FallingEdge(Append(pushed, t), manifest.trip_node)
<1> DEFINE n == manifest.trip_node
           L == Len(pushed)
           h == Append(pushed, t)
<1>1. /\ L \in Nat /\ Len(h) = L + 1 /\ h[L + 1] = t
      /\ \A i \in 1 .. L : h[i] = pushed[i]
  BY DEF EngineInv, TypeOK, RingTypeOK
<1> HIDE DEF h
<1>2. ASSUME Falls(t)  PROVE FallingEdge(h, n)
  <2>1. t.node = n /\ t.interlock = "low" /\ last_interlock[n] = "high"
    BY <1>2 DEF Falls
  <2>2. PICK k \in Nat : Latest(k)
    BY <2>1 DEF EngineInv, Tracked
  <2>3. /\ k \in 1 .. Len(h) - 1
        /\ h[k].node = n /\ h[k].interlock = "high"
        /\ \A j \in k + 1 .. Len(h) - 1 : h[j].node # n
    BY <1>1, <2>1, <2>2 DEF Latest
  <2> QED
    BY <1>1, <2>1, <2>3 DEF FallingEdge
<1>3. ASSUME FallingEdge(h, n)  PROVE Falls(t)
  <2>1. t.node = n /\ t.interlock = "low"
    BY <1>1, <1>3 DEF FallingEdge
  <2>2. PICK i \in 1 .. L : /\ pushed[i].node = n /\ pushed[i].interlock = "high"
                            /\ \A j \in i + 1 .. L : pushed[j].node # n
    BY <1>1, <1>3 DEF FallingEdge
  <2>3. last_interlock[n] # "none"
    BY <2>2 DEF EngineInv, Tracked
  <2>4. PICK k \in Nat : Latest(k)
    BY <2>3 DEF EngineInv, Tracked
  <2>5. k = i
    <3>1. k \in 1 .. L /\ \A j \in k + 1 .. L : pushed[j].node # n
      BY <2>4 DEF Latest
    <3>2. pushed[k].node = n
      BY <2>4 DEF Latest
    <3>3. ~(k < i)
      BY <1>1, <2>2, <3>1
    <3>4. ~(i < k)
      BY <1>1, <2>2, <3>1, <3>2
    <3> QED
      BY <3>1, <3>3, <3>4
  <2> QED
    BY <2>1, <2>2, <2>4, <2>5 DEF Latest, Falls
<1> QED
  BY <1>2, <1>3 DEF h

-----------------------------------------------------------------------------
(* The invariant.                                                          *)

LEMMA EngineInvInit == Init => EngineInv
<1> SUFFICES ASSUME Init PROVE EngineInv
  OBVIOUS
<1>1. RingInv /\ pushed = << >>
  BY RingInvInit DEF Init, RingInit
<1>2. manifest \in Manifests /\ manifest.trip_node \in DOMAIN manifest.nodes
  BY ManifestsAssumption DEF Init
<1>3. last_interlock = [n \in DOMAIN manifest.nodes |-> "none"]
  BY DEF Init
<1>4. /\ DOMAIN classify \subseteq Payload
      /\ \A p \in DOMAIN classify : classify[p] \in DOMAIN manifest.nodes
  <2>1. PICK r \in Orders : classify = Classifies(r)
    BY DEF Init
  <2> QED
    BY <1>2, <2>1, ClassifiesToNode
<1>5. TypeOK
  BY <1>1, <1>2, <1>3, <1>4 DEF TypeOK, RingInv, Init, Level
<1> QED
  BY <1>1, <1>2, <1>3, <1>5 DEF EngineInv, RingInv, Tracked, Numbered

\* Every step records one transition, or leaves ring and engine alone.
Recorded(t) ==
    /\ t \in Transition /\ Record(t) /\ t.seq = seq
    /\ t.node \in DOMAIN manifest.nodes /\ t.interlock \in Level
    /\ t.node = manifest.trip_node => t.interlock # "none"

LEMMA StepCases ==
  ASSUME TypeOK, [Next]_vars
  PROVE  \/ UNCHANGED <<ringVars, engineVars>>
         \/ \E t \in Transition : /\ Recorded(t)
                                  /\ phase' = "walking" <=> Falls(t)
<1>1. CASE \E p \in Payload : Ignore(p)
  BY <1>1 DEF Ignore
<1>2. CASE \E p \in Payload, ts \in Time : ObserveQuiet(p, ts)
  <2>1. PICK p \in Payload, ts \in Time : ObserveQuiet(p, ts)
    BY <1>2
  <2>2. Recorded(TransitionOf(p, ts))
    BY <2>1, TransitionOfType DEF ObserveQuiet, Recorded
  <2>3. ~Falls(TransitionOf(p, ts)) /\ phase' = "idle"
    BY <2>1 DEF ObserveQuiet
  <2> QED
    BY <2>2, <2>3 DEF Recorded
<1>3. CASE \E p \in Payload, ts \in Time : ObserveTrip(p, ts)
  <2>1. PICK p \in Payload, ts \in Time : ObserveTrip(p, ts)
    BY <1>3
  <2>2. Recorded(TransitionOf(p, ts))
    BY <2>1, TransitionOfType DEF ObserveTrip, Recorded
  <2>3. Falls(TransitionOf(p, ts)) /\ phase' = "walking"
    BY <2>1 DEF ObserveTrip, Walk!Call
  <2> QED
    BY <2>2, <2>3 DEF Recorded
<1>4. CASE Backtrack
  BY <1>4 DEF Backtrack
<1>5. CASE UNCHANGED vars
  BY <1>5 DEF vars
<1> QED
  BY <1>1, <1>2, <1>3, <1>4, <1>5 DEF Next

LEMMA EngineInvStep == EngineInv /\ [Next]_vars => EngineInv'
<1> SUFFICES ASSUME EngineInv, [Next]_vars PROVE EngineInv'
  OBVIOUS
<1>1. CASE UNCHANGED <<ringVars, engineVars>>
  BY <1>1 DEF EngineInv, TypeOK, HoldsLastCAP, Tracked, Latest, Numbered,
              RingTypeOK, RevIndex, ringVars, engineVars
<1>2. ASSUME NEW t \in Transition, Recorded(t)  PROVE EngineInv'
  <2>1. TypeOK'
    BY <1>2, RecordKeepsType DEF Recorded, EngineInv
  <2>2. HoldsLastCAP'
    BY <1>2, PushKeepsLastCAP DEF Recorded, Record, EngineInv, RingInv, TypeOK
  <2>3. Tracked'
    BY <1>2, RecordKeepsTracked DEF Recorded
  <2>4. Numbered'
    <3>1. /\ Len(pushed) \in Nat /\ Len(pushed') = Len(pushed) + 1
          /\ pushed'[Len(pushed) + 1] = t /\ t.seq = Len(pushed)
          /\ \A i \in 1 .. Len(pushed) : pushed'[i] = pushed[i]
      BY <1>2 DEF Recorded, Record, Push, EngineInv, TypeOK, RingTypeOK
    <3> QED
      BY <3>1 DEF EngineInv, Numbered
  <2> QED
    BY <2>1, <2>2, <2>3, <2>4 DEF EngineInv
<1> QED
  BY <1>1, <1>2, StepCases DEF EngineInv

-----------------------------------------------------------------------------
(* Theorems: trips and the window.                                         *)

\* The engine's own fields keep their types: sequence numbers count the
\* recorded transitions, frames are classified to nodes of the manifest only.
THEOREM EngineTypeCorrect == Spec => []TypeOK
<1>1. EngineInv => TypeOK
  BY DEF EngineInv
<1> QED
  BY EngineInvInit, EngineInvStep, <1>1, PTL DEF Spec

\* observe "returns Some(TripAnalysis) iff this frame is the trip node
\* transitioning interlock true->false", judged on everything ever observed.
THEOREM EngineTripIffFallingEdge == Spec => TripIffFallingEdge
<1> DEFINE Told == pushed' # pushed =>
              (phase' = "walking" <=> FallingEdge(pushed', manifest.trip_node))
<1>1. EngineInv /\ [Next]_vars => [Told]_vars
  <2> SUFFICES ASSUME EngineInv, [Next]_vars, pushed' # pushed
               PROVE  phase' = "walking"
                         <=> FallingEdge(pushed', manifest.trip_node)
    OBVIOUS
  <2>1. PICK t \in Transition : Recorded(t) /\ (phase' = "walking" <=> Falls(t))
    BY StepCases DEF EngineInv, ringVars
  <2>2. pushed' = Append(pushed, t)
    BY <2>1 DEF Recorded, Record, Push
  <2> QED
    BY <2>1, <2>2, FallsIsFallingEdge
<1> QED
  BY EngineInvInit, EngineInvStep, <1>1, PTL DEF Spec, TripIffFallingEdge

\* The history the walk reads is the sliding window: classification, trips and
\* walks in between never disturb it.
THEOREM EngineImplementsWindow == Spec => ImplementsWindow
<1>1. Init => Window!Init
  BY DEF Init, RingInit, Window!Init, IterRev
<1>2. EngineInv /\ [Next]_vars => [Window!Next]_IterRev
  <2> SUFFICES ASSUME EngineInv, [Next]_vars PROVE [Window!Next]_IterRev
    OBVIOUS
  <2>1. CASE UNCHANGED <<ringVars, engineVars>>
    BY <2>1 DEF ringVars, IterRev, RevIndex
  <2>2. ASSUME NEW t \in Transition, Recorded(t)  PROVE Window!Next
    <3>1. RingInv /\ Push(t)
      BY <2>2 DEF Recorded, Record, EngineInv, TypeOK, RingInv
    <3>2. Window!Record(t)
      BY <3>1, PushRecords
    <3> QED
      BY <3>2 DEF Window!Next
  <2> QED
    BY <2>1, <2>2, StepCases DEF EngineInv
<1> QED
  BY EngineInvInit, EngineInvStep, <1>1, <1>2, PTL
     DEF Spec, ImplementsWindow, Window!Spec
-----------------------------------------------------------------------------
(* The reverse adjacency DependencyManifest::new builds.                   *)

EdgeOf(m) == [from : DOMAIN m.nodes, to : DOMAIN m.nodes, wcet : Wcet]

\* What the walk expects of its inputs, the engine provides.
LEMMA RevAdjTyped ==
  ASSUME manifest \in Manifests
  PROVE  /\ DOMAIN RevAdj \subseteq Node /\ IsFiniteSet(DOMAIN RevAdj)
         /\ \A n \in DOMAIN RevAdj :
               /\ RevAdj[n] \in Seq(W!Edge)
               /\ \A k \in DOMAIN RevAdj[n] : RevAdj[n][k].to = n
<1>1. /\ manifest.edges \in Seq(EdgeOf(manifest))
      /\ DOMAIN manifest.nodes \subseteq Node
  BY ManifestsAssumption DEF EdgeOf
<1>2. \A k \in DOMAIN manifest.edges : manifest.edges[k].to \in DOMAIN manifest.nodes
  <2>1. \A k \in DOMAIN manifest.edges : manifest.edges[k] \in EdgeOf(manifest)
    BY <1>1
  <2> QED
    BY <1>1, <2>1 DEF EdgeOf
<1>3. EdgeOf(manifest) \subseteq W!Edge
  BY <1>1 DEF EdgeOf, W!Edge
<1>4. manifest.edges \in Seq(W!Edge)
  BY <1>1, <1>3
<1>5. ASSUME NEW n
      PROVE  LET hits == {k \in DOMAIN manifest.edges : manifest.edges[k].to = n}
                 list == Grouped(manifest.edges, hits)
             IN  /\ list \in Seq(W!Edge)
                 /\ \A k \in DOMAIN list : list[k].to = n
  <2> DEFINE hits == {k \in DOMAIN manifest.edges : manifest.edges[k].to = n}
             list == Grouped(manifest.edges, hits)
  <2>1. /\ list \in Seq(W!Edge)
        /\ {list[k] : k \in DOMAIN list}
              = {manifest.edges[k] : k \in hits \cap DOMAIN manifest.edges}
    BY <1>4, GroupedTyped
  <2> HIDE DEF list
  <2>2. ASSUME NEW k \in DOMAIN list  PROVE list[k].to = n
    <3>1. list[k] \in {manifest.edges[j] : j \in hits \cap DOMAIN manifest.edges}
      BY <2>1
    <3> QED
      BY <3>1
  <2>3. (list \in Seq(W!Edge)) /\ (\A k \in DOMAIN list : list[k].to = n)
    BY <2>1, <2>2
  <2> QED
    BY <2>3 DEF list
<1>6. DOMAIN RevAdj = {manifest.edges[k].to : k \in DOMAIN manifest.edges}
  BY DEF RevAdj
<1>7. DOMAIN RevAdj \subseteq Node /\ IsFiniteSet(DOMAIN RevAdj)
  <2>1. DOMAIN RevAdj \subseteq DOMAIN manifest.nodes
    BY <1>2, <1>6
  <2>2. IsFiniteSet(DOMAIN manifest.nodes)
    BY ManifestsAssumption
  <2> QED
    BY <1>1, <2>1, <2>2, FS_Subset
<1> QED
  BY <1>5, <1>7 DEF RevAdj

LEMMA WalkAssumptions ==
  /\ Wcet \subseteq Nat \ {0}
  /\ \A t \in Transition : t.node \in Node /\ t.ts \in Nat
  /\ NoTransition \notin Transition
<1>1. \A t \in Transition : t.node \in Node /\ t.ts \in Nat
  BY TransitionShape, TimeAssumption
<1> QED
  BY <1>1, BudgetAssumption, NoneAssumption

-----------------------------------------------------------------------------
(* The walk inside the engine.                                             *)

\* Between the trip and the next frame the walk's invariants hold of the ring.
WalkFacts == W!WalkInv /\ W!ThoroughInv /\ W!RankedInv

EvictInv == EngineInv /\ (phase # "idle" => WalkFacts)

\* What backtrack finds when it is called; and the call itself, in a step.
LEMMA CallStarts == W!WalkInit => WalkFacts
  BY WalkAssumptions, W!WalkInvInit, W!ThoroughInit, W!RankedInit DEF WalkFacts

LEMMA CallStartsNext == W!WalkInit' => WalkFacts'
  BY CallStarts, PTL

LEMMA WalkContinues ==
  WalkFacts /\ [W!WalkNext]_<<W!inputs, W!walkVars>> => WalkFacts'
<1> SUFFICES ASSUME WalkFacts, [W!WalkNext]_<<W!inputs, W!walkVars>>
             PROVE  WalkFacts'
  OBVIOUS
<1>1. W!WalkInv'
  BY WalkAssumptions, W!WalkInvStep DEF WalkFacts
<1>2. W!ThoroughInv'
  BY WalkAssumptions, W!ThoroughStep DEF WalkFacts
<1>3. W!RankedInv'
  BY WalkAssumptions, W!RankedStep DEF WalkFacts
<1> QED
  BY <1>1, <1>2, <1>3 DEF WalkFacts

\* The engine's walk steps are the walk's.
LEMMA SameWalk == Walk!WalkStep => W!WalkStep
<1>1. /\ Walk!Top = W!Top /\ Walk!Rest = W!Rest
      /\ Walk!Popping <=> W!Popping
  BY DEF Walk!Top, W!Top, Walk!Rest, W!Rest, Walk!Popping, W!Popping
<1>2. \A v, n, b : Walk!LastForNodeBefore(v, n, b) = W!LastForNodeBefore(v, n, b)
  BY DEF Walk!LastForNodeBefore, W!LastForNodeBefore, Walk!Matching, W!Matching
<1>3. /\ \A n : Walk!Incoming(n) = W!Incoming(n)
      /\ \A i : Walk!EffectInstance(i) = W!EffectInstance(i)
      /\ Walk!Trigger = W!Trigger
  BY <1>2 DEF Walk!Incoming, W!Incoming, Walk!EffectInstance, W!EffectInstance,
              Walk!Trigger, W!Trigger
<1>4. Walk!RankSevereFirst(candidates) = W!RankSevereFirst(candidates)
  <2>1. \A S : Walk!Cardinality(S) = W!Cardinality(S)
    BY DEF Walk!Cardinality, W!Cardinality
  <2> DEFINE c == candidates
             A(i) == 1 + Walk!Cardinality({j \in DOMAIN c :
                            \/ Walk!MoreSevere(c[j], c[i])
                            \/ j < i /\ ~Walk!MoreSevere(c[i], c[j])})
             B(i) == 1 + W!Cardinality({j \in DOMAIN c :
                            \/ W!MoreSevere(c[j], c[i])
                            \/ j < i /\ ~W!MoreSevere(c[i], c[j])})
  <2>2. \A i : A(i) = B(i)
    <3>1. \A a, b : Walk!MoreSevere(a, b) <=> W!MoreSevere(a, b)
      BY DEF Walk!MoreSevere, W!MoreSevere
    <3> QED
      BY <2>1, <3>1
  <2>3. Walk!RankSevereFirst(c)
           = [p \in DOMAIN c |-> c[CHOOSE i \in DOMAIN c : A(i) = p]]
    BY DEF Walk!RankSevereFirst
  <2>4. W!RankSevereFirst(c)
           = [p \in DOMAIN c |-> c[CHOOSE i \in DOMAIN c : B(i) = p]]
    BY DEF W!RankSevereFirst
  <2> HIDE DEF A, B, c
  <2> QED
    BY <2>2, <2>3, <2>4 DEF c
<1>5. Walk!Skip => W!Skip
  BY <1>1 DEF Walk!Skip, W!Skip
<1>6. Walk!Visit => W!Visit
  BY <1>1, <1>3 DEF Walk!Visit, W!Visit
<1>7. Walk!PassEdge => W!PassEdge
  BY <1>3 DEF Walk!PassEdge, W!PassEdge
<1>8. Walk!MeasureEdge => W!MeasureEdge
  BY <1>3 DEF Walk!MeasureEdge, W!MeasureEdge
<1>9. Walk!Rank => W!Rank
  BY <1>4 DEF Walk!Rank, W!Rank
<1> QED
  BY <1>5, <1>6, <1>7, <1>8, <1>9 DEF Walk!WalkStep, W!WalkStep

LEMMA WalksWhileWalking == Walk!WalkStep => phase = "walking"
  BY DEF Walk!WalkStep, Walk!Skip, Walk!Visit, Walk!PassEdge, Walk!MeasureEdge,
         Walk!Rank, Walk!Popping

\* The two views of the history: the ring's is the newest part of the full one.
LEMMA ViewsAgree ==
  ASSUME TypeOK, HoldsLastCAP
  PROVE  /\ IterRev \in Seq(Transition) /\ History \in Seq(Transition)
         /\ Len(IterRev) = len /\ Len(History) = Len(pushed)
         /\ len <= Len(pushed) /\ len \in Nat
         /\ \A i \in 1 .. len : IterRev[i] = History[i]
<1>1. /\ pushed \in Seq(Transition) /\ len \in 0 .. CAP
      /\ len = IF Len(pushed) < CAP THEN Len(pushed) ELSE CAP
      /\ \A i \in 1 .. len : buf[RevIndex(i)] = pushed[Len(pushed) + 1 - i]
  BY DEF TypeOK, RingTypeOK, HoldsLastCAP
<1>2. \A i \in 1 .. Len(pushed) : pushed[Len(pushed) + 1 - i] \in Transition
  <2> SUFFICES ASSUME NEW i \in 1 .. Len(pushed)
               PROVE  pushed[Len(pushed) + 1 - i] \in Transition
    OBVIOUS
  <2>1. Len(pushed) + 1 - i \in 1 .. Len(pushed)
    BY <1>1
  <2> QED
    BY <1>1, <2>1
<1>3. len <= Len(pushed) /\ len \in Nat /\ Len(pushed) \in Nat
  BY <1>1, CAPAssumption
<1>4. History \in Seq(Transition) /\ Len(History) = Len(pushed)
  BY <1>2, <1>3 DEF History
<1>5. \A i \in 1 .. len : IterRev[i] = History[i]
  BY <1>1, <1>3 DEF IterRev, History
<1>6. \A i \in 1 .. len : IterRev[i] \in Transition
  BY <1>3, <1>4, <1>5
<1>7. IterRev \in Seq(Transition) /\ Len(IterRev) = len
  BY <1>3, <1>6 DEF IterRev
<1> QED
  BY <1>3, <1>4, <1>5, <1>7

LEMMA ViewsAgreeNext ==
  (TypeOK /\ HoldsLastCAP)' =>
     (/\ IterRev \in Seq(Transition) /\ Len(IterRev) = len
      /\ len \in Nat
      /\ \A i \in 1 .. len : IterRev[i] = History[i])'
<1>1. TypeOK /\ HoldsLastCAP =>
         /\ IterRev \in Seq(Transition) /\ Len(IterRev) = len
         /\ len \in Nat
         /\ \A i \in 1 .. len : IterRev[i] = History[i]
  BY ViewsAgree
<1> QED
  BY <1>1, PTL

\* A frame that trips: the walk starts on a ring whose newest transition is it.
LEMMA TripStartsWalk ==
  ASSUME EngineInv, NEW p \in Payload, NEW ts \in Time, ObserveTrip(p, ts)
  PROVE  W!WalkInit'
<1> DEFINE t == TransitionOf(p, ts)
<1>1. t \in Transition /\ Record(t) /\ Walk!Call(t)
  BY TransitionOfType DEF ObserveTrip, EngineInv
<1>2. EngineInv'
  <2>1. [Next]_vars
    BY DEF Next
  <2> QED
    BY <2>1, EngineInvStep
<1> HIDE DEF t
<1>3. /\ IterRev' \in Seq(Transition) /\ Len(IterRev') = len'
      /\ len' \in Nat
      /\ \A i \in 1 .. len' : IterRev'[i] = History'[i]
  BY <1>2, ViewsAgreeNext DEF EngineInv
<1>4. /\ pushed \in Seq(Transition) /\ pushed' = Append(pushed, t)
      /\ len \in 0 .. CAP /\ len' = IF len < CAP THEN len + 1 ELSE len
  BY <1>1 DEF EngineInv, TypeOK, RingTypeOK, Record, Push
<1>5. len' >= 1 /\ Len(pushed') = Len(pushed) + 1 /\ pushed'[Len(pushed')] = t
  BY <1>4, CAPAssumption
<1>6. IterRev' # << >> /\ IterRev'[1] = t
  <2>1. IterRev'[1] = History'[1] /\ IterRev' # << >>
    BY <1>3, <1>5
  <2>2. History'[1] = pushed'[Len(pushed') + 1 - 1]
    BY <1>4, <1>5 DEF History
  <2> QED
    BY <1>4, <1>5, <2>1, <2>2
<1>7. manifest' = manifest /\ manifest' \in Manifests
  BY <1>1 DEF EngineInv, TypeOK, Record
<1>8. /\ DOMAIN RevAdj' \subseteq Node /\ W!IsFiniteSet(DOMAIN RevAdj')
      /\ \A n \in DOMAIN RevAdj' :
            /\ RevAdj'[n] \in Seq(W!Edge)
            /\ \A k \in DOMAIN RevAdj'[n] : RevAdj'[n][k].to = n
  <2>1. RevAdj' = RevAdj
    BY <1>7 DEF RevAdj
  <2>2. IsFiniteSet(DOMAIN RevAdj) => W!IsFiniteSet(DOMAIN RevAdj)
    BY DEF IsFiniteSet, W!IsFiniteSet
  <2> QED
    BY <1>7, <2>1, <2>2, RevAdjTyped
<1>9. RevAdj' \in UNION {[D -> Seq(W!Edge)] : D \in SUBSET Node}
  <2>1. RevAdj' = [n \in DOMAIN RevAdj' |-> RevAdj'[n]]
    BY <1>7 DEF RevAdj
  <2>2. RevAdj' \in [DOMAIN RevAdj' -> Seq(W!Edge)]
    BY <1>8, <2>1
  <2> QED
    BY <1>8, <2>2
<1> QED
  BY <1>1, <1>3, <1>6, <1>8, <1>9 DEF W!WalkInit, W!Started, Walk!Call

LEMMA EvictInvStep == EvictInv /\ [Next]_vars => EvictInv'
<1> SUFFICES ASSUME EvictInv, [Next]_vars PROVE EvictInv'
  OBVIOUS
<1>1. EngineInv'
  BY EngineInvStep DEF EvictInv
<1>2. CASE \E p \in Payload : Ignore(p)
  BY <1>1, <1>2 DEF EvictInv, Ignore
<1>3. CASE \E p \in Payload, ts \in Time : ObserveQuiet(p, ts)
  BY <1>1, <1>3 DEF EvictInv, ObserveQuiet
<1>4. CASE \E p \in Payload, ts \in Time : ObserveTrip(p, ts)
  BY <1>1, <1>4, TripStartsWalk, CallStartsNext DEF EvictInv
<1>5. CASE Backtrack
  <2>1. W!WalkStep /\ phase = "walking"
    BY <1>5, SameWalk, WalksWhileWalking DEF Backtrack
  <2>2. UNCHANGED W!inputs
    BY <1>5 DEF Backtrack, W!inputs, IterRev, RevIndex, RevAdj, ringVars,
                engineVars
  <2>3. WalkFacts'
    BY <2>1, <2>2, WalkContinues DEF EvictInv, W!WalkNext
  <2> QED
    BY <1>1, <2>3 DEF EvictInv
<1>6. CASE UNCHANGED vars
  <2>1. UNCHANGED <<W!inputs, W!walkVars>> /\ phase' = phase
    BY <1>6 DEF vars, walkVars, W!inputs, W!walkVars, IterRev, RevIndex, RevAdj,
                ringVars, engineVars
  <2>2. phase # "idle" => WalkFacts'
    BY <2>1, WalkContinues DEF EvictInv
  <2> QED
    BY <1>1, <2>1, <2>2 DEF EvictInv
<1> QED
  BY <1>2, <1>3, <1>4, <1>5, <1>6 DEF Next

-----------------------------------------------------------------------------
(* The full history.                                                       *)

\* Whatever the lookup finds in the ring it finds in the full history.
LEMMA LookupAgrees ==
  ASSUME TypeOK, HoldsLastCAP, NEW n, NEW b,
         W!LastForNodeBefore(IterRev, n, b) # NoTransition
  PROVE  Full!LastForNodeBefore(History, n, b) = W!LastForNodeBefore(IterRev, n, b)
<1> DEFINE m == W!Matching(IterRev, n, b)
           f == W!Matching(History, n, b)
<1>1. PICK i \in m : /\ W!LastForNodeBefore(IterRev, n, b) = IterRev[i]
                     /\ \A j \in m : i <= j
  BY ViewsAgree, WalkAssumptions, W!LookupResult
<1>2. /\ DOMAIN IterRev = 1 .. len /\ DOMAIN History = 1 .. Len(pushed)
      /\ len <= Len(pushed) /\ len \in Nat /\ Len(pushed) \in Nat
      /\ \A j \in 1 .. len : IterRev[j] = History[j]
  BY ViewsAgree
<1>3. i \in f /\ i \in 1 .. len
  BY <1>1, <1>2 DEF W!Matching
<1>4. PICK k \in f : /\ W!LastForNodeBefore(History, n, b) = History[k]
                     /\ \A j \in f : k <= j
  BY <1>3, ViewsAgree, WalkAssumptions, W!LookupResult
<1>5. k <= i /\ k \in 1 .. len
  BY <1>2, <1>3, <1>4 DEF W!Matching
<1>6. k \in m
  BY <1>2, <1>4, <1>5 DEF W!Matching
<1>7. k = i
  BY <1>1, <1>3, <1>5, <1>6
<1>8. W!LastForNodeBefore(History, n, b) = W!LastForNodeBefore(IterRev, n, b)
  BY <1>1, <1>2, <1>3, <1>4, <1>7
<1> QED
  BY <1>8 DEF Full!LastForNodeBefore, W!LastForNodeBefore, Full!Matching, W!Matching

LEMMA HopsAgree ==
  ASSUME TypeOK, HoldsLastCAP, NEW e, NEW h \in W!HopsInto(e)
  PROVE  h \in Full!HopsInto(e)
<1>1. PICK edge \in {W!Incoming(e.node)[k] : k \in DOMAIN W!Incoming(e.node)} :
         /\ W!LastForNodeBefore(IterRev, edge.from, e.ts) # NoTransition
         /\ h = [edge |-> edge,
                 dt |-> e.ts - W!LastForNodeBefore(IterRev, edge.from, e.ts).ts,
                 trigger |-> W!LastForNodeBefore(IterRev, edge.from, e.ts),
                 effect |-> e]
  BY DEF W!HopsInto
<1>2. Full!LastForNodeBefore(History, edge.from, e.ts)
         = W!LastForNodeBefore(IterRev, edge.from, e.ts)
  BY <1>1, LookupAgrees
<1>3. edge \in {Full!Incoming(e.node)[k] : k \in DOMAIN Full!Incoming(e.node)}
  BY <1>1 DEF W!Incoming, Full!Incoming
<1> QED
  BY <1>1, <1>2, <1>3 DEF Full!HopsInto

LEMMA UpstreamAgrees ==
  ASSUME TypeOK, HoldsLastCAP, trip \in W!Held
  PROVE  W!Upstream \subseteq Full!Upstream
<1>1. W!Held \subseteq Full!Held
  BY ViewsAgree DEF W!Held, Full!Held
<1> SUFFICES ASSUME NEW e \in W!Upstream,
                    NEW S \in SUBSET Full!Held, trip \in S, Full!Closed(S)
             PROVE  e \in S
  BY <1>1 DEF Full!Upstream, W!Upstream
<1> DEFINE R == S \cap W!Held
<1>2. R \in SUBSET W!Held /\ trip \in R
  OBVIOUS
<1>3. W!Closed(R)
  <2> SUFFICES ASSUME NEW d \in R, NEW h \in W!HopsInto(d)
               PROVE  h.trigger \in R
    BY DEF W!Closed
  <2>1. h.trigger \in S
    BY HopsAgree DEF Full!Closed
  <2>2. h.trigger \in W!Held
    <3>1. PICK edge : /\ W!LastForNodeBefore(IterRev, edge.from, d.ts) # NoTransition
                      /\ h.trigger = W!LastForNodeBefore(IterRev, edge.from, d.ts)
      BY DEF W!HopsInto
    <3> QED
      BY <3>1, ViewsAgree, WalkAssumptions, W!LookupFound DEF W!Held
  <2> QED
    BY <2>1, <2>2
<1> QED
  BY <1>2, <1>3 DEF W!Upstream

-----------------------------------------------------------------------------
(* Strictly increasing stamps.                                             *)

\* Stamps that increase from each transition to the next increase over any
\* distance.
LEMMA StampsIncrease ==
  ASSUME pushed \in Seq(Transition), StrictlyStamped,
         NEW i \in 1 .. Len(pushed), NEW j \in 1 .. Len(pushed), i < j
  PROVE  pushed[i].ts < pushed[j].ts
<1> DEFINE Bad == {k \in Nat : i < k /\ k <= Len(pushed)
                                 /\ ~(pushed[i].ts < pushed[k].ts)}
<1>1. \A k \in 1 .. Len(pushed) : pushed[k].ts \in Nat
  <2>1. \A k \in 1 .. Len(pushed) : pushed[k] \in Transition
    OBVIOUS
  <2> QED
    BY <2>1, WalkAssumptions
<1>2. Bad = {}
  <2> SUFFICES ASSUME Bad # {}  PROVE FALSE
    OBVIOUS
  <2>1. PICK k \in Bad : \A l \in Bad : k <= l
    <3>1. Bad \in SUBSET Nat
      OBVIOUS
    <3> HIDE DEF Bad
    <3> QED
      BY <3>1, LeastPosition
  <2>2. k \in Nat /\ i < k /\ k <= Len(pushed) /\ ~(pushed[i].ts < pushed[k].ts)
    BY <2>1
  <2>3. pushed[k - 1].ts < pushed[k].ts
    <3>1. k - 1 \in 1 .. Len(pushed) - 1 /\ (k - 1) + 1 = k
      BY <2>2
    <3> QED
      BY <3>1 DEF StrictlyStamped
  <2>4. CASE k - 1 = i
    BY <2>2, <2>3, <2>4
  <2>5. CASE k - 1 # i
    <3>1. k - 1 \in Nat /\ i < k - 1 /\ k - 1 <= Len(pushed) /\ ~(k <= k - 1)
      BY <2>2, <2>5
    <3>2. pushed[i].ts < pushed[k - 1].ts
      <4>1. k - 1 \notin Bad
        <5> HIDE DEF Bad
        <5> QED
          BY <2>1, <3>1
      <4> QED
        BY <3>1, <4>1
    <3>3. /\ pushed[i].ts \in Nat /\ pushed[k - 1].ts \in Nat
          /\ pushed[k].ts \in Nat
      BY <1>1, <2>2, <3>1
    <3> QED
      BY <2>2, <2>3, <3>2, <3>3
  <2> QED
    BY <2>4, <2>5
<1> QED
  BY <1>2

\* Where a transition of the ring stands in the history.
LEMMA HeldAt ==
  ASSUME EngineInv, NEW i \in 1 .. len
  PROVE  /\ IterRev[i] = pushed[Len(pushed) + 1 - i]
         /\ Len(pushed) + 1 - i \in 1 .. Len(pushed)
         /\ IterRev[i].seq = Len(pushed) - i
<1>1. /\ len <= Len(pushed) /\ len \in Nat /\ Len(pushed) \in Nat
      /\ IterRev[i] = History[i]
  BY ViewsAgree DEF EngineInv, TypeOK, RingTypeOK
<1>2. Len(pushed) + 1 - i \in 1 .. Len(pushed) /\ i \in 1 .. Len(pushed)
  BY <1>1
<1>3. IterRev[i] = pushed[Len(pushed) + 1 - i]
  BY <1>1, <1>2 DEF History
<1>4. pushed[Len(pushed) + 1 - i].seq = (Len(pushed) + 1 - i) - 1
  BY <1>2 DEF EngineInv, Numbered
<1> QED
  BY <1>1, <1>2, <1>3, <1>4

-----------------------------------------------------------------------------
(* Nothing upstream of the trip has been evicted.                          *)

LEMMA FullUpstreamClosed ==
  ASSUME NEW e \in Full!Upstream, NEW h \in Full!HopsInto(e), h.trigger \in Full!Held
  PROVE  h.trigger \in Full!Upstream
<1> SUFFICES ASSUME NEW S \in SUBSET Full!Held, trip \in S, Full!Closed(S)
             PROVE  h.trigger \in S
  BY DEF Full!Upstream
<1>1. e \in S
  BY DEF Full!Upstream
<1> QED
  BY <1>1 DEF Full!Closed

\* A transition is held by the ring at its own place of the history, so that a
\* trigger which was not evicted is found there again.
LEMMA FullHopsHeld ==
  ASSUME EngineInv, Full!Upstream \subseteq W!Held,
         NEW e \in Full!Upstream, NEW h \in Full!HopsInto(e)
  PROVE  h \in W!HopsInto(e) /\ h.trigger \in Full!Upstream
<1> DEFINE last(d) == Full!LastForNodeBefore(History, d.from, e.ts)
           L == Len(pushed)
<1>1. PICK edge \in {Full!Incoming(e.node)[k] : k \in DOMAIN Full!Incoming(e.node)} :
         /\ last(edge) # NoTransition
         /\ h = [edge |-> edge, dt |-> e.ts - last(edge).ts,
                 trigger |-> last(edge), effect |-> e]
  BY DEF Full!HopsInto
<1>2. /\ TypeOK /\ HoldsLastCAP
      /\ IterRev \in Seq(Transition) /\ History \in Seq(Transition)
      /\ DOMAIN IterRev = 1 .. len /\ DOMAIN History = 1 .. L
      /\ len <= L /\ len \in Nat /\ L \in Nat
      /\ \A i \in 1 .. len : IterRev[i] = History[i]
  BY ViewsAgree DEF EngineInv
<1>3. last(edge) = W!LastForNodeBefore(History, edge.from, e.ts)
  BY DEF Full!LastForNodeBefore, W!LastForNodeBefore, Full!Matching, W!Matching
<1>4. PICK k \in W!Matching(History, edge.from, e.ts) : last(edge) = History[k]
  BY <1>1, <1>2, <1>3, WalkAssumptions, W!LookupResult
<1>5. k \in 1 .. L /\ h.trigger = History[k]
  BY <1>1, <1>2, <1>4 DEF W!Matching
<1>6. h.trigger \in Full!Upstream
  BY <1>2, <1>5, FullUpstreamClosed DEF Full!Held
<1>7. PICK q \in 1 .. len : h.trigger = IterRev[q]
  BY <1>2, <1>6 DEF W!Held
<1>8. h.trigger.seq = L - q
  BY <1>7, HeldAt
<1>9. h.trigger.seq = L - k
  <2>1. History[k] = pushed[L + 1 - k] /\ L + 1 - k \in 1 .. L
    BY <1>2, <1>5 DEF History
  <2>2. pushed[L + 1 - k].seq = (L + 1 - k) - 1
    BY <2>1 DEF EngineInv, Numbered
  <2> QED
    BY <1>2, <1>5, <2>1, <2>2
<1>10. k = q
  BY <1>2, <1>5, <1>7, <1>8, <1>9
<1>11. k \in W!Matching(IterRev, edge.from, e.ts)
  BY <1>2, <1>4, <1>7, <1>10 DEF W!Matching
<1>12. W!LastForNodeBefore(IterRev, edge.from, e.ts) # NoTransition
  <2>1. PICK i \in W!Matching(IterRev, edge.from, e.ts) :
           W!LastForNodeBefore(IterRev, edge.from, e.ts) = IterRev[i]
    BY <1>2, <1>11, WalkAssumptions, W!LookupResult
  <2>2. IterRev[i] \in Transition
    BY <1>2 DEF W!Matching
  <2> QED
    BY <2>1, <2>2, WalkAssumptions
<1>13. last(edge) = W!LastForNodeBefore(IterRev, edge.from, e.ts)
  BY <1>2, <1>12, LookupAgrees
<1>14. edge \in {W!Incoming(e.node)[j] : j \in DOMAIN W!Incoming(e.node)}
  BY <1>1 DEF W!Incoming, Full!Incoming
<1>15. h \in W!HopsInto(e)
  BY <1>1, <1>12, <1>13, <1>14 DEF W!HopsInto
<1> QED
  BY <1>6, <1>15

\* The ring then shows all of what the trip depends on.
LEMMA SameViolations ==
  ASSUME EngineInv, trip \in W!Held, Full!Upstream \subseteq W!Held
  PROVE  W!Upstream = Full!Upstream /\ W!Violations = Full!Violations
<1>1. TypeOK /\ HoldsLastCAP /\ W!Held \subseteq Full!Held
  BY ViewsAgree DEF EngineInv, W!Held, Full!Held
<1>2. trip \in Full!Upstream
  BY <1>1 DEF Full!Upstream
<1>3. Full!Upstream \subseteq W!Upstream
  <2> SUFFICES ASSUME NEW e \in Full!Upstream,
                      NEW S \in SUBSET W!Held, trip \in S, W!Closed(S)
               PROVE  e \in S
    BY DEF W!Upstream
  <2> DEFINE R == S \cap Full!Upstream
  <2>1. R \in SUBSET Full!Held /\ trip \in R
    BY <1>1, <1>2
  <2>2. Full!Closed(R)
    <3> SUFFICES ASSUME NEW d \in R, NEW h \in Full!HopsInto(d)
                 PROVE  h.trigger \in R
      BY DEF Full!Closed
    <3>1. h \in W!HopsInto(d) /\ h.trigger \in Full!Upstream
      BY FullHopsHeld
    <3> QED
      BY <3>1 DEF W!Closed
  <2> QED
    BY <2>1, <2>2 DEF Full!Upstream
<1>4. W!Upstream = Full!Upstream
  BY <1>1, <1>3, UpstreamAgrees
<1>5. \A e \in Full!Upstream : W!HopsInto(e) = Full!HopsInto(e)
  BY <1>1, FullHopsHeld, HopsAgree
<1>6. W!UpstreamHops = Full!UpstreamHops
  BY <1>4, <1>5 DEF W!UpstreamHops, Full!UpstreamHops
<1> QED
  BY <1>4, <1>6 DEF W!Violations, Full!Violations

-----------------------------------------------------------------------------
(* Theorems: what is reported.                                             *)

\* Whatever the ring has evicted, every reported candidate is a violation
\* upstream of the trip in the full history: forgetting loses evidence, it never
\* makes evidence up, nor blames an edge for an interval that was not the one
\* between consecutive updates.
THEOREM EngineEvictionNeverInvents == Spec => []EvictionNeverInvents
<1>1. Init => EvictInv
  BY EngineInvInit DEF EvictInv, Init
<1>2. EvictInv => EvictionNeverInvents
  <2> SUFFICES ASSUME EvictInv, phase # "idle", NEW i \in DOMAIN candidates
               PROVE  candidates[i] \in Full!Violations
    BY DEF EvictionNeverInvents
  <2>1. TypeOK /\ HoldsLastCAP /\ W!WalkInv /\ trip \in W!Held
    BY DEF EvictInv, WalkFacts, EngineInv, W!WalkInv
  <2>2. /\ candidates[i] \in W!HopsInto(candidates[i].effect)
        /\ candidates[i].effect \in W!Upstream
        /\ candidates[i].dt > candidates[i].edge.wcet
    BY <2>1, WalkAssumptions, W!CandidateIsHop
  <2>3. /\ candidates[i] \in Full!HopsInto(candidates[i].effect)
        /\ candidates[i].effect \in Full!Upstream
    BY <2>1, <2>2, HopsAgree, UpstreamAgrees
  <2> QED
    BY <2>2, <2>3 DEF Full!Violations, Full!UpstreamHops
<1> QED
  BY <1>1, <1>2, EvictInvStep, PTL DEF Spec

\* When every frame is stamped later than the one before it, no newer update of
\* the source lies between a reported trigger and its effect: the interval in
\* the evidence is one between consecutive activations.
THEOREM EngineTriggerIsLatest == Spec => []TriggerIsLatestArrival
<1>1. Init => EvictInv
  BY EngineInvInit DEF EvictInv, Init
<1>2. EvictInv => TriggerIsLatestArrival
  <2> SUFFICES ASSUME EvictInv, phase # "idle", StrictlyStamped,
                      NEW i \in DOMAIN candidates,
                      NEW j \in candidates[i].trigger.seq + 1 ..
                                   candidates[i].effect.seq - 1,
                      pushed[j + 1].node = candidates[i].edge.from
               PROVE  FALSE
    BY DEF TriggerIsLatestArrival
  <2> DEFINE c == candidates[i]
             L == Len(pushed)
             m == W!Matching(IterRev, c.edge.from, c.effect.ts)
  <2>1. /\ EngineInv /\ TypeOK /\ HoldsLastCAP /\ W!WalkInv
        /\ pushed \in Seq(Transition) /\ L \in Nat
    BY DEF EvictInv, WalkFacts, EngineInv, TypeOK, RingTypeOK
  <2>2. /\ DOMAIN IterRev = 1 .. len /\ len <= L /\ len \in Nat
        /\ IterRev \in Seq(Transition)
    BY <2>1, ViewsAgree
  <2>3. /\ c.effect \in W!Held /\ c.trigger \in W!Held
        /\ c.trigger = W!LastForNodeBefore(IterRev, c.edge.from, c.effect.ts)
    BY <2>1 DEF W!WalkInv, W!CandidatesGenuine, W!Genuine
  <2>4. c.trigger # NoTransition
    BY <2>2, <2>3, NoneAssumption DEF W!Held
  <2> HIDE DEF c
  <2>5. PICK e \in 1 .. len : c.effect = IterRev[e]
    BY <2>2, <2>3 DEF W!Held
  <2>6. PICK k \in m : c.trigger = IterRev[k] /\ \A q \in m : k <= q
    BY <2>2, <2>3, <2>4, WalkAssumptions, W!LookupResult
  <2>7. k \in 1 .. len
    BY <2>2 DEF W!Matching
  <2>8. c.trigger.seq = L - k /\ c.effect.seq = L - e
    BY <2>1, <2>5, <2>6, <2>7, HeldAt
  <2>9. j \in (L - k) + 1 .. (L - e) - 1 /\ pushed[j + 1].node = c.edge.from
    BY <2>8 DEF c
  <2> DEFINE q == L - j
  <2>10. /\ q \in 1 .. len /\ e < q /\ q < k /\ L + 1 - q = j + 1
         /\ L + 1 - q < L + 1 - e
    BY <2>1, <2>2, <2>7, <2>9
  <2>11. /\ IterRev[q] = pushed[j + 1] /\ j + 1 \in 1 .. L
         /\ c.effect = pushed[L + 1 - e] /\ L + 1 - e \in 1 .. L
    BY <2>1, <2>5, <2>10, HeldAt
  <2>12. IterRev[q].ts < c.effect.ts
    BY <2>1, <2>10, <2>11, StampsIncrease
  <2>13. q \in m
    BY <2>2, <2>9, <2>10, <2>11, <2>12 DEF W!Matching
  <2> HIDE DEF m, q
  <2>14. k <= q
    BY <2>6, <2>13
  <2> QED
    BY <2>7, <2>10, <2>14
<1> QED
  BY <1>1, <1>2, EvictInvStep, PTL DEF Spec
\* If nothing the trip depends on has left the ring, and nothing of it competes
\* for a node, the report is the violations upstream of the trip in the full
\* history: forgetting is the only way to lose one.
THEOREM EngineLossOnlyByEviction == Spec => []LossOnlyByEviction
<1>1. Init => EvictInv
  BY EngineInvInit DEF EvictInv, Init
<1>2. EvictInv => LossOnlyByEviction
  <2> SUFFICES ASSUME EvictInv, phase = "ranked", Unambiguous,
                      Full!Upstream \subseteq W!Held
               PROVE  {ranked[i] : i \in DOMAIN ranked} = Full!Violations
    BY DEF LossOnlyByEviction, Walk!Held, W!Held
  <2>1. EngineInv /\ W!WalkInv /\ W!ThoroughInv /\ W!RankedInv /\ trip \in W!Held
    BY DEF EvictInv, WalkFacts, W!WalkInv
  <2>2. W!Upstream = Full!Upstream /\ W!Violations = Full!Violations
    BY <2>1, SameViolations
  <2>3. W!Unambiguous
    BY <2>2 DEF Unambiguous, W!Unambiguous, W!Incoming
  <2>4. W!Found = W!Violations
    BY <2>1, <2>3, WalkAssumptions, W!ReturnIsComplete
       DEF W!CompleteWhenUnambiguous, W!Found
  <2>5. {ranked[i] : i \in DOMAIN ranked} = W!Found
    BY <2>1, WalkAssumptions, W!RankedSameSet DEF W!WalkInv
  <2> QED
    BY <2>2, <2>4, <2>5
<1> QED
  BY <1>1, <1>2, EvictInvStep, PTL DEF Spec
=============================================================================
