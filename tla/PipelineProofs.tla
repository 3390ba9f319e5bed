--------------------------- MODULE PipelineProofs ---------------------------
(***************************************************************************)
(* The attribution loop, for every manifest, capture and capacity: between *)
(* two frames the sink holds exactly one row for every trip in the whole   *)
(* history, an attributed row covers the overrun of its root, and the      *)
(* window of a `run' record holds everything its catalysts refer to.       *)
(***************************************************************************)
EXTENDS AttributionRun, EngineProofs

-----------------------------------------------------------------------------
(* The engine inside the loop.                                             *)

\* A step of the loop is a step of the engine or leaves the engine alone.
LEMMA LoopStepsEngine == [RunNext]_allVars => [Next]_vars
<1>1. ASSUME NEW f \in Frames, NEW ts \in Time, TakeQuiet(f, ts)  PROVE Next
  <2>1. Parse(f).proto \in Payload
    BY <1>1, FramesAssumption DEF TakeQuiet
  <2> QED
    BY <1>1, <2>1 DEF TakeQuiet, Next
<1>2. ASSUME NEW f \in Frames, NEW ts \in Time, TakeTrip(f, ts)  PROVE Next
  <2>1. Parse(f).proto \in Payload
    BY <1>2, FramesAssumption DEF TakeTrip
  <2> QED
    BY <1>2, <2>1 DEF TakeTrip, Next
<1>3. Analyse => Next
  BY DEF Analyse, Next
<1>4. (\E f \in Frames : DropFrame(f)) \/ Store \/ End => UNCHANGED vars
  BY DEF DropFrame, Store, End
<1>5. UNCHANGED allVars => UNCHANGED vars
  BY DEF allVars
<1> QED
  BY <1>1, <1>2, <1>3, <1>4, <1>5 DEF RunNext

\* classify answers exactly the payloads some matcher claims, with a claimant.
ClaimsRight ==
    /\ DOMAIN classify = {p \in Payload : Claimants(p) # {}}
    /\ \A p \in DOMAIN classify : classify[p] \in Claimants(p)

LEMMA ClaimsRightInit == Init => ClaimsRight
<1> SUFFICES ASSUME Init PROVE ClaimsRight
  OBVIOUS
<1> DEFINE N == DOMAIN manifest.nodes
<1>1. PICK r \in Orders : classify = Classifies(r)
  BY DEF Init
<1>2. r \in [N -> 1 .. Cardinality(N)] /\ Cardinality(N) \in Nat
  BY ManifestsAssumption, FS_CardinalityType DEF Orders, Init
<1>3. DOMAIN classify = {p \in Payload : Claimants(p) # {}}
  BY <1>1 DEF Classifies
<1>4. ASSUME NEW p \in DOMAIN classify  PROVE classify[p] \in Claimants(p)
  <2> DEFINE C == Claimants(p)
             R == {r[n] : n \in C}
  <2>1. C # {} /\ C \subseteq N
    BY <1>3, <1>4 DEF Claimants
  <2>2. classify[p] = CHOOSE n \in C : \A m \in C : r[n] <= r[m]
    BY <1>1, <1>3, <1>4 DEF Classifies
  <2>3. R \in SUBSET Nat /\ R # {}
    BY <1>2, <2>1
  <2>4. PICK i \in R : \A j \in R : i <= j
    <3> HIDE DEF R
    <3> QED
      BY <2>3, LeastPosition
  <2>5. \E n \in C : \A m \in C : r[n] <= r[m]
    BY <2>4
  <2> HIDE DEF C
  <2> QED
    BY <2>2, <2>5 DEF C
<1> QED
  BY <1>3, <1>4 DEF ClaimsRight

LEMMA ClaimsRightStep == ClaimsRight /\ [Next]_vars => ClaimsRight'
<1> SUFFICES ASSUME ClaimsRight, [Next]_vars PROVE ClaimsRight'
  OBVIOUS
<1>1. UNCHANGED <<manifest, classify>>
  BY DEF Next, Ignore, ObserveQuiet, ObserveTrip, Backtrack, Record, engineVars, vars
<1> QED
  BY <1>1 DEF ClaimsRight, Claimants

-----------------------------------------------------------------------------
(* Trips.                                                                  *)

LEMMA TripsOfPrefix ==
  ASSUME EngineInv, NEW t \in Transition, pushed' = Append(pushed, t),
         manifest' = manifest
  PROVE  /\ Trips' = Trips \cup (IF Falls(t) THEN {Len(pushed) + 1} ELSE {})
         /\ Len(pushed) + 1 \notin Trips /\ Trips \subseteq DOMAIN pushed
<1> DEFINE L == Len(pushed)
           n == manifest.trip_node
           A == Append(pushed, t)
<1>1. pushed \in Seq(Transition) /\ L \in Nat /\ DOMAIN pushed = 1 .. L
  BY DEF EngineInv, TypeOK, RingTypeOK
<1>2. /\ A \in Seq(Transition) /\ Len(A) = L + 1 /\ DOMAIN A = 1 .. L + 1
      /\ SubSeq(A, 1, L + 1) = A
      /\ \A k \in 1 .. L : SubSeq(A, 1, k) = SubSeq(pushed, 1, k)
  <2>1. A \in Seq(Transition) /\ Len(A) = L + 1 /\ DOMAIN A = 1 .. L + 1
    BY <1>1
  <2>2. \A i \in 1 .. L : A[i] = pushed[i]
    BY <1>1
  <2>3. SubSeq(A, 1, L + 1) = A
    <3> HIDE DEF A
    <3> QED
      BY <1>1, <2>1
  <2>4. ASSUME NEW k \in 1 .. L  PROVE SubSeq(A, 1, k) = SubSeq(pushed, 1, k)
    <3>1. SubSeq(A, 1, k) = [i \in 1 .. k |-> A[i]]
      BY <1>1, <2>1
    <3>2. SubSeq(pushed, 1, k) = [i \in 1 .. k |-> pushed[i]]
      BY <1>1
    <3>3. \A i \in 1 .. k : i \in 1 .. L
      BY <1>1
    <3> HIDE DEF A
    <3> QED
      BY <2>2, <3>1, <3>2, <3>3
  <2> QED
    BY <2>1, <2>3, <2>4
<1>3. Falls(t) <=> FallingEdge(A, n)
  BY FallsIsFallingEdge
<1>4. Trips = {k \in 1 .. L : FallingEdge(SubSeq(pushed, 1, k), n)}
  BY <1>1 DEF Trips
<1>5. Trips' = {k \in 1 .. L + 1 : FallingEdge(SubSeq(A, 1, k), n)}
  BY <1>2 DEF Trips
<1>6. \A k : k \in 1 .. L + 1 <=> (k \in 1 .. L \/ k = L + 1)
  BY <1>1
<1>7. L + 1 \notin 1 .. L
  BY <1>1
<1> HIDE DEF A, L, n
<1> QED
  BY <1>1, <1>2, <1>3, <1>4, <1>5, <1>6, <1>7 DEF L

LEMMA TripsFinite ==
  ASSUME EngineInv
  PROVE  IsFiniteSet(Trips) /\ Cardinality(Trips) \in Nat
<1>1. DOMAIN pushed = 1 .. Len(pushed) /\ Len(pushed) \in Nat
  BY DEF EngineInv, TypeOK, RingTypeOK
<1>2. IsFiniteSet(DOMAIN pushed)
  BY <1>1, FS_Interval
<1> QED
  BY <1>2, FS_Subset, FS_CardinalityType DEF Trips

-----------------------------------------------------------------------------
(* The inductive invariant.                                                *)

Fields == {"frames", "parsed", "dropped", "trips", "attributed"}

\* Inside observe, and until the row is put, the trip is the newest transition.
TurnInv ==
    /\ turn \in {"reading", "analysing", "done"}
    /\ phase = "walking" => turn = "analysing"
    /\ turn = "analysing" =>
          /\ phase \in {"walking", "ranked"}
          /\ pushed # << >> /\ trip = pushed[Len(pushed)]
          /\ Len(pushed) \in Trips

\* One row for every trip but the one being analysed, each under its own key.
Settled == IF turn = "analysing" THEN Trips \ {Len(pushed)} ELSE Trips

RowsInv ==
    /\ DOMAIN rows = {<<pushed[k].ts, pushed[k].seq>> : k \in Settled}
    /\ \A k \in DOMAIN rows : k = <<rows[k].ts, rows[k].id>>

AttributedRows == {r \in Kept : r.attributed}

TallyInv ==
    /\ tally \in [Fields -> Nat]
    /\ tally.trips = Cardinality(Trips)
    /\ IsFiniteSet(AttributedRows)
    /\ tally.attributed = Cardinality(AttributedRows)
    /\ tally.frames = tally.parsed + tally.dropped

\* The log run keeps is the engine's history, one transition behind it while a
\* trip is analysed.
LogInv ==
    command = "run" =>
        /\ manifest = DemoManifest
        /\ turn # "analysing" => event_log = pushed
        /\ turn = "analysing" =>
              /\ pushed = Append(event_log, trip)
              /\ PushEvent(event_log, current.proto, current.ts) = pushed

LoopInv ==
    /\ EvictInv /\ ClaimsRight
    /\ TurnInv /\ RowsInv /\ TallyInv /\ LogInv
    /\ ResponseCoversOverrun /\ RecordPointsIntoItsWindow

LEMMA LoopInvInit == RunInit => LoopInv
<1> SUFFICES ASSUME RunInit PROVE LoopInv
  OBVIOUS
<1>1. /\ Init /\ turn = "reading" /\ event_log = << >> /\ rows = << >>
      /\ pushed = << >> /\ phase = "idle"
      /\ tally = [frames |-> 0, parsed |-> 0, dropped |-> 0, trips |-> 0,
                  attributed |-> 0]
      /\ command = "run" => manifest = DemoManifest
  BY DEF RunInit, Init, RingInit, Sink!Init
<1>2. EvictInv /\ ClaimsRight
  BY <1>1, EngineInvInit, ClaimsRightInit DEF EvictInv
<1>3. Trips = {} /\ Kept = {} /\ AttributedRows = {}
  BY <1>1 DEF Trips, Kept, Sink!Held, AttributedRows
<1>4. RowsInv /\ ResponseCoversOverrun /\ RecordPointsIntoItsWindow
  BY <1>1, <1>3
     DEF RowsInv, Settled, ResponseCoversOverrun, RecordPointsIntoItsWindow
<1>5. TallyInv
  BY <1>1, <1>3, FS_EmptySet DEF TallyInv, Fields
<1> QED
  BY <1>1, <1>2, <1>4, <1>5 DEF LoopInv, TurnInv, LogInv

\* A stored row is numbered like its trip.
LEMMA KeptInHistory ==
  ASSUME LoopInv, NEW r \in Kept
  PROVE  r.id \in Nat /\ r.id + 1 \in DOMAIN pushed
<1>1. EngineInv /\ Settled \subseteq DOMAIN pushed /\ DOMAIN pushed = 1 .. Len(pushed)
  BY DEF LoopInv, EvictInv, EngineInv, TypeOK, RingTypeOK, Settled, Trips
<1>2. PICK key \in DOMAIN rows : r = rows[key]
  BY DEF Kept, Sink!Held
<1>3. PICK k \in Settled : <<r.ts, r.id>> = <<pushed[k].ts, pushed[k].seq>>
  BY <1>2 DEF LoopInv, RowsInv
<1>4. pushed[k].seq = k - 1
  BY <1>1 DEF EngineInv, Numbered
<1> QED
  BY <1>1, <1>3, <1>4

\* The history only grows, so what the rows say of it stays true.
RowVars == <<rows, command>>
HistoryGrows == \A k \in DOMAIN pushed : pushed'[k] = pushed[k]

LEMMA SameRows ==
  ASSUME LoopInv, UNCHANGED RowVars, HistoryGrows
  PROVE  /\ Kept' = Kept /\ AttributedRows' = AttributedRows
         /\ ResponseCoversOverrun' /\ RecordPointsIntoItsWindow'
<1>1. Kept' = Kept
  BY DEF RowVars, Kept, Sink!Held
<1>2. AttributedRows' = AttributedRows /\ ResponseCoversOverrun'
  BY <1>1 DEF LoopInv, AttributedRows, ResponseCoversOverrun
<1>3. ASSUME NEW r \in Kept, NEW c, NamesRealEvents(r, c)
      PROVE  NamesRealEvents(r, c)'
  <2>1. DOMAIN pushed = 1 .. Len(pushed) /\ Len(pushed) \in Nat
    BY DEF LoopInv, EvictInv, EngineInv, TypeOK, RingTypeOK
  <2>2. \A n \in 0 .. r.id : pushed'[n + 1] = pushed[n + 1]
    BY <2>1, KeptInHistory DEF HistoryGrows
  <2> QED
    BY <1>3, <2>2 DEF NamesRealEvents
<1>4. RecordPointsIntoItsWindow'
  BY <1>1, <1>3 DEF LoopInv, RowVars, RecordPointsIntoItsWindow
<1> QED
  BY <1>1, <1>2, <1>4

LEMMA BumpAdds ==
  ASSUME tally \in [Fields -> Nat], NEW F, tally' = Bump(F)
  PROVE  /\ tally' \in [Fields -> Nat]
         /\ \A k \in Fields : tally'[k] = IF k \in F THEN tally[k] + 1 ELSE tally[k]
  BY DEF Bump

-----------------------------------------------------------------------------
(* The two logs.                                                           *)

\* push_event, with its own constants and its own counter, appends what the
\* engine records of the demo cell, and nothing else.
LEMMA LogsAsEngine ==
  ASSUME EngineInv, ClaimsRight, manifest = DemoManifest,
         NEW p \in Payload, NEW ts
  PROVE  /\ p \in DOMAIN classify
               => PushEvent(pushed, p, ts) = Append(pushed, TransitionOf(p, ts))
         /\ p \notin DOMAIN classify => PushEvent(pushed, p, ts) = pushed
<1> DEFINE M(n) == DemoManifest.nodes[n]
<1>1. /\ DOMAIN DemoManifest.nodes = {1, 2, 3}
      /\ M(1) = [kind |-> "ros2", topic_port |-> AMR_PORT]
      /\ M(2) = [kind |-> "fanuc"]
      /\ M(3) = [kind |-> "profinet", frame_id |-> 2, bit_index |-> 0]
  BY DEF DemoManifest, N_AMR, N_FANUC, N_PLC
<1>2. /\ Matches(M(1), p) <=> p.kind = "ros2" /\ p.topic_port = AMR_PORT
      /\ Matches(M(2), p) <=> p.kind = "fanuc"
      /\ Matches(M(3), p) <=> p.kind = "profinet" /\ p.frame_id = 2
  BY <1>1 DEF Matches
<1>3. /\ LevelRead(M(1), p) = "none" /\ LevelRead(M(2), p) = "none"
      /\ LevelRead(M(3), p) = IF 0 \in p.status THEN "high" ELSE "low"
  BY <1>1 DEF LevelRead
<1> HIDE DEF M
<1>4. Claimants(p) = {n \in {1, 2, 3} : Matches(M(n), p)}
  BY <1>1 DEF Claimants, M
<1>5. p \in DOMAIN classify
        => /\ classify[p] \in {1, 2, 3} /\ Matches(M(classify[p]), p)
           /\ TransitionOf(p, ts) = [seq |-> Len(pushed), node |-> classify[p],
                                     ts |-> ts,
                                     interlock |-> LevelRead(M(classify[p]), p)]
  BY <1>4 DEF ClaimsRight, TransitionOf, EngineInv, TypeOK, M
<1>6. ASSUME p \in DOMAIN classify
      PROVE  PushEvent(pushed, p, ts) = Append(pushed, TransitionOf(p, ts))
  <2>1. CASE classify[p] = 1
    BY <1>2, <1>3, <1>5, <1>6, <2>1 DEF PushEvent, Event, N_AMR
  <2>2. CASE classify[p] = 2
    BY <1>2, <1>3, <1>5, <1>6, <2>2 DEF PushEvent, Event, N_FANUC
  <2>3. CASE classify[p] = 3
    BY <1>2, <1>3, <1>5, <1>6, <2>3 DEF PushEvent, Event, N_PLC
  <2> QED
    BY <1>5, <1>6, <2>1, <2>2, <2>3
<1>7. ASSUME p \notin DOMAIN classify
      PROVE  PushEvent(pushed, p, ts) = pushed
  <2>1. \A n \in {1, 2, 3} : ~Matches(M(n), p)
    BY <1>4, <1>7 DEF ClaimsRight
  <2> QED
    BY <1>2, <2>1 DEF PushEvent
<1> QED
  BY <1>6, <1>7

-----------------------------------------------------------------------------
(* Frames.                                                                 *)

\* A frame without a trip leaves the trips and their transitions as they are.
LEMMA QuietFacts ==
  ASSUME LoopInv, NEW f \in Frames, NEW ts \in Time, TakeQuiet(f, ts)
  PROVE  /\ Trips' = Trips /\ \A k \in Trips : pushed'[k] = pushed[k]
         /\ HistoryGrows
         /\ manifest' = manifest /\ phase' = "idle"
         /\ command = "run" => event_log' = pushed'
<1> DEFINE p == Parse(f).proto
<1>1. /\ p \in Payload /\ turn = "reading"
      /\ EngineInv /\ ClaimsRight
      /\ command = "run" => event_log = pushed /\ manifest = DemoManifest
      /\ event_log' = Logged(p, ts)
  BY FramesAssumption DEF TakeQuiet, More, LoopInv, EvictInv, LogInv
<1>2. PICK q \in Payload : q = p
  BY <1>1
<1>3. CASE Ignore(q)
  <2>1. UNCHANGED <<pushed, manifest>> /\ phase' = "idle" /\ q \notin DOMAIN classify
    BY <1>3 DEF Ignore, ringVars, engineVars
  <2>2. Trips' = Trips
    BY <2>1 DEF Trips
  <2>3. command = "run" => event_log' = pushed'
    BY <1>1, <1>2, <2>1, LogsAsEngine DEF Logged
  <2> QED
    BY <2>1, <2>2, <2>3 DEF HistoryGrows
<1>4. CASE ObserveQuiet(q, ts)
  <2>1. PICK t \in Transition : t = TransitionOf(q, ts)
    BY <1>1, <1>4, TransitionOfType DEF ObserveQuiet, EngineInv
  <2>2. /\ pushed' = Append(pushed, t) /\ manifest' = manifest /\ ~Falls(t)
        /\ phase' = "idle" /\ q \in DOMAIN classify
    BY <1>4, <2>1 DEF ObserveQuiet, Record, Push
  <2>3. Trips' = Trips /\ Trips \subseteq DOMAIN pushed
    BY <1>1, <2>2, TripsOfPrefix
  <2>4. \A k \in DOMAIN pushed : pushed'[k] = pushed[k]
    BY <1>1, <2>2 DEF EngineInv, TypeOK, RingTypeOK
  <2>5. command = "run" => event_log' = pushed'
    BY <1>1, <1>2, <2>1, <2>2, LogsAsEngine DEF Logged
  <2> QED
    BY <2>2, <2>3, <2>4, <2>5 DEF HistoryGrows
<1> QED
  BY <1>2, <1>3, <1>4 DEF TakeQuiet

LEMMA TripFacts ==
  ASSUME LoopInv, NEW f \in Frames, NEW ts \in Time, TakeTrip(f, ts)
  PROVE  /\ Trips' = Trips \cup {Len(pushed) + 1}
         /\ Len(pushed) + 1 \notin Trips /\ Len(pushed') = Len(pushed) + 1
         /\ \A k \in Trips : pushed'[k] = pushed[k]
         /\ HistoryGrows
         /\ pushed' # << >> /\ pushed'[Len(pushed')] = trip'
         /\ pushed' = Append(pushed, trip')
         /\ manifest' = manifest /\ phase' = "walking"
         /\ command = "run" =>
               PushEvent(event_log, current'.proto, current'.ts) = pushed'
<1> DEFINE p == Parse(f).proto
<1>1. /\ p \in Payload /\ turn = "reading"
      /\ EngineInv /\ ClaimsRight
      /\ command = "run" => event_log = pushed /\ manifest = DemoManifest
      /\ current' = [proto |-> p, ts |-> ts] /\ ObserveTrip(p, ts)
  BY FramesAssumption DEF TakeTrip, More, LoopInv, EvictInv, LogInv
<1>2. PICK q \in Payload : q = p
  BY <1>1
<1> HIDE DEF p
<1>3. PICK t \in Transition : t = TransitionOf(q, ts)
  BY <1>1, <1>2, TransitionOfType DEF ObserveTrip, EngineInv
<1>4. /\ pushed' = Append(pushed, t) /\ manifest' = manifest /\ Falls(t)
      /\ phase' = "walking" /\ trip' = t /\ q \in DOMAIN classify
  BY <1>1, <1>2, <1>3 DEF ObserveTrip, Record, Push, Walk!Call
<1>5. /\ Trips' = Trips \cup {Len(pushed) + 1} /\ Len(pushed) + 1 \notin Trips
      /\ Trips \subseteq DOMAIN pushed
  BY <1>1, <1>4, TripsOfPrefix
<1>6. /\ Len(pushed') = Len(pushed) + 1 /\ pushed' # << >>
      /\ pushed'[Len(pushed')] = t
      /\ \A k \in DOMAIN pushed : pushed'[k] = pushed[k]
  BY <1>1, <1>4 DEF EngineInv, TypeOK, RingTypeOK
<1>7. command = "run" => PushEvent(event_log, current'.proto, current'.ts) = pushed'
  BY <1>1, <1>2, <1>3, <1>4, LogsAsEngine
<1> QED
  BY <1>4, <1>5, <1>6, <1>7 DEF HistoryGrows

LEMMA TakeQuietInv ==
  ASSUME LoopInv, EvictInv', ClaimsRight',
         NEW f \in Frames, NEW ts \in Time, TakeQuiet(f, ts)
  PROVE  LoopInv'
<1>1. /\ Trips' = Trips /\ \A k \in Trips : pushed'[k] = pushed[k]
      /\ HistoryGrows
      /\ manifest' = manifest /\ phase' = "idle"
      /\ command = "run" => event_log' = pushed'
  BY QuietFacts
<1>2. /\ turn = "reading" /\ turn' = "reading"
      /\ UNCHANGED <<command, rows>> /\ tally' = Bump({"frames", "parsed"})
  BY DEF TakeQuiet, More
<1>3. TurnInv'
  BY <1>1, <1>2 DEF TurnInv
<1>4. RowsInv'
  BY <1>1, <1>2 DEF LoopInv, RowsInv, Settled
<1>5. /\ ResponseCoversOverrun' /\ RecordPointsIntoItsWindow'
      /\ AttributedRows' = AttributedRows
  BY <1>1, <1>2, SameRows DEF RowVars
<1>6. TallyInv'
  <2>1. /\ tally \in [Fields -> Nat] /\ tally' \in [Fields -> Nat]
        /\ tally'["trips"] = tally["trips"]
        /\ tally'["attributed"] = tally["attributed"]
        /\ tally'["frames"] = tally["frames"] + 1
        /\ tally'["parsed"] = tally["parsed"] + 1
        /\ tally'["dropped"] = tally["dropped"]
    BY <1>2, BumpAdds DEF LoopInv, TallyInv, Fields
  <2>2. tally["parsed"] \in Nat /\ tally["dropped"] \in Nat
    BY <2>1 DEF Fields
  <2> QED
    BY <1>1, <1>5, <2>1, <2>2 DEF LoopInv, TallyInv
<1>7. LogInv'
  BY <1>1, <1>2 DEF LoopInv, LogInv
<1> QED
  BY <1>3, <1>4, <1>5, <1>6, <1>7 DEF LoopInv

LEMMA TakeTripInv ==
  ASSUME LoopInv, EvictInv', ClaimsRight',
         NEW f \in Frames, NEW ts \in Time, TakeTrip(f, ts)
  PROVE  LoopInv'
<1>1. /\ Trips' = Trips \cup {Len(pushed) + 1}
      /\ Len(pushed) + 1 \notin Trips /\ Len(pushed') = Len(pushed) + 1
      /\ \A k \in Trips : pushed'[k] = pushed[k]
      /\ HistoryGrows
      /\ pushed' # << >> /\ pushed'[Len(pushed')] = trip'
      /\ pushed' = Append(pushed, trip')
      /\ manifest' = manifest /\ phase' = "walking"
      /\ command = "run" =>
            PushEvent(event_log, current'.proto, current'.ts) = pushed'
  BY TripFacts
<1>2. /\ turn = "reading" /\ turn' = "analysing"
      /\ UNCHANGED <<command, rows, event_log>>
      /\ tally' = Bump({"frames", "parsed", "trips"})
  BY DEF TakeTrip, More
<1>3. TurnInv'
  BY <1>1, <1>2 DEF TurnInv
<1>4. Settled' = Trips /\ Settled = Trips
  BY <1>1, <1>2 DEF Settled
<1>5. RowsInv'
  <2>1. {<<pushed'[k].ts, pushed'[k].seq>> : k \in Trips}
           = {<<pushed[k].ts, pushed[k].seq>> : k \in Trips}
    BY <1>1
  <2>2. DOMAIN rows' = {<<pushed'[k].ts, pushed'[k].seq>> : k \in Settled'}
    BY <1>2, <1>4, <2>1 DEF LoopInv, RowsInv
  <2> QED
    BY <1>2, <2>2 DEF LoopInv, RowsInv
<1>6. /\ ResponseCoversOverrun' /\ RecordPointsIntoItsWindow'
      /\ AttributedRows' = AttributedRows
  BY <1>1, <1>2, SameRows DEF RowVars
<1>7. TallyInv'
  <2>1. /\ tally \in [Fields -> Nat] /\ tally' \in [Fields -> Nat]
        /\ tally'["trips"] = tally["trips"] + 1
        /\ tally'["attributed"] = tally["attributed"]
        /\ tally'["frames"] = tally["frames"] + 1
        /\ tally'["parsed"] = tally["parsed"] + 1
        /\ tally'["dropped"] = tally["dropped"]
    BY <1>2, BumpAdds DEF LoopInv, TallyInv, Fields
  <2>2. tally["parsed"] \in Nat /\ tally["dropped"] \in Nat
    BY <2>1 DEF Fields
  <2>3. Cardinality(Trips') = Cardinality(Trips) + 1
    BY <1>1, TripsFinite, FS_AddElement DEF LoopInv, EvictInv
  <2>4. Cardinality(Trips)' = Cardinality(Trips')
    OBVIOUS
  <2> QED
    BY <1>6, <2>1, <2>2, <2>3, <2>4 DEF LoopInv, TallyInv
<1>8. LogInv'
  BY <1>1, <1>2 DEF LoopInv, LogInv
<1> QED
  BY <1>3, <1>5, <1>6, <1>7, <1>8 DEF LoopInv

LEMMA DropFrameInv ==
  ASSUME LoopInv, EvictInv', ClaimsRight', NEW f \in Frames, DropFrame(f)
  PROVE  LoopInv'
<1>1. /\ UNCHANGED <<vars, command, turn, current, event_log, rows>>
      /\ UNCHANGED <<pushed, manifest, phase, trip>>
      /\ tally' = Bump({"frames", "dropped"})
  BY DEF DropFrame, vars, ringVars, engineVars, walkVars
<1>2. Trips' = Trips
  BY <1>1 DEF Trips
<1>3. /\ ResponseCoversOverrun' /\ RecordPointsIntoItsWindow'
      /\ AttributedRows' = AttributedRows
  BY <1>1, SameRows DEF RowVars, HistoryGrows
<1>4. TurnInv' /\ RowsInv' /\ LogInv'
  BY <1>1, <1>2 DEF LoopInv, TurnInv, RowsInv, Settled, LogInv
<1>5. TallyInv'
  <2>1. /\ tally \in [Fields -> Nat] /\ tally' \in [Fields -> Nat]
        /\ tally'["trips"] = tally["trips"]
        /\ tally'["attributed"] = tally["attributed"]
        /\ tally'["frames"] = tally["frames"] + 1
        /\ tally'["parsed"] = tally["parsed"]
        /\ tally'["dropped"] = tally["dropped"] + 1
    BY <1>1, BumpAdds DEF LoopInv, TallyInv, Fields
  <2>2. tally["parsed"] \in Nat /\ tally["dropped"] \in Nat
    BY <2>1 DEF Fields
  <2> QED
    BY <1>2, <1>3, <2>1, <2>2 DEF LoopInv, TallyInv
<1> QED
  BY <1>3, <1>4, <1>5 DEF LoopInv

\* Walk steps, the end of the capture, and steps that change nothing.
LEMMA IdleInv ==
  ASSUME LoopInv, EvictInv', ClaimsRight',
         UNCHANGED <<pushed, manifest, trip, command, current, tally, event_log, rows>>,
         turn' \in {"reading", "analysing", "done"},
         turn' = "analysing" <=> turn = "analysing",
         turn' = "analysing" => phase' \in {"walking", "ranked"},
         phase' = "walking" => turn' = "analysing"
  PROVE  LoopInv'
<1>1. Trips' = Trips
  BY DEF Trips
<1>2. /\ ResponseCoversOverrun' /\ RecordPointsIntoItsWindow'
      /\ AttributedRows' = AttributedRows
  BY SameRows DEF RowVars, HistoryGrows
<1>3. TurnInv' /\ RowsInv' /\ LogInv' /\ TallyInv'
  BY <1>1, <1>2 DEF LoopInv, TurnInv, RowsInv, Settled, LogInv, TallyInv
<1> QED
  BY <1>2, <1>3 DEF LoopInv

LEMMA AnalyseInv ==
  ASSUME LoopInv, EvictInv', ClaimsRight', Analyse
  PROVE  LoopInv'
<1>1. /\ UNCHANGED <<pushed, manifest, command, current, tally, event_log, rows, turn>>
      /\ turn = "analysing" /\ Walk!WalkStep
  BY DEF Analyse, Backtrack, runVars, ringVars, engineVars
<1>2. trip' = trip /\ phase' \in {"walking", "ranked"}
  BY <1>1 DEF Walk!WalkStep, Walk!Skip, Walk!Visit, Walk!PassEdge, Walk!MeasureEdge,
              Walk!Rank, Walk!Popping
<1> QED
  BY <1>1, <1>2, IdleInv DEF LoopInv

-----------------------------------------------------------------------------
(* The row.                                                                *)

\* What the engine has established when it returns.
LEMMA RankedFacts ==
  ASSUME LoopInv, turn = "analysing", phase = "ranked", NEW i \in DOMAIN ranked
  PROVE  /\ W!Genuine(ranked[i]) /\ ranked[i] \in W!Catalyst
         /\ ranked[i].effect.ts <= trip.ts
<1>1. /\ EngineInv /\ W!WalkInv /\ W!WalkTypeOK /\ W!RankedInv /\ trip \in W!Held
      /\ IterRev \in Seq(Transition)
  BY DEF LoopInv, EvictInv, WalkFacts, W!WalkInv, W!WalkTypeOK
<1>2. {ranked[j] : j \in DOMAIN ranked} = W!Found
  BY <1>1, WalkAssumptions, W!RankedSameSet
<1>3. PICK j \in DOMAIN candidates : ranked[i] = candidates[j]
  BY <1>2 DEF W!Found
<1>4. W!Genuine(candidates[j]) /\ candidates[j].effect \in W!Upstream
  BY <1>1 DEF W!WalkInv, W!CandidatesGenuine, W!CandidatesUpstream
<1>5. candidates[j] \in W!Catalyst
  BY <1>1 DEF W!WalkTypeOK
<1>6. candidates[j].effect.ts <= trip.ts
  BY <1>1, <1>4, WalkAssumptions, W!UpstreamNotLater
<1> QED
  BY <1>3, <1>4, <1>5, <1>6

\* The row's evidence, whatever is in its window.
LEMMA RowCovers ==
  ASSUME LoopInv, turn = "analysing", phase = "ranked",
         NEW r, r = TraceRow(Trace, trip.seq)
  PROVE  LET catalysts == r.evidence.ranked_catalysts
         IN  /\ r.attributed <=> catalysts # << >>
             /\ r.attributed =>
                   /\ r.evidence.observed_response >= catalysts[1].dt
                   /\ catalysts[1].dt > catalysts[1].wcet
             /\ ~r.attributed => ~r.evidence.response_within_budget
<1> DEFINE cs == [i \in DOMAIN ranked |-> TraceCatalyst(ranked[i])]
<1>1. /\ r.evidence.ranked_catalysts = cs
      /\ r.evidence.observed_response = ObservedResponse
      /\ r.evidence.response_within_budget
            = (ObservedResponse <= ResponseBudget /\ ranked # << >>)
      /\ r.attributed <=> ranked # << >>
  BY DEF TraceRow, Trace
<1>2. \E n \in Nat : DOMAIN ranked = 1 .. n
  <2>1. /\ candidates \in Seq(W!Catalyst)
        /\ ranked = W!RankSevereFirst(candidates)
    BY DEF LoopInv, EvictInv, WalkFacts, W!WalkInv, W!WalkTypeOK, W!RankedInv
  <2>2. DOMAIN ranked = DOMAIN candidates
    BY <2>1 DEF W!RankSevereFirst
  <2> QED
    BY <2>1, <2>2
<1>3. ranked = [i \in DOMAIN ranked |-> ranked[i]]
  BY DEF LoopInv, EvictInv, WalkFacts, W!RankedInv, W!RankSevereFirst
<1>4. ranked # << >> <=> cs # << >>
  <2>1. ranked = << >> <=> DOMAIN ranked = {}
    BY <1>3
  <2>2. cs = << >> <=> DOMAIN ranked = {}
    OBVIOUS
  <2> QED
    BY <2>1, <2>2
<1>5. ASSUME ranked # << >>
      PROVE  ObservedResponse >= cs[1].dt /\ cs[1].dt > cs[1].wcet
  <2>1. 1 \in DOMAIN ranked
    <3>1. DOMAIN ranked # {}
      BY <1>3, <1>5
    <3> QED
      BY <1>2, <3>1
  <2>2. PICK c : c = ranked[1]
    OBVIOUS
  <2>3. W!Genuine(c) /\ c \in W!Catalyst /\ c.effect.ts <= trip.ts
    BY <2>1, <2>2, RankedFacts
  <2>4. /\ c.trigger.ts \in Nat /\ c.effect.ts \in Nat /\ c.dt \in Nat
        /\ c.dt = c.effect.ts - c.trigger.ts /\ c.dt > c.edge.wcet
    BY <2>3, WalkAssumptions DEF W!Catalyst, W!Genuine
  <2>5. trip.ts \in Nat
    <3>1. trip \in Transition
      BY DEF LoopInv, TurnInv, EvictInv, EngineInv, TypeOK, RingTypeOK
    <3> QED
      BY <3>1, WalkAssumptions
  <2>6. cs[1].dt = c.dt /\ cs[1].wcet = c.edge.wcet
    BY <2>1, <2>2 DEF TraceCatalyst
  <2>7. ObservedResponse = trip.ts - c.trigger.ts
    BY <1>5, <2>2, <2>3, <2>4, <2>5 DEF ObservedResponse
  <2> QED
    BY <2>3, <2>4, <2>5, <2>6, <2>7
<1> HIDE DEF cs
<1> QED
  BY <1>1, <1>4, <1>5

\* A transition of the history stands under its own number.
LEMMA SeqIsPlace ==
  ASSUME EngineInv, NEW t \in W!Held
  PROVE  t.seq + 1 \in DOMAIN pushed /\ pushed[t.seq + 1] = t
<1>1. /\ IterRev \in Seq(Transition) /\ DOMAIN IterRev = 1 .. len
      /\ len \in Nat /\ Len(pushed) \in Nat /\ DOMAIN pushed = 1 .. Len(pushed)
  BY ViewsAgree DEF EngineInv, TypeOK, RingTypeOK
<1>2. PICK i \in 1 .. len : t = IterRev[i]
  BY <1>1 DEF W!Held
<1>3. /\ t = pushed[Len(pushed) + 1 - i] /\ Len(pushed) + 1 - i \in 1 .. Len(pushed)
      /\ t.seq = Len(pushed) - i
  BY <1>2, HeldAt
<1>4. t.seq + 1 = Len(pushed) + 1 - i
  BY <1>1, <1>2, <1>3
<1> QED
  BY <1>1, <1>3, <1>4

\* Every catalyst of the row names two transitions of the history.
LEMMA RowNames ==
  ASSUME LoopInv, turn = "analysing", phase = "ranked",
         NEW r, r = TraceRow(Trace, trip.seq)
  PROVE  \A k \in DOMAIN r.evidence.ranked_catalysts :
             NamesRealEvents(r, r.evidence.ranked_catalysts[k])
<1>1. /\ r.id = trip.seq /\ r.ts = trip.ts
      /\ r.evidence.ranked_catalysts = [i \in DOMAIN ranked |-> TraceCatalyst(ranked[i])]
  BY DEF TraceRow, Trace
<1>2. /\ EngineInv /\ DOMAIN pushed = 1 .. Len(pushed) /\ Len(pushed) \in Nat
      /\ pushed # << >> /\ trip = pushed[Len(pushed)] /\ Len(pushed) \in DOMAIN pushed
  BY DEF LoopInv, TurnInv, EvictInv, EngineInv, TypeOK, RingTypeOK
<1>3. trip.seq = Len(pushed) - 1
  BY <1>2 DEF EngineInv, Numbered
<1>4. ASSUME NEW k \in DOMAIN ranked
      PROVE  NamesRealEvents(r, TraceCatalyst(ranked[k]))
  <2>1. PICK d : d = ranked[k]
    OBVIOUS
  <2>2. W!Genuine(d) /\ d \in W!Catalyst /\ d.effect.ts <= trip.ts
    BY <2>1, RankedFacts
  <2>3. /\ d.trigger.node = d.edge.from /\ d.effect.node = d.edge.to
        /\ d.dt = d.effect.ts - d.trigger.ts /\ d.trigger.ts < d.effect.ts
        /\ d.trigger \in W!Held /\ d.effect \in W!Held
    <3>1. /\ d.trigger.ts \in Nat /\ d.effect.ts \in Nat
          /\ d.dt = d.effect.ts - d.trigger.ts /\ d.dt > d.edge.wcet
          /\ d.edge.wcet \in Nat
      BY <2>2, WalkAssumptions DEF W!Catalyst, W!Genuine, W!Edge
    <3>2. d.trigger.ts < d.effect.ts
      BY <3>1
    <3> QED
      BY <2>2, <3>2 DEF W!Genuine
  <2>4. /\ d.trigger.seq + 1 \in DOMAIN pushed /\ pushed[d.trigger.seq + 1] = d.trigger
        /\ d.effect.seq + 1 \in DOMAIN pushed /\ pushed[d.effect.seq + 1] = d.effect
    BY <1>2, <2>3, SeqIsPlace
  <2>5. d.trigger.seq \in Nat /\ d.effect.seq \in Nat
    <3>1. \A i \in DOMAIN pushed : pushed[i].seq = i - 1
      BY <1>2 DEF EngineInv, Numbered
    <3>2. /\ d.trigger.seq = (d.trigger.seq + 1) - 1
          /\ d.effect.seq = (d.effect.seq + 1) - 1
      BY <2>4, <3>1
    <3> QED
      BY <1>2, <2>4, <3>2
  <2>6. d.trigger.seq \in 0 .. r.id /\ d.effect.seq \in 0 .. r.id
    BY <1>1, <1>2, <1>3, <2>4, <2>5
  <2> QED
    BY <1>1, <2>1, <2>2, <2>3, <2>4, <2>6 DEF NamesRealEvents, TraceCatalyst
<1> QED
  BY <1>1, <1>4

\* The window of run's record is the whole history, relative to the trip.
LEMMA RowPoints ==
  ASSUME LoopInv, turn = "analysing", phase = "ranked", command = "run",
         NEW r, r = TraceRow(Trace, trip.seq)
  PROVE  LET w == r.evidence.event_sequence
             found(s, n) == {i \in DOMAIN w : w[i].event.seq = s
                                               /\ w[i].event.node = n}
         IN  /\ w[Len(w)].offset = 0 /\ w[Len(w)].event.seq = r.id
             /\ \A k \in DOMAIN r.evidence.ranked_catalysts :
                   LET c == r.evidence.ranked_catalysts[k]
                   IN  \E i \in found(c.trigger_seq, c.edge_from),
                          j \in found(c.effect_seq, c.edge_to) :
                             w[j].offset - w[i].offset = c.dt
<1> DEFINE w == EventSequence
           L == Len(pushed)
           found(s, n) == {i \in DOMAIN w : w[i].event.seq = s /\ w[i].event.node = n}
<1>1. /\ r.id = trip.seq /\ r.evidence.event_sequence = w
      /\ r.evidence.ranked_catalysts = [i \in DOMAIN ranked |-> TraceCatalyst(ranked[i])]
  BY DEF TraceRow, Trace
<1>2. /\ EngineInv /\ pushed \in Seq(Transition) /\ pushed # << >>
      /\ pushed = Append(event_log, trip) /\ trip = pushed[L]
      /\ L \in Nat /\ L \in DOMAIN pushed
  BY DEF LoopInv, TurnInv, LogInv, EvictInv, EngineInv, TypeOK, RingTypeOK
<1>3. /\ trip \in Transition
      /\ \A k \in DOMAIN pushed : pushed[k] \in Transition /\ pushed[k].ts \in Nat
  <2>1. \A k \in DOMAIN pushed : pushed[k] \in Transition
    BY <1>2
  <2> QED
    BY <1>2, <2>1, WalkAssumptions
<1>4. Event(trip.seq, trip.node, trip.ts, trip.interlock) = trip
  BY <1>3, TransitionShape DEF Event
<1>5. w = [i \in DOMAIN pushed |-> WithOffset(pushed[i])]
  BY <1>2, <1>4 DEF EventSequence
<1>6. /\ DOMAIN w = DOMAIN pushed /\ Len(w) = L
      /\ \A i \in DOMAIN w : /\ w[i].event = pushed[i]
                             /\ w[i].offset = pushed[i].ts - trip.ts
  BY <1>2, <1>5 DEF WithOffset
<1> HIDE DEF w
<1>7. w[Len(w)].offset = 0 /\ w[Len(w)].event.seq = r.id
  BY <1>1, <1>2, <1>3, <1>6
<1>8. ASSUME NEW k \in DOMAIN ranked, NEW c, c = TraceCatalyst(ranked[k])
      PROVE  \E i \in found(c.trigger_seq, c.edge_from),
                j \in found(c.effect_seq, c.edge_to) :
                   w[j].offset - w[i].offset = c.dt
  <2>1. PICK d : d = ranked[k]
    OBVIOUS
  <2>2. W!Genuine(d)
    BY <2>1, RankedFacts
  <2>3. /\ c.trigger_seq = d.trigger.seq /\ c.edge_from = d.edge.from
        /\ c.effect_seq = d.effect.seq /\ c.edge_to = d.edge.to /\ c.dt = d.dt
    BY <1>8, <2>1 DEF TraceCatalyst
  <2>4. /\ d.trigger.node = d.edge.from /\ d.effect.node = d.edge.to
        /\ d.dt = d.effect.ts - d.trigger.ts
        /\ d.trigger \in W!Held /\ d.effect \in W!Held
    BY <2>2 DEF W!Genuine
  <2>5. PICK i : i = d.trigger.seq + 1
    OBVIOUS
  <2>6. PICK j : j = d.effect.seq + 1
    OBVIOUS
  <2>7. /\ i \in DOMAIN pushed /\ pushed[i] = d.trigger
        /\ j \in DOMAIN pushed /\ pushed[j] = d.effect
    BY <1>2, <2>4, <2>5, <2>6, SeqIsPlace
  <2>8. i \in found(c.trigger_seq, c.edge_from) /\ j \in found(c.effect_seq, c.edge_to)
    BY <1>6, <2>3, <2>4, <2>7
  <2>9. w[j].offset - w[i].offset = c.dt
    <3>1. /\ w[j].offset = d.effect.ts - trip.ts /\ w[i].offset = d.trigger.ts - trip.ts
          /\ d.effect.ts \in Nat /\ d.trigger.ts \in Nat /\ trip.ts \in Nat
      BY <1>2, <1>3, <1>6, <2>7
    <3> QED
      BY <2>3, <2>4, <3>1
  <2> HIDE DEF found
  <2> QED
    BY <2>8, <2>9
<1>9. \A k \in DOMAIN r.evidence.ranked_catalysts :
         LET c == r.evidence.ranked_catalysts[k]
         IN  \E i \in found(c.trigger_seq, c.edge_from),
                j \in found(c.effect_seq, c.edge_to) :
                   w[j].offset - w[i].offset = c.dt
  <2> HIDE DEF found
  <2> QED
    BY <1>1, <1>8
<1> QED
  BY <1>1, <1>7, <1>9

-----------------------------------------------------------------------------
(* The put.                                                                *)

\* The key is new, so the row is kept and nothing else changes.
LEMMA PutIsNew ==
  ASSUME LoopInv, turn = "analysing",
         NEW r, r = TraceRow(Trace, trip.seq), Sink!Put(r)
  PROVE  /\ answer' = "Ok" /\ r \notin Kept /\ Kept' = Kept \cup {r}
         /\ DOMAIN rows' = {<<pushed[k].ts, pushed[k].seq>> : k \in Trips}
         /\ \A k \in DOMAIN rows' : k = <<rows'[k].ts, rows'[k].id>>
<1> DEFINE L == Len(pushed)
           key == <<trip.ts, trip.seq>>
<1>1. /\ EngineInv /\ pushed \in Seq(Transition) /\ L \in Trips
      /\ L \in DOMAIN pushed /\ trip = pushed[L] /\ Trips \subseteq DOMAIN pushed
  BY DEF LoopInv, TurnInv, EvictInv, EngineInv, TypeOK, RingTypeOK, Trips
<1>2. /\ r.ts = trip.ts /\ r.id = trip.seq /\ Sink!Key(r) = key
  BY DEF TraceRow, Trace, Sink!Key
<1>3. \A k \in DOMAIN pushed : pushed[k].seq = k - 1 /\ k \in Int
  BY <1>1 DEF EngineInv, Numbered
<1>4. /\ DOMAIN rows = {<<pushed[k].ts, pushed[k].seq>> : k \in Trips \ {L}}
      /\ \A k \in DOMAIN rows : k = <<rows[k].ts, rows[k].id>>
  BY DEF LoopInv, RowsInv, Settled
<1>5. key \notin DOMAIN rows
  <2> SUFFICES ASSUME NEW k \in Trips \ {L}, <<pushed[k].ts, pushed[k].seq>> = key
               PROVE  FALSE
    BY <1>4
  <2>1. pushed[k].seq = pushed[L].seq
    BY <1>1
  <2> QED
    BY <1>1, <1>3, <2>1
<1>6. /\ answer' = "Ok"
      /\ rows' = [k \in DOMAIN rows \cup {key} |-> IF k = key THEN r ELSE rows[k]]
  BY <1>2, <1>5 DEF Sink!Put
<1>7. \A s \in Kept : s # r
  <2> SUFFICES ASSUME NEW k \in DOMAIN rows, rows[k] = r PROVE FALSE
    BY DEF Kept, Sink!Held
  <2>1. k = <<r.ts, r.id>>
    BY <1>4
  <2> QED
    BY <1>2, <1>5, <2>1
<1>8. Kept' = Kept \cup {r}
  <2>1. Kept' = {rows'[k] : k \in DOMAIN rows'} /\ Kept = {rows[k] : k \in DOMAIN rows}
    BY DEF Kept, Sink!Held
  <2> HIDE DEF key
  <2>2. /\ DOMAIN rows' = DOMAIN rows \cup {key} /\ rows'[key] = r
        /\ \A k \in DOMAIN rows : rows'[k] = rows[k]
    BY <1>5, <1>6
  <2> QED
    BY <2>1, <2>2
<1>9. DOMAIN rows' = {<<pushed[k].ts, pushed[k].seq>> : k \in Trips}
  <2>1. Trips = (Trips \ {L}) \cup {L}
    BY <1>1
  <2>2. key = <<pushed[L].ts, pushed[L].seq>>
    BY <1>1
  <2> HIDE DEF key, L
  <2> QED
    BY <1>4, <1>6, <2>1, <2>2
<1>10. \A k \in DOMAIN rows' : k = <<rows'[k].ts, rows'[k].id>>
  BY <1>2, <1>4, <1>6
<1> QED
  BY <1>6, <1>7, <1>8, <1>9, <1>10

LEMMA StoreInv ==
  ASSUME LoopInv, EvictInv', ClaimsRight', Store
  PROVE  LoopInv'
<1>1. PICK r : r = TraceRow(Trace, trip.seq)
  OBVIOUS
<1>2. /\ turn = "analysing" /\ phase = "ranked" /\ Sink!Put(r)
      /\ tally' = Bump(IF ranked # << >> THEN {"attributed"} ELSE {})
      /\ turn' = IF answer' = "Ok" THEN "reading" ELSE "failed"
      /\ event_log' = Logged(current.proto, current.ts)
      /\ UNCHANGED <<command, current, pushed, manifest, phase, trip>>
  BY <1>1 DEF Store, vars, ringVars, engineVars, walkVars
<1>3. /\ answer' = "Ok" /\ r \notin Kept /\ Kept' = Kept \cup {r}
      /\ DOMAIN rows' = {<<pushed[k].ts, pushed[k].seq>> : k \in Trips}
      /\ \A k \in DOMAIN rows' : k = <<rows'[k].ts, rows'[k].id>>
  BY <1>1, <1>2, PutIsNew
<1>4. turn' = "reading" /\ Trips' = Trips
  BY <1>2, <1>3 DEF Trips
<1>5. TurnInv' /\ RowsInv'
  BY <1>2, <1>3, <1>4 DEF TurnInv, RowsInv, Settled
<1>6. ResponseCoversOverrun'
  BY <1>1, <1>2, <1>3, RowCovers DEF LoopInv, ResponseCoversOverrun
<1>7. RecordPointsIntoItsWindow'
  <2>1. \A q, c : NamesRealEvents(q, c)' <=> NamesRealEvents(q, c)
    BY <1>2 DEF NamesRealEvents
  <2> QED
    BY <1>1, <1>2, <1>3, <2>1, RowNames, RowPoints DEF LoopInv, RecordPointsIntoItsWindow
<1>8. LogInv'
  BY <1>2, <1>4 DEF LoopInv, LogInv, Logged
<1>9. TallyInv'
  <2>1. r.attributed <=> ranked # << >>
    BY <1>1 DEF TraceRow, Trace
  <2>2. AttributedRows' = AttributedRows \cup (IF r.attributed THEN {r} ELSE {})
        /\ r \notin AttributedRows
    BY <1>3 DEF AttributedRows
  <2>3. /\ IsFiniteSet(AttributedRows') /\ IsFiniteSet(AttributedRows)
        /\ Cardinality(AttributedRows') = Cardinality(AttributedRows)
                                          + (IF r.attributed THEN 1 ELSE 0)
    <3>1. IsFiniteSet(AttributedRows) /\ Cardinality(AttributedRows) \in Nat
      BY FS_CardinalityType DEF LoopInv, TallyInv
    <3>2. CASE r.attributed
      BY <2>2, <3>1, <3>2, FS_AddElement
    <3>3. CASE ~r.attributed
      BY <2>2, <3>1, <3>3
    <3> QED
      BY <3>2, <3>3
  <2>4. /\ tally \in [Fields -> Nat] /\ tally' \in [Fields -> Nat]
        /\ tally'["trips"] = tally["trips"]
        /\ tally'["attributed"] = tally["attributed"] + (IF r.attributed THEN 1 ELSE 0)
        /\ tally'["frames"] = tally["frames"]
        /\ tally'["parsed"] = tally["parsed"]
        /\ tally'["dropped"] = tally["dropped"]
    <3>1. tally \in [Fields -> Nat] /\ tally["attributed"] \in Nat
      BY DEF LoopInv, TallyInv, Fields
    <3> QED
      BY <1>2, <2>1, <3>1, BumpAdds DEF Fields
  <2>5. Cardinality(AttributedRows)' = Cardinality(AttributedRows')
        /\ Cardinality(Trips)' = Cardinality(Trips')
        /\ IsFiniteSet(AttributedRows)' <=> IsFiniteSet(AttributedRows')
    OBVIOUS
  <2> QED
    BY <1>4, <2>3, <2>4, <2>5 DEF LoopInv, TallyInv
<1> QED
  BY <1>5, <1>6, <1>7, <1>8, <1>9 DEF LoopInv

LEMMA LoopInvStep == LoopInv /\ [RunNext]_allVars => LoopInv'
<1> SUFFICES ASSUME LoopInv, [RunNext]_allVars PROVE LoopInv'
  OBVIOUS
<1>1. EvictInv' /\ ClaimsRight'
  BY LoopStepsEngine, EvictInvStep, ClaimsRightStep DEF LoopInv
<1>2. CASE \E f \in Frames : DropFrame(f)
  BY <1>1, <1>2, DropFrameInv
<1>3. CASE \E f \in Frames, ts \in Time : TakeQuiet(f, ts)
  BY <1>1, <1>3, TakeQuietInv
<1>4. CASE \E f \in Frames, ts \in Time : TakeTrip(f, ts)
  BY <1>1, <1>4, TakeTripInv
<1>5. CASE Analyse
  BY <1>1, <1>5, AnalyseInv
<1>6. CASE Store
  BY <1>1, <1>6, StoreInv
<1>7. CASE End
  BY <1>1, <1>7, IdleInv
     DEF End, LoopInv, TurnInv, vars, ringVars, engineVars, walkVars
<1>8. CASE UNCHANGED allVars
  BY <1>1, <1>8, IdleInv
     DEF LoopInv, TurnInv, allVars, runVars, vars, ringVars, engineVars, walkVars
<1> QED
  BY <1>2, <1>3, <1>4, <1>5, <1>6, <1>7, <1>8 DEF RunNext

-----------------------------------------------------------------------------
(* Theorems.                                                               *)

\* No put is ever refused, and between two frames the sink holds exactly one row
\* for every falling edge of the trip node in the whole history, under the
\* trip's stamp and number; the counters of the summary add up.
THEOREM LoopOneRecordPerTrip == RunSpec => []OneRecordPerTrip
<1>1. LoopInv => OneRecordPerTrip
  BY DEF LoopInv, OneRecordPerTrip, TurnInv, RowsInv, Settled, TallyInv,
         AttributedRows
<1> QED
  BY LoopInvInit, LoopInvStep, <1>1, PTL DEF RunSpec

\* Every catalyst a stored record names is two transitions of the history, cause
\* before effect and effect no later than the trip; and the log run keeps, with
\* node constants and a counter of its own, never diverges from the engine's, so
\* that run's record holds both in its window, at the distance it states.
THEOREM LoopRecordPointsIntoItsWindow == RunSpec => []RecordPointsIntoItsWindow
<1>1. LoopInv => RecordPointsIntoItsWindow
  BY DEF LoopInv
<1> QED
  BY LoopInvInit, LoopInvStep, <1>1, PTL DEF RunSpec

\* The saturating subtraction of the observed response never saturates on an
\* attributed trip: the response covers the root's overrun.
THEOREM LoopResponseCoversOverrun == RunSpec => []ResponseCoversOverrun
<1>1. LoopInv => ResponseCoversOverrun
  BY DEF LoopInv
<1> QED
  BY LoopInvInit, LoopInvStep, <1>1, PTL DEF RunSpec
=============================================================================
