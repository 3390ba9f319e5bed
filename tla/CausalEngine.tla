----------------------------- MODULE CausalEngine -----------------------------
(***************************************************************************)
(* CausalGraphObserver of src/src/causal.rs: decoded frames arrive in tap  *)
(* order, the manifest classifies each one to at most one logical node,    *)
(* every classified frame is recorded in the ring, and a frame on which    *)
(* the trip node's interlock falls from high to low starts the backtrack.  *)
(*                                                                         *)
(* The module composes RingBuffer (extended) with BacktrackWalk (as        *)
(* instance Walk, whose view is what the ring yields).  observe() calls    *)
(* backtrack() synchronously: no frame is observed while phase is          *)
(* "walking", and the walk's steps leave the ring alone.                   *)
(***************************************************************************)
EXTENDS RingBuffer, Grouping, FiniteSets

CONSTANTS Node,        \* NodeId
          Time,        \* tap timestamps
          MinTick,     \* least difference between the stamps of two frames:
                       \* > 0 strictly increasing, 0 ties, < 0 reordered
          Payload,     \* IndustrialProtocol values a frame may carry
          Wcet,        \* budgets a manifest may declare
          Manifests    \* the manifests an engine may be built with

Level == {"none", "low", "high"}   \* Option<bool>: arrival-only, false, true

ASSUME TransitionShape ==
    Transition = [seq : 0 .. MaxPushes - 1, node : Node, ts : Time,
                  interlock : Level]
ASSUME TimeAssumption == Time \subseteq Nat /\ MinTick \in Int
\* What ManifestCfg::build has checked before an engine exists.
ASSUME ManifestsAssumption ==
    \A m \in Manifests :
        /\ DOMAIN m.nodes \subseteq Node /\ IsFiniteSet(DOMAIN m.nodes)
        /\ m.trip_node \in DOMAIN m.nodes
        /\ m.nodes[m.trip_node].kind = "profinet"
        /\ m.edges \in Seq([from : DOMAIN m.nodes, to : DOMAIN m.nodes,
                           wcet : Wcet])
ASSUME BudgetAssumption == Wcet \subseteq Nat \ {0}

VARIABLES
    manifest,         \* nodes (id -> matcher), edges (declaration order), trip_node
    classify,         \* the node each claimed payload is classified to
    seq,              \* next sequence number
    last_interlock,   \* last level seen per node; "none" while absent
    phase, trip, frontier, visited, incoming, effect, candidates, ranked, scans

engineVars == <<manifest, classify, seq, last_interlock>>
walkVars   == <<phase, trip, frontier, visited, incoming, effect, candidates,
                ranked, scans>>
vars       == <<ringVars, engineVars, walkVars>>

\* DependencyManifest::new goes through the edges in declaration order and pushes
\* each one under its effect node.
RevAdj ==
    [n \in {manifest.edges[k].to : k \in DOMAIN manifest.edges} |->
        Grouped(manifest.edges,
                {k \in DOMAIN manifest.edges : manifest.edges[k].to = n})]

Walk == INSTANCE BacktrackWalk WITH view <- IterRev, rev_adj <- RevAdj

-----------------------------------------------------------------------------
(* Classification.                                                         *)

\* NodeMatcher::matches.  S7comm frames match nothing.
Matches(m, p) ==
    \/ m.kind = "profinet" /\ p.kind = "profinet" /\ m.frame_id = p.frame_id
    \/ m.kind = "ros2" /\ p.kind = "ros2" /\ m.topic_port = p.topic_port
    \/ m.kind = "fanuc" /\ p.kind = "fanuc"

\* raw_status_byte >> bit_index & 1; a u8 shift takes its amount modulo 8 in a
\* release build.  `status' is the set of bits that are 1.
LevelRead(m, p) ==
    IF m.kind # "profinet" THEN "none"
    ELSE IF m.bit_index % 8 \in p.status THEN "high" ELSE "low"

Claimants(p) == {n \in DOMAIN manifest.nodes : Matches(manifest.nodes[n], p)}

\* classify: the first claimant in the iteration order of the nodes HashMap,
\* which is fixed for a map and differs from process to process.
Orders == {r \in [DOMAIN manifest.nodes -> 1 .. Cardinality(DOMAIN manifest.nodes)] :
              \A m, n \in DOMAIN manifest.nodes : r[m] = r[n] => m = n}

Classifies(r) ==
    [p \in {q \in Payload : Claimants(q) # {}} |->
        CHOOSE n \in Claimants(p) : \A m \in Claimants(p) : r[n] <= r[m]]

-----------------------------------------------------------------------------
(* observe().                                                              *)

\* The timestamps the capture point may give the next frame.
MayStamp(ts) == pushed # << >> => ts >= pushed[Len(pushed)].ts + MinTick

TransitionOf(p, ts) ==
    [seq |-> seq, node |-> classify[p], ts |-> ts,
     interlock |-> LevelRead(manifest.nodes[classify[p]], p)]

\* trip_node going true -> false.
Falls(t) == /\ t.node = manifest.trip_node
            /\ t.interlock = "low"
            /\ last_interlock[t.node] = "high"

\* Mutant: a low level is not remembered.
RecordHighOnly(t) ==
    /\ Push(t)
    /\ seq' = seq + 1
    /\ last_interlock' =
          IF t.interlock # "high" THEN last_interlock
          ELSE [last_interlock EXCEPT ![t.node] = t.interlock]
    /\ UNCHANGED <<manifest, classify>>

Record(t) ==
    /\ Push(t)
    /\ seq' = seq + 1
    /\ last_interlock' =
          IF t.interlock = "none" THEN last_interlock
          ELSE [last_interlock EXCEPT ![t.node] = t.interlock]
    /\ UNCHANGED <<manifest, classify>>

Ready == phase # "walking"
Room  == Len(pushed) < MaxPushes

\* classify()? returns None: the frame leaves no trace in the engine.
Ignore(p) ==
    /\ Ready /\ p \notin DOMAIN classify
    /\ phase' = "idle"
    /\ UNCHANGED <<ringVars, engineVars, trip, frontier, visited, incoming,
                   effect, candidates, ranked, scans>>

ObserveQuiet(p, ts) ==
    /\ Ready /\ Room /\ p \in DOMAIN classify /\ MayStamp(ts)
    /\ ~Falls(TransitionOf(p, ts))
    /\ Record(TransitionOf(p, ts))
    /\ phase' = "idle"
    /\ UNCHANGED <<trip, frontier, visited, incoming, effect, candidates,
                   ranked, scans>>

ObserveTrip(p, ts) ==
    /\ Ready /\ Room /\ p \in DOMAIN classify /\ MayStamp(ts)
    /\ Falls(TransitionOf(p, ts))
    /\ Record(TransitionOf(p, ts))
    /\ Walk!Call(TransitionOf(p, ts))

Backtrack == Walk!WalkStep /\ UNCHANGED <<ringVars, engineVars>>

Init ==
    /\ RingInit
    /\ manifest \in Manifests
    /\ classify \in {Classifies(r) : r \in Orders}
    /\ seq = 0
    /\ last_interlock = [n \in DOMAIN manifest.nodes |-> "none"]
    /\ phase = "idle" /\ trip = NoTransition
    /\ frontier = << >> /\ visited = {} /\ incoming = << >>
    /\ effect = NoTransition /\ candidates = << >> /\ ranked = << >>
    /\ scans = 0

Next == \/ \E p \in Payload : Ignore(p)
        \/ \E p \in Payload, ts \in Time : ObserveQuiet(p, ts)
        \/ \E p \in Payload, ts \in Time : ObserveTrip(p, ts)
        \/ Backtrack

\* observe() runs to its return; that another frame arrives is not assumed.
Spec == Init /\ [][Next]_vars /\ WF_vars(Backtrack)

-----------------------------------------------------------------------------
(* Properties.                                                             *)

TypeOK ==
    /\ RingTypeOK
    /\ manifest \in Manifests
    /\ seq \in Nat /\ seq = Len(pushed)
    /\ last_interlock \in [DOMAIN manifest.nodes -> Level]
    /\ DOMAIN classify \subseteq Payload
    /\ \A p \in DOMAIN classify : classify[p] \in DOMAIN manifest.nodes

\* h[Len(h)] is a falling edge of node n judged on the whole history h.
FallingEdge(h, n) ==
    LET k == Len(h)
    IN  /\ h[k].node = n /\ h[k].interlock = "low"
        /\ \E i \in 1 .. k - 1 :
              /\ h[i].node = n /\ h[i].interlock = "high"
              /\ \A j \in i + 1 .. k - 1 : h[j].node # n

\* "Returns Some(TripAnalysis) iff this frame is the trip node transitioning
\* interlock true->false", judged against the whole history, however much of
\* it the ring has evicted and whatever the other nodes did in between.
TripIffFallingEdge ==
    [][pushed' # pushed =>
          (phase' = "walking" <=> FallingEdge(pushed', manifest.trip_node))]_vars

\* The same walk with a ring that never evicts.
History == [i \in 1 .. Len(pushed) |-> pushed[Len(pushed) + 1 - i]]
Full == INSTANCE BacktrackWalk WITH view <- History, rev_adj <- RevAdj

\* Eviction can only lose: what the engine reports from its CAP transitions is
\* a violation upstream of the trip in the full history too.
EvictionNeverInvents ==
    phase # "idle" =>
        \A i \in DOMAIN candidates : candidates[i] \in Full!Violations

\* No node with edges into it has two instances upstream of the trip.
Unambiguous ==
    \A e, f \in Full!Upstream :
        e.node = f.node /\ e.node \in DOMAIN RevAdj => e = f

\* And it loses nothing else: if no instance upstream of the trip has been
\* evicted, and none competes with another for its node, the report is complete.
LossOnlyByEviction ==
    phase = "ranked" /\ Unambiguous /\ Full!Upstream \subseteq Walk!Held
        => {ranked[i] : i \in DOMAIN ranked} = Full!Violations

\* As long as every frame is stamped later than the one before it: between a
\* reported trigger and its effect no newer transition of the source arrived,
\* so the interval measured is between consecutive activations.  (With equal or
\* reordered stamps the strict comparison can pass over the newest arrival.)
StrictlyStamped == \A i \in 1 .. Len(pushed) - 1 : pushed[i].ts < pushed[i + 1].ts

TriggerIsLatestArrival ==
    phase # "idle" /\ StrictlyStamped =>
        \A i \in DOMAIN candidates :
            LET c == candidates[i]
            IN  \A j \in c.trigger.seq + 1 .. c.effect.seq - 1 :
                    pushed[j + 1].node # c.edge.from

\* TripAnalysis: "Empty => trip occurred with no WCET violation on any
\* dependency path".
EmptyMeansNoViolation ==
    phase = "ranked" /\ ranked = << >> => Full!Violations = {}

\* "return the violation with the largest normalized magnitude".
SeverestViolationFirst == Walk!SeverestViolationFirst
=============================================================================
