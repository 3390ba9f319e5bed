---------------------------- MODULE BacktrackWalk ----------------------------
(***************************************************************************)
(* CausalGraphObserver::backtrack of src/src/causal.rs: from a trip, walk  *)
(* the declared dependency edges backward through the transitions the ring *)
(* still holds, measure every edge on the way against its budget, and rank *)
(* the violations.                                                         *)
(*                                                                         *)
(* The while-loop is one Skip or Visit step per popped frontier item, the  *)
(* for-loop one PassEdge or MeasureEdge step per incoming edge, and the    *)
(* final stable sort is Rank.  `view' is what iter_rev yields and does not *)
(* change during the walk: backtrack borrows the observer immutably.       *)
(*                                                                         *)
(* Node, time and budget are numbers or model values; normalized_overrun,  *)
(* an f64 quotient in the code, is compared exactly (see MoreSevere).      *)
(***************************************************************************)
EXTENDS Integers, Sequences, FiniteSets

CONSTANTS Node,          \* NodeId
          Transition,    \* StateTransition: records with a node and a ts
          NoTransition,  \* None
          Wcet           \* the budgets an edge may declare

ASSUME TransitionAssumption ==
    /\ \A t \in Transition : t.node \in Node /\ t.ts \in Nat
    /\ NoTransition \notin Transition
\* ManifestCfg::build rejects a zero budget.
ASSUME WcetAssumption == Wcet \subseteq Nat \ {0}

VARIABLES
    view,         \* transitions held by the ring, newest first
    rev_adj,      \* reverse adjacency: to -> the edges that end there
    phase,        \* "idle", "walking" (inside backtrack), "ranked" (returned)
    trip,         \* the trip transition
    frontier,     \* the stack of (node, instant) still to be explained
    visited,      \* nodes already taken from the frontier
    incoming,     \* edges of the visited node the for-loop has not reached
    effect,       \* the effect instance those edges are measured against
    candidates,   \* violations in the order they were found
    ranked,       \* ranked_catalysts of the returned TripAnalysis
    scans         \* history variable: edges the for-loop has taken

inputs   == <<view, rev_adj>>
walkVars == <<phase, trip, frontier, visited, incoming, effect, candidates,
              ranked, scans>>

Edge     == [from : Node, to : Node, wcet : Wcet]
Item     == [node : Node, ts : Nat]
Catalyst == [edge : Edge, dt : Nat, trigger : Transition, effect : Transition]

WalkTypeOK ==
    /\ view \in Seq(Transition)
    /\ DOMAIN rev_adj \subseteq Node
    /\ \A n \in DOMAIN rev_adj :
          /\ rev_adj[n] \in Seq(Edge)
          /\ \A k \in DOMAIN rev_adj[n] : rev_adj[n][k].to = n
    /\ phase \in {"idle", "walking", "ranked"}
    /\ trip \in Transition \cup {NoTransition}
    /\ frontier \in Seq(Item)
    /\ visited \subseteq Node
    /\ incoming \in Seq(Edge)
    /\ effect \in Transition \cup {NoTransition}
    /\ candidates \in Seq(Catalyst)
    /\ scans \in Nat

-----------------------------------------------------------------------------
(* Lookups.                                                                *)

\* Positions in v of the transitions of node strictly before an instant.
Matching(v, node, before) ==
    {i \in DOMAIN v : v[i].node = node /\ v[i].ts < before}

\* Mutant: the oldest match instead of the newest.
OldestForNodeBefore(v, node, before) ==
    LET m == Matching(v, node, before)
    IN  IF m = {} THEN NoTransition
                  ELSE v[CHOOSE i \in m : \A j \in m : j <= i]

\* last_for_node_before: the first of them newest to oldest, that is, the one
\* that ARRIVED last, whatever the timestamps of the others.
LastForNodeBefore(v, node, before) ==
    LET m == Matching(v, node, before)
    IN  IF m = {} THEN NoTransition
                  ELSE v[CHOOSE i \in m : \A j \in m : i <= j]

Incoming(node) == IF node \in DOMAIN rev_adj THEN rev_adj[node] ELSE << >>

\* Mutants: the instant itself excluded; the node's last update before the trip.
EffectInstanceBefore(item) ==
    IF item.node = trip.node /\ item.ts = trip.ts
    THEN trip
    ELSE LastForNodeBefore(view, item.node, item.ts)

EffectInstanceAtTrip(item) ==
    IF item.node = trip.node /\ item.ts = trip.ts
    THEN trip
    ELSE LastForNodeBefore(view, item.node, trip.ts + 1)

\* The instance of a popped item: the trip itself, or the node's latest
\* transition at or before the instant (the code passes effect_ts + 1).
EffectInstance(item) ==
    IF item.node = trip.node /\ item.ts = trip.ts
    THEN trip
    ELSE LastForNodeBefore(view, item.node, item.ts + 1)

\* (dt - W) / W of a exceeds that of b.
MoreSevere(a, b) == a.dt * b.edge.wcet > b.dt * a.edge.wcet

\* Mutant: ties in reverse order of discovery.
RankUnstable(cs) ==
    LET Position(i) ==
            1 + Cardinality({j \in DOMAIN cs :
                    \/ MoreSevere(cs[j], cs[i])
                    \/ j > i /\ ~MoreSevere(cs[i], cs[j])})
    IN  [p \in DOMAIN cs |-> cs[CHOOSE i \in DOMAIN cs : Position(i) = p]]

\* sort_by is stable: equally severe candidates keep the order of discovery.
RankSevereFirst(cs) ==
    LET Position(i) ==
            1 + Cardinality({j \in DOMAIN cs :
                    \/ MoreSevere(cs[j], cs[i])
                    \/ j < i /\ ~MoreSevere(cs[i], cs[j])})
    IN  [p \in DOMAIN cs |-> cs[CHOOSE i \in DOMAIN cs : Position(i) = p]]

-----------------------------------------------------------------------------
(* The call and its loops.                                                 *)

\* self.backtrack(t)
Call(t) ==
    /\ phase' = "walking"
    /\ trip' = t
    /\ frontier' = <<[node |-> t.node, ts |-> t.ts]>>
    /\ visited' = {}
    /\ incoming' = << >>
    /\ effect' = NoTransition
    /\ candidates' = << >>
    /\ ranked' = << >>
    /\ scans' = 0

Popping == phase = "walking" /\ incoming = << >> /\ frontier # << >>
Top     == frontier[Len(frontier)]
RestPeek == frontier   \* mutant: the item is read and not popped
Rest    == SubSeq(frontier, 1, Len(frontier) - 1)

\* The popped node was visited before.
Skip ==
    /\ Popping
    /\ Top.node \in visited
    /\ frontier' = Rest
    /\ UNCHANGED <<phase, trip, visited, incoming, effect, candidates,
                   ranked, scans>>

\* Mutant: the node is not remembered.
VisitForgetful ==
    /\ Popping
    /\ Top.node \notin visited
    /\ frontier' = Rest
    /\ visited' = visited
    /\ incoming' = Incoming(Top.node)
    /\ effect' = EffectInstance(Top)
    /\ UNCHANGED <<phase, trip, candidates, ranked, scans>>

\* First visit: the for-loop over the edges into the node starts.
Visit ==
    /\ Popping
    /\ Top.node \notin visited
    /\ frontier' = Rest
    /\ visited' = visited \cup {Top.node}
    /\ incoming' = Incoming(Top.node)
    /\ effect' = EffectInstance(Top)
    /\ UNCHANGED <<phase, trip, candidates, ranked, scans>>

\* Mutant: the oldest held transition in place of one that is gone.
TriggerOrOldest ==
    IF effect = NoTransition
    THEN NoTransition
    ELSE LET found == LastForNodeBefore(view, Head(incoming).from, effect.ts)
         IN  IF found = NoTransition THEN view[Len(view)] ELSE found

\* The trigger of the edge at hand: the latest transition of its source
\* strictly before the effect instance.
Trigger ==
    IF effect = NoTransition
    THEN NoTransition
    ELSE LastForNodeBefore(view, Head(incoming).from, effect.ts)

\* `continue': no effect instance, or no trigger left in the ring.
PassEdge ==
    /\ phase = "walking" /\ incoming # << >>
    /\ Trigger = NoTransition
    /\ incoming' = Tail(incoming)
    /\ scans' = scans + 1
    /\ UNCHANGED <<phase, trip, frontier, visited, effect, candidates, ranked>>

\* Mutants: an edge exactly at its budget is recorded; the walk does not go on
\* past an edge within budget; the budget is taken off the instant pushed.
MeasureAtBudget ==
    /\ phase = "walking" /\ incoming # << >>
    /\ Trigger # NoTransition
    /\ LET edge == Head(incoming)
           dt   == effect.ts - Trigger.ts
       IN  /\ candidates' = IF dt >= edge.wcet
                            THEN Append(candidates,
                                    [edge |-> edge, dt |-> dt,
                                     trigger |-> Trigger, effect |-> effect])
                            ELSE candidates
           /\ frontier' = Append(frontier, [node |-> edge.from,
                                            ts   |-> Trigger.ts])
    /\ incoming' = Tail(incoming)
    /\ scans' = scans + 1
    /\ UNCHANGED <<phase, trip, visited, effect, ranked>>

MeasureOneHop ==
    /\ phase = "walking" /\ incoming # << >>
    /\ Trigger # NoTransition
    /\ LET edge == Head(incoming)
           dt   == effect.ts - Trigger.ts
       IN  IF dt > edge.wcet
           THEN /\ candidates' = Append(candidates,
                                    [edge |-> edge, dt |-> dt,
                                     trigger |-> Trigger, effect |-> effect])
                /\ frontier' = Append(frontier, [node |-> edge.from,
                                                 ts   |-> Trigger.ts])
           ELSE UNCHANGED <<candidates, frontier>>
    /\ incoming' = Tail(incoming)
    /\ scans' = scans + 1
    /\ UNCHANGED <<phase, trip, visited, effect, ranked>>

MeasureEarly ==
    /\ phase = "walking" /\ incoming # << >>
    /\ Trigger # NoTransition
    /\ frontier' = Append(frontier, [node |-> Head(incoming).from,
                                     ts |-> Trigger.ts - Head(incoming).wcet])
    /\ incoming' = Tail(incoming)
    /\ scans' = scans + 1
    /\ UNCHANGED <<phase, trip, visited, effect, candidates, ranked>>

\* Record the edge if it is over budget; go on upstream either way.
MeasureEdge ==
    /\ phase = "walking" /\ incoming # << >>
    /\ Trigger # NoTransition
    /\ LET edge == Head(incoming)
           dt   == effect.ts - Trigger.ts
       IN  /\ candidates' =
                 IF dt > edge.wcet
                 THEN Append(candidates, [edge |-> edge, dt |-> dt,
                                          trigger |-> Trigger,
                                          effect |-> effect])
                 ELSE candidates
           /\ frontier' = Append(frontier, [node |-> edge.from,
                                            ts   |-> Trigger.ts])
    /\ incoming' = Tail(incoming)
    /\ scans' = scans + 1
    /\ UNCHANGED <<phase, trip, visited, effect, ranked>>

\* The frontier is empty: sort and return.
Rank ==
    /\ phase = "walking" /\ incoming = << >> /\ frontier = << >>
    /\ phase' = "ranked"
    /\ ranked' = RankSevereFirst(candidates)
    /\ UNCHANGED <<trip, frontier, visited, incoming, effect, candidates,
                   scans>>

WalkStep == Skip \/ Visit \/ PassEdge \/ MeasureEdge \/ Rank

\* The walk on its own: called on the newest transition of any ring content.
Started ==
    /\ phase = "walking"
    /\ trip = view[1]
    /\ frontier = <<[node |-> trip.node, ts |-> trip.ts]>>
    /\ visited = {}
    /\ incoming = << >>
    /\ effect = NoTransition
    /\ candidates = << >>
    /\ ranked = << >>
    /\ scans = 0

WalkInit ==
    /\ view \in Seq(Transition) \ {<< >>}
    /\ rev_adj \in UNION {[D -> Seq(Edge)] : D \in SUBSET Node}
    /\ \A n \in DOMAIN rev_adj :
          \A k \in DOMAIN rev_adj[n] : rev_adj[n][k].to = n
    /\ IsFiniteSet(DOMAIN rev_adj)
    /\ Started

WalkNext == WalkStep /\ UNCHANGED inputs

WalkSpec == WalkInit /\ [][WalkNext]_<<inputs, walkVars>>

\* backtrack is a plain loop on the caller's thread: it keeps running.
KeepsRunning == WF_<<inputs, walkVars>>(WalkNext)

-----------------------------------------------------------------------------
(* Reference: what there is to find, defined without any walk.             *)

Held == {view[i] : i \in DOMAIN view}

\* Everything the for-loop measures for the instance e: one hop per declared
\* edge into its node that has a trigger.
HopsInto(e) ==
    {[edge |-> edge, dt |-> e.ts - LastForNodeBefore(view, edge.from, e.ts).ts,
      trigger |-> LastForNodeBefore(view, edge.from, e.ts), effect |-> e] :
        edge \in {d \in {Incoming(e.node)[k] : k \in DOMAIN Incoming(e.node)} :
                    LastForNodeBefore(view, d.from, e.ts) # NoTransition}}

\* The instances the trip depends on: the smallest set that holds the trip and,
\* with an instance, the triggers of its hops.
Closed(S) == \A e \in S : \A h \in HopsInto(e) : h.trigger \in S
Upstream  == {e \in Held : \A S \in SUBSET Held :
                              trip \in S /\ Closed(S) => e \in S}

UpstreamHops == UNION {HopsInto(e) : e \in Upstream}
Violations   == {h \in UpstreamHops : h.dt > h.edge.wcet}

-----------------------------------------------------------------------------
(* Properties.                                                             *)

Genuine(c) ==
    /\ \E k \in DOMAIN Incoming(c.effect.node) :
          Incoming(c.effect.node)[k] = c.edge
    /\ c.trigger.node = c.edge.from /\ c.effect.node = c.edge.to
    /\ c.effect \in Held /\ c.trigger \in Held
    /\ c.trigger = LastForNodeBefore(view, c.edge.from, c.effect.ts)
    /\ c.dt = c.effect.ts - c.trigger.ts
    /\ c.dt > c.edge.wcet

\* "CandidateCatalyst ... with magnitudes": each candidate is a real overrun of
\* a declared edge, between two transitions the ring holds, its trigger being
\* the newest arrival of the source with an earlier timestamp than the effect.
CandidatesGenuine == \A i \in DOMAIN candidates : Genuine(candidates[i])

\* The frontier keeps only (node, instant); the second lookup, with
\* effect_ts + 1, always finds the very transition that was pushed, even among
\* equal or reordered timestamps, so the `None => continue' arm never runs.
EffectAlwaysFound == incoming # << >> => effect # NoTransition

\* Attribution never leaves the trip's own dependency chains: every effect
\* measured is the trip or the trigger of a hop measured before it.
CandidatesUpstream ==
    \A i \in DOMAIN candidates : candidates[i].effect \in Upstream

\* "O(E * CAP) worst case (each edge does one backward scan)": no declared edge
\* is taken twice, however many paths lead to its effect node, so one walk makes
\* at most as many scans as there are edges and blames an edge at most once.
DeclaredEdges ==
    UNION {{<<n, k>> : k \in DOMAIN rev_adj[n]} : n \in DOMAIN rev_adj}

EachEdgeOnce ==
    LET count(e) == Cardinality({i \in DOMAIN candidates :
                                    candidates[i].edge = e})
        declared(e) == Cardinality({k \in DOMAIN Incoming(e.to) :
                                       Incoming(e.to)[k] = e})
    IN  /\ scans <= Cardinality(DeclaredEdges)
        /\ \A i \in DOMAIN candidates :
              count(candidates[i].edge) <= declared(candidates[i].edge)

\* When the trip depends on at most one instance of every node that has edges
\* into it, all the violations upstream are reported: none is lost to the
\* visited set, to the LIFO order or behind an edge that is within budget.
Unambiguous ==
    \A e, f \in Upstream :
        e.node = f.node /\ Incoming(e.node) # << >> => e = f

CompleteWhenUnambiguous ==
    phase = "ranked" /\ Unambiguous
        => {candidates[i] : i \in DOMAIN candidates} = Violations

\* The result is a permutation of the candidates, most severe first, and ties
\* keep the order of discovery.
RankedSevereFirst ==
    phase = "ranked" =>
        \E p \in [DOMAIN candidates -> DOMAIN candidates] :
            /\ {p[i] : i \in DOMAIN candidates} = DOMAIN candidates
            /\ DOMAIN ranked = DOMAIN candidates
            /\ \A i \in DOMAIN ranked : ranked[i] = candidates[p[i]]
            /\ \A i, j \in DOMAIN ranked : i < j =>
                  /\ ~MoreSevere(ranked[j], ranked[i])
                  /\ MoreSevere(ranked[i], ranked[j]) \/ p[i] < p[j]

\* What causal.rs promises of the first candidate: "return the violation with
\* the largest normalized magnitude".
SeverestViolationFirst ==
    phase = "ranked" =>
        \A h \in Violations : ranked # << >> /\ ~MoreSevere(h, ranked[1])

\* "a manifest containing a dependency cycle cannot loop forever": the walk
\* returns on every graph, cyclic ones included.  (Its stamps strictly decrease,
\* so it would without the visited set; what that set bounds is the number of
\* scans, EachEdgeOnce.)
WalkReturns == phase = "walking" ~> phase = "ranked"
=============================================================================
