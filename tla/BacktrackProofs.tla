--------------------------- MODULE BacktrackProofs ---------------------------
(***************************************************************************)
(* The backtrack, for every ring content, every timestamp order and every  *)
(* dependency graph (cyclic ones included): what it reports is genuine and *)
(* upstream of the trip, its second lookup never fails, it finds all there *)
(* is when no node competes with itself, takes no edge twice, and ranks    *)
(* what it found.                                                          *)
(***************************************************************************)
EXTENDS BacktrackWalk, LeastPositions, SequenceTheorems, FiniteSetTheorems, TLAPS

-----------------------------------------------------------------------------
(* last_for_node_before.                                                   *)

\* The lookup returns None exactly when nothing matches; otherwise a matching
\* transition such that no newer one matches.
LEMMA LookupResult ==
  ASSUME NEW v \in Seq(Transition), NEW n, NEW b
  PROVE  LET r == LastForNodeBefore(v, n, b)
             m == Matching(v, n, b)
         IN  /\ m = {} => r = NoTransition
             /\ m # {} => \E i \in m : r = v[i] /\ \A j \in m : i <= j
<1> DEFINE m == Matching(v, n, b)
<1>1. CASE m = {}
  BY <1>1 DEF LastForNodeBefore
<1>2. CASE m # {}
  <2>1. m \in SUBSET Nat
    BY DEF Matching
  <2>2. \E i \in m : \A j \in m : i <= j
    BY <1>2, <2>1, LeastPosition
  <2> DEFINE k == CHOOSE i \in m : \A j \in m : i <= j
  <2>3. k \in m /\ \A j \in m : k <= j
    BY <2>2
  <2>4. LastForNodeBefore(v, n, b) = v[k]
    BY <1>2 DEF LastForNodeBefore
  <2> QED
    BY <1>2, <2>3, <2>4
<1> QED
  BY <1>1, <1>2

\* A found transition is held, belongs to the node and precedes the bound.
LEMMA LookupFound ==
  ASSUME NEW v \in Seq(Transition), NEW n, NEW b,
         LastForNodeBefore(v, n, b) # NoTransition
  PROVE  /\ LastForNodeBefore(v, n, b) \in {v[i] : i \in DOMAIN v}
         /\ LastForNodeBefore(v, n, b) \in Transition
         /\ LastForNodeBefore(v, n, b).node = n
         /\ LastForNodeBefore(v, n, b).ts < b
  BY LookupResult, ElementOfSeq DEF Matching

\* Looking the found transition up again by its own instant finds it again:
\* a newer transition of the node at or before that instant would have been
\* found the first time.  Holds for equal and for reordered timestamps.
LEMMA RelookupFindsSame ==
  ASSUME NEW v \in Seq(Transition), NEW n, NEW b \in Nat,
         LastForNodeBefore(v, n, b) # NoTransition
  PROVE  LastForNodeBefore(v, n, LastForNodeBefore(v, n, b).ts + 1)
           = LastForNodeBefore(v, n, b)
<1> DEFINE t == LastForNodeBefore(v, n, b)
           m == Matching(v, n, b)
           r == Matching(v, n, t.ts + 1)
<1>1. PICK i \in m : t = v[i] /\ \A j \in m : i <= j
  BY LookupResult
<1>2. t \in Transition /\ t.ts < b /\ t.ts \in Nat
  BY LookupFound, TransitionAssumption
<1>3. \A j \in DOMAIN v : v[j].ts \in Nat
  BY ElementOfSeq, TransitionAssumption
<1>4. i \in r
  BY <1>1, <1>2, <1>3 DEF Matching
<1>5. r \subseteq m
  BY <1>2, <1>3 DEF Matching
<1>6. PICK k \in r : LastForNodeBefore(v, n, t.ts + 1) = v[k]
                     /\ \A j \in r : k <= j
  BY <1>4, LookupResult
<1>7. k = i
  BY <1>1, <1>4, <1>5, <1>6 DEF Matching
<1> QED
  BY <1>1, <1>6, <1>7

-----------------------------------------------------------------------------
(* The reference set.                                                      *)

\* The trip is upstream of itself.
LEMMA TripUpstream == trip \in Held => trip \in Upstream
  BY DEF Upstream

\* Upstream is closed under taking triggers.
LEMMA UpstreamClosed ==
  ASSUME view \in Seq(Transition), NEW e \in Upstream, NEW h \in HopsInto(e)
  PROVE  h.trigger \in Upstream
<1>1. h.trigger \in Held
  BY LookupFound DEF HopsInto, Held
<1>2. ASSUME NEW S \in SUBSET Held, trip \in S, Closed(S)
      PROVE  h.trigger \in S
  <2>1. e \in S
    BY <1>2 DEF Upstream
  <2> QED
    BY <1>2, <2>1 DEF Closed
<1> QED
  BY <1>1, <1>2 DEF Upstream

\* Nothing upstream of the trip is stamped later than the trip.
LEMMA UpstreamNotLater ==
  ASSUME view \in Seq(Transition), trip \in Held, NEW e \in Upstream
  PROVE  e.ts <= trip.ts
<1> DEFINE S == {d \in Held : d.ts <= trip.ts}
<1>1. \A d \in Held : d \in Transition /\ d.ts \in Nat
  <2>1. \A d \in Held : d \in Transition
    BY DEF Held
  <2> QED
    BY <2>1, TransitionAssumption
<1>2. S \in SUBSET Held /\ trip \in S
  BY <1>1
<1>3. Closed(S)
  <2> SUFFICES ASSUME NEW d \in S, NEW h \in HopsInto(d)
               PROVE  h.trigger \in S
    BY DEF Closed
  <2>1. PICK edge : /\ LastForNodeBefore(view, edge.from, d.ts) # NoTransition
                    /\ h.trigger = LastForNodeBefore(view, edge.from, d.ts)
    BY DEF HopsInto
  <2>2. PICK i \in Matching(view, edge.from, d.ts) : h.trigger = view[i]
    BY <2>1, LookupResult
  <2>3. i \in DOMAIN view /\ h.trigger \in Held /\ h.trigger.ts < d.ts
    BY <2>2 DEF Matching, Held
  <2> QED
    BY <1>1, <1>2, <2>3
<1> HIDE DEF S
<1>4. e \in S
  BY <1>2, <1>3 DEF Upstream
<1> QED
  BY <1>4 DEF S

\* An edge into e's node whose source has an earlier transition is a hop of e.
LEMMA HopOf ==
  ASSUME NEW e, NEW k \in DOMAIN Incoming(e.node),
         LastForNodeBefore(view, Incoming(e.node)[k].from, e.ts) # NoTransition
  PROVE  \E h \in HopsInto(e) :
            h.trigger = LastForNodeBefore(view, Incoming(e.node)[k].from, e.ts)
<1> DEFINE D == {d \in {Incoming(e.node)[j] : j \in DOMAIN Incoming(e.node)} :
                    LastForNodeBefore(view, d.from, e.ts) # NoTransition}
           H(d) == [edge |-> d,
                    dt |-> e.ts - LastForNodeBefore(view, d.from, e.ts).ts,
                    trigger |-> LastForNodeBefore(view, d.from, e.ts),
                    effect |-> e]
<1>1. Incoming(e.node)[k] \in D
  OBVIOUS
<1>2. H(Incoming(e.node)[k]) \in {H(d) : d \in D}
  BY <1>1
<1>3. HopsInto(e) = {H(d) : d \in D}
  BY DEF HopsInto
<1>4. H(Incoming(e.node)[k]).trigger
        = LastForNodeBefore(view, Incoming(e.node)[k].from, e.ts)
  OBVIOUS
<1> QED
  BY <1>2, <1>3, <1>4

-----------------------------------------------------------------------------
(* The inductive invariant: every item on the frontier names an instance   *)
(* upstream of the trip, and so does the effect whose edges are measured.  *)

FrontierUpstream ==
    \A k \in DOMAIN frontier :
        /\ EffectInstance(frontier[k]) \in Upstream
        /\ EffectInstance(frontier[k]).node = frontier[k].node

LoopUpstream ==
    incoming # << >> =>
        /\ effect \in Upstream
        /\ \A k \in DOMAIN incoming :
              \E j \in DOMAIN Incoming(effect.node) :
                  Incoming(effect.node)[j] = incoming[k]

WalkInv ==
    /\ WalkTypeOK
    /\ trip \in Held
    /\ FrontierUpstream
    /\ LoopUpstream
    /\ CandidatesGenuine
    /\ CandidatesUpstream

\* Held transitions are transitions.
LEMMA HeldTyped == WalkTypeOK => Held \subseteq Transition
  BY ElementOfSeq DEF WalkTypeOK, Held

\* Nothing the properties say about view, rev_adj and trip changes in a step
\* that leaves those three alone.
LEMMA SameInputs ==
  ASSUME UNCHANGED inputs, trip' = trip
  PROVE  /\ Held' = Held
         /\ Upstream' = Upstream
         /\ \A n : Incoming(n)' = Incoming(n)
         /\ \A i : EffectInstance(i)' = EffectInstance(i)
         /\ \A c : Genuine(c)' = Genuine(c)
  BY DEF inputs, Genuine, Held, Upstream, Closed, HopsInto, Incoming, EffectInstance,
         LastForNodeBefore, Matching

LEMMA WalkInvInit == WalkInit => WalkInv
<1> SUFFICES ASSUME WalkInit PROVE WalkInv
  OBVIOUS
<1>1. view \in Seq(Transition) /\ view # << >> /\ trip = view[1]
  BY DEF WalkInit, Started
<1>2. 1 \in DOMAIN view /\ trip \in Transition /\ trip \in Held
  BY <1>1, EmptySeq, ElementOfSeq, LenProperties DEF Held
<1>3. frontier \in Seq(Item)
  BY <1>2, TransitionAssumption DEF WalkInit, Started, Item
<1>4. WalkTypeOK
  BY <1>1, <1>2, <1>3 DEF WalkInit, Started, WalkTypeOK
<1>5. FrontierUpstream
  BY <1>2, TripUpstream DEF WalkInit, Started, FrontierUpstream, EffectInstance
<1>6. LoopUpstream /\ CandidatesGenuine /\ CandidatesUpstream
  BY DEF WalkInit, Started, LoopUpstream, CandidatesGenuine, CandidatesUpstream
<1> QED
  BY <1>2, <1>4, <1>5, <1>6 DEF WalkInv

\* Popping leaves a frontier of items that were on it.
LEMMA RestOfFrontier ==
  ASSUME WalkTypeOK, frontier # << >>
  PROVE  /\ Top \in Item /\ Len(frontier) \in DOMAIN frontier
         /\ Rest \in Seq(Item)
         /\ \A k \in DOMAIN Rest : k \in DOMAIN frontier /\ Rest[k] = frontier[k]
  BY DEF WalkTypeOK, Top, Rest

\* The edges of a node are edges, and end at the node.
LEMMA IncomingTyped ==
  ASSUME WalkTypeOK, NEW n
  PROVE  /\ Incoming(n) \in Seq(Edge)
         /\ \A k \in DOMAIN Incoming(n) : Incoming(n)[k].to = n
  BY DEF WalkTypeOK, Incoming

\* Candidates survive any step that only appends to them.
LEMMA CandidatesKept ==
  ASSUME WalkInv, UNCHANGED inputs, trip' = trip, candidates' = candidates
  PROVE  CandidatesGenuine' /\ CandidatesUpstream'
<1>1. CandidatesGenuine'
  BY SameInputs DEF WalkInv, CandidatesGenuine
<1>2. CandidatesUpstream'
  BY SameInputs DEF WalkInv, CandidatesUpstream
<1> QED
  BY <1>1, <1>2

LEMMA SkipInv == WalkInv /\ Skip /\ UNCHANGED inputs => WalkInv'
<1> SUFFICES ASSUME WalkInv, Skip, UNCHANGED inputs PROVE WalkInv'
  OBVIOUS
<1> USE DEF Skip, Popping
<1>1. WalkTypeOK'
  BY RestOfFrontier DEF WalkInv, WalkTypeOK, inputs
<1>2. trip' \in Held'
  BY SameInputs DEF WalkInv
<1>3. FrontierUpstream'
  BY RestOfFrontier, SameInputs DEF WalkInv, FrontierUpstream
<1>4. LoopUpstream'
  BY DEF LoopUpstream
<1>5. CandidatesGenuine' /\ CandidatesUpstream'
  BY CandidatesKept
<1> QED
  BY <1>1, <1>2, <1>3, <1>4, <1>5 DEF WalkInv

LEMMA VisitInv == WalkInv /\ Visit /\ UNCHANGED inputs => WalkInv'
<1> SUFFICES ASSUME WalkInv, Visit, UNCHANGED inputs PROVE WalkInv'
  OBVIOUS
<1> USE DEF Visit, Popping
<1>1. /\ EffectInstance(Top) \in Upstream
      /\ EffectInstance(Top).node = Top.node
  BY RestOfFrontier DEF WalkInv, FrontierUpstream, Top
<1>2. EffectInstance(Top) \in Transition
  BY <1>1, HeldTyped DEF Upstream, WalkInv
<1>3. WalkTypeOK'
  BY <1>2, RestOfFrontier, IncomingTyped DEF WalkInv, WalkTypeOK, inputs, Item
<1>4. trip' \in Held'
  BY SameInputs DEF WalkInv
<1>5. FrontierUpstream'
  BY RestOfFrontier, SameInputs DEF WalkInv, FrontierUpstream
<1>6. LoopUpstream'
  BY <1>1, SameInputs DEF LoopUpstream
<1>7. CandidatesGenuine' /\ CandidatesUpstream'
  BY CandidatesKept
<1> QED
  BY <1>3, <1>4, <1>5, <1>6, <1>7 DEF WalkInv

\* Advancing the for-loop keeps what is known of the remaining edges.
LEMMA LoopAdvances ==
  ASSUME WalkInv, UNCHANGED inputs, trip' = trip, effect' = effect,
         incoming # << >>, incoming' = Tail(incoming)
  PROVE  /\ incoming' \in Seq(Edge)
         /\ LoopUpstream'
<1>1. /\ incoming \in Seq(Edge)
      /\ \A k \in DOMAIN Tail(incoming) :
            k + 1 \in DOMAIN incoming /\ Tail(incoming)[k] = incoming[k + 1]
  BY HeadTailProperties DEF WalkInv, WalkTypeOK
<1>2. incoming' \in Seq(Edge)
  BY <1>1
<1>3. LoopUpstream'
  BY <1>1, SameInputs DEF WalkInv, LoopUpstream
<1> QED
  BY <1>2, <1>3

LEMMA PassEdgeInv == WalkInv /\ PassEdge /\ UNCHANGED inputs => WalkInv'
<1> SUFFICES ASSUME WalkInv, PassEdge, UNCHANGED inputs PROVE WalkInv'
  OBVIOUS
<1> USE DEF PassEdge
<1>1. incoming' \in Seq(Edge) /\ LoopUpstream'
  BY LoopAdvances
<1>2. WalkTypeOK'
  BY <1>1 DEF WalkInv, WalkTypeOK, inputs
<1>3. trip' \in Held'
  BY SameInputs DEF WalkInv
<1>4. FrontierUpstream'
  BY SameInputs DEF WalkInv, FrontierUpstream
<1>5. CandidatesGenuine' /\ CandidatesUpstream'
  BY CandidatesKept
<1> QED
  BY <1>1, <1>2, <1>3, <1>4, <1>5 DEF WalkInv

LEMMA RankInv == WalkInv /\ Rank /\ UNCHANGED inputs => WalkInv'
<1> SUFFICES ASSUME WalkInv, Rank, UNCHANGED inputs PROVE WalkInv'
  OBVIOUS
<1> USE DEF Rank
<1>1. WalkTypeOK'
  BY DEF WalkInv, WalkTypeOK, inputs
<1>2. trip' \in Held'
  BY SameInputs DEF WalkInv
<1>3. FrontierUpstream' /\ LoopUpstream'
  BY DEF FrontierUpstream, LoopUpstream
<1>4. CandidatesGenuine' /\ CandidatesUpstream'
  BY CandidatesKept
<1> QED
  BY <1>1, <1>2, <1>3, <1>4 DEF WalkInv

\* A measured trigger, pushed as (node, instant), is found again: the item's
\* instance is the trigger itself, or the trip, and both are upstream.
LEMMA TriggerItem ==
  ASSUME WalkInv, incoming # << >>, Trigger # NoTransition,
         NEW item \in Item,
         item = [node |-> Head(incoming).from, ts |-> Trigger.ts]
  PROVE  /\ EffectInstance(item) \in Upstream
         /\ EffectInstance(item).node = item.node
<1>1. /\ view \in Seq(Transition) /\ trip \in Held
      /\ effect \in Transition \cup {NoTransition}
  BY DEF WalkInv, WalkTypeOK
<1>2. effect # NoTransition /\ effect \in Transition /\ effect.ts \in Nat
  BY <1>1, TransitionAssumption DEF Trigger
<1>3. Trigger = LastForNodeBefore(view, Head(incoming).from, effect.ts)
  BY <1>2 DEF Trigger
<1>4. PICK k \in DOMAIN Incoming(effect.node) :
           Incoming(effect.node)[k] = Head(incoming)
  BY EmptySeq, LenProperties DEF WalkInv, WalkTypeOK, LoopUpstream
<1>5. Trigger \in Upstream
  <2>1. effect \in Upstream
    BY DEF WalkInv, LoopUpstream
  <2>2. PICK h \in HopsInto(effect) : h.trigger = Trigger
    BY <1>3, <1>4, HopOf
  <2> QED
    BY <1>1, <2>1, <2>2, UpstreamClosed
<1>6. Trigger.node = Head(incoming).from
  BY <1>1, <1>3, LookupFound
<1>7. CASE item.node = trip.node /\ item.ts = trip.ts
  BY <1>1, <1>7, TripUpstream DEF EffectInstance
<1>8. CASE ~(item.node = trip.node /\ item.ts = trip.ts)
  <2>1. EffectInstance(item)
          = LastForNodeBefore(view, Head(incoming).from, Trigger.ts + 1)
    BY <1>8 DEF EffectInstance
  <2>2. EffectInstance(item) = Trigger
    BY <1>1, <1>2, <1>3, <2>1, RelookupFindsSame
  <2> QED
    BY <1>5, <1>6, <2>2
<1> QED
  BY <1>7, <1>8

LEMMA MeasureEdgeInv == WalkInv /\ MeasureEdge /\ UNCHANGED inputs => WalkInv'
<1> SUFFICES ASSUME WalkInv, MeasureEdge, UNCHANGED inputs PROVE WalkInv'
  OBVIOUS
<1> DEFINE edge == Head(incoming)
           dt   == effect.ts - Trigger.ts
           item == [node |-> edge.from, ts |-> Trigger.ts]
           found == [edge |-> edge, dt |-> dt, trigger |-> Trigger,
                     effect |-> effect]
<1>1. /\ WalkTypeOK /\ view \in Seq(Transition)
      /\ trip' = trip /\ effect' = effect /\ Trigger # NoTransition
      /\ incoming # << >> /\ incoming' = Tail(incoming)
      /\ UNCHANGED <<phase, visited>> /\ scans' = scans + 1
  BY DEF WalkInv, WalkTypeOK, MeasureEdge
<1>2. incoming' \in Seq(Edge) /\ LoopUpstream'
  BY <1>1, LoopAdvances
<1>3. /\ effect \in Upstream /\ effect \in Held /\ effect \in Transition
      /\ effect # NoTransition
  BY <1>1, HeldTyped, TransitionAssumption DEF WalkInv, LoopUpstream, Upstream
<1>4. edge \in Edge /\ edge.from \in Node
  <2>1. edge \in Edge
    BY <1>1, HeadTailProperties DEF WalkTypeOK
  <2> QED
    BY <2>1 DEF Edge
<1>5. /\ Trigger = LastForNodeBefore(view, edge.from, effect.ts)
      /\ Trigger \in Held /\ Trigger \in Transition
      /\ Trigger.node = edge.from /\ Trigger.ts < effect.ts
      /\ Trigger.ts \in Nat /\ effect.ts \in Nat
  BY <1>1, <1>3, LookupFound, TransitionAssumption DEF Trigger, Held
<1>6. PICK k \in DOMAIN Incoming(effect.node) :
           Incoming(effect.node)[k] = edge
  BY <1>1, EmptySeq, LenProperties DEF WalkInv, WalkTypeOK, LoopUpstream
<1>7. edge.to = effect.node
  BY <1>1, <1>6, IncomingTyped
<1>8. dt \in Nat /\ item \in Item /\ found \in Catalyst
  BY <1>3, <1>4, <1>5 DEF Item, Catalyst
<1>9. /\ candidates \in Seq(Catalyst) /\ frontier \in Seq(Item)
      /\ frontier' = Append(frontier, item)
      /\ candidates' = IF dt > edge.wcet THEN Append(candidates, found)
                                         ELSE candidates
  BY <1>1 DEF WalkTypeOK, MeasureEdge
<1>10. candidates' \in Seq(Catalyst) /\ frontier' \in Seq(Item)
  BY <1>8, <1>9, AppendProperties
<1>11. WalkTypeOK'
  BY <1>1, <1>2, <1>10 DEF WalkTypeOK, inputs
<1>12. trip' \in Held'
  BY <1>1, SameInputs DEF WalkInv
<1>13. FrontierUpstream'
  <2>1. EffectInstance(item) \in Upstream /\ EffectInstance(item).node = item.node
    BY <1>1, <1>8, TriggerItem
  <2>2. \A j \in DOMAIN frontier' :
           \/ j \in DOMAIN frontier /\ frontier'[j] = frontier[j]
           \/ frontier'[j] = item
    BY <1>8, <1>9
  <2> HIDE DEF item
  <2> QED
    BY <1>1, <2>1, <2>2, SameInputs DEF WalkInv, FrontierUpstream
<1>14. \A i \in DOMAIN candidates' :
           \/ i \in DOMAIN candidates /\ candidates'[i] = candidates[i]
           \/ candidates'[i] = found /\ dt > edge.wcet
  BY <1>8, <1>9
<1>15. CandidatesGenuine'
  <2>1. \A i \in DOMAIN candidates : Genuine(candidates[i])
    BY DEF WalkInv, CandidatesGenuine
  <2>2. dt > edge.wcet => Genuine(found)
    BY <1>3, <1>5, <1>6, <1>7 DEF Genuine
  <2> HIDE DEF found, dt, edge
  <2>3. \A i \in DOMAIN candidates' : Genuine(candidates'[i])
    BY <1>14, <2>1, <2>2
  <2> QED
    BY <1>1, <2>3, SameInputs DEF CandidatesGenuine
<1>16. CandidatesUpstream'
  BY <1>1, <1>3, <1>14, SameInputs DEF WalkInv, CandidatesUpstream
<1> QED
  BY <1>2, <1>11, <1>12, <1>13, <1>15, <1>16 DEF WalkInv

LEMMA WalkInvStep == WalkInv /\ [WalkNext]_<<inputs, walkVars>> => WalkInv'
<1> SUFFICES ASSUME WalkInv, [WalkNext]_<<inputs, walkVars>> PROVE WalkInv'
  OBVIOUS
<1>1. CASE WalkNext
  BY <1>1, SkipInv, VisitInv, PassEdgeInv, MeasureEdgeInv, RankInv
     DEF WalkNext, WalkStep
<1>2. CASE UNCHANGED <<inputs, walkVars>>
  <2>1. UNCHANGED inputs /\ trip' = trip /\ UNCHANGED walkVars
    BY <1>2 DEF walkVars
  <2>2. WalkTypeOK' /\ trip' \in Held'
    BY <2>1, SameInputs DEF WalkInv, WalkTypeOK, inputs, walkVars
  <2>3. FrontierUpstream' /\ LoopUpstream'
    BY <2>1, SameInputs DEF WalkInv, FrontierUpstream, LoopUpstream, walkVars
  <2>4. CandidatesGenuine' /\ CandidatesUpstream'
    BY <2>1, CandidatesKept DEF walkVars
  <2> QED
    BY <2>2, <2>3, <2>4 DEF WalkInv
<1> QED
  BY <1>1, <1>2

-----------------------------------------------------------------------------
(* Nothing is missed: every edge into a visited node is accounted for, or  *)
(* still waits in the for-loop.                                            *)

\* The hop along the edge d into the instance e, when e has a trigger there.
HasTrigger(d, e) == LastForNodeBefore(view, d.from, e.ts) # NoTransition
HopAlong(d, e) ==
    [edge |-> d, dt |-> e.ts - LastForNodeBefore(view, d.from, e.ts).ts,
     trigger |-> LastForNodeBefore(view, d.from, e.ts), effect |-> e]

Found      == {candidates[i] : i \in DOMAIN candidates}
Reached(n) == n \in visited \/ \E k \in DOMAIN frontier : frontier[k].node = n

Accounted(d, e) ==
    HasTrigger(d, e) =>
        /\ Reached(d.from)
        /\ HopAlong(d, e).dt > d.wcet => HopAlong(d, e) \in Found

Waiting(d, e) == effect = e /\ \E j \in DOMAIN incoming : incoming[j] = d

NothingMissed ==
    Unambiguous =>
        \A e \in Upstream :
            e.node \in visited =>
                \A k \in DOMAIN Incoming(e.node) :
                    \/ Accounted(Incoming(e.node)[k], e)
                    \/ Waiting(Incoming(e.node)[k], e)

Exhausted == phase = "ranked" => frontier = << >> /\ incoming = << >>

ThoroughInv == Reached(trip.node) /\ NothingMissed /\ Exhausted

\* The hops into e, edge by edge.
LEMMA HopsAlong ==
  ASSUME NEW e
  PROVE  /\ \A k \in DOMAIN Incoming(e.node) :
               HasTrigger(Incoming(e.node)[k], e)
                  => HopAlong(Incoming(e.node)[k], e) \in HopsInto(e)
         /\ \A h \in HopsInto(e) :
               \E k \in DOMAIN Incoming(e.node) :
                  /\ HasTrigger(Incoming(e.node)[k], e)
                  /\ h = HopAlong(Incoming(e.node)[k], e)
<1> DEFINE D == {d \in {Incoming(e.node)[j] : j \in DOMAIN Incoming(e.node)} :
                    LastForNodeBefore(view, d.from, e.ts) # NoTransition}
<1>1. HopsInto(e) = {HopAlong(d, e) : d \in D}
  BY DEF HopsInto, HopAlong
<1> QED
  BY <1>1 DEF HasTrigger

\* What has been accounted for stays so: nodes stay reached, candidates stay.
LEMMA AccountedStays ==
  ASSUME UNCHANGED inputs, \A n : Reached(n) => Reached(n)', Found \subseteq Found',
         NEW d, NEW e, Accounted(d, e)
  PROVE  Accounted(d, e)'
<1>1. /\ HasTrigger(d, e)' = HasTrigger(d, e)
      /\ HopAlong(d, e)' = HopAlong(d, e)
  BY DEF HasTrigger, HopAlong, LastForNodeBefore, Matching, inputs
<1> QED
  BY <1>1 DEF Accounted

LEMMA SameUnambiguous ==
  ASSUME UNCHANGED inputs, trip' = trip
  PROVE  Unambiguous' = Unambiguous
  BY SameInputs DEF Unambiguous

\* NothingMissed in the next state, when the inputs stay.
LEMMA AccountedAtNext ==
  ASSUME UNCHANGED inputs, trip' = trip,
         ASSUME Unambiguous, NEW e \in Upstream, e.node \in visited',
                NEW k \in DOMAIN Incoming(e.node),
                NEW d, d = Incoming(e.node)[k]
         PROVE  Accounted(d, e)' \/ Waiting(d, e)'
  PROVE  NothingMissed'
<1> SUFFICES ASSUME Unambiguous, NEW e \in Upstream, e.node \in visited',
                    NEW k \in DOMAIN Incoming(e.node)
             PROVE  \/ Accounted(Incoming(e.node)[k], e)'
                    \/ Waiting(Incoming(e.node)[k], e)'
  BY SameInputs, SameUnambiguous DEF NothingMissed
<1>1. PICK d : d = Incoming(e.node)[k]
  OBVIOUS
<1>2. Incoming(e.node)'[k] = d
  BY <1>1, SameInputs
<1>3. Accounted(d, e)' \/ Waiting(d, e)'
  BY <1>1
<1> QED
  BY <1>2, <1>3 DEF Accounted, Waiting, HasTrigger, HopAlong

LEMMA NothingMissedStays ==
  ASSUME UNCHANGED <<inputs, trip, visited>>, NothingMissed,
         \A n : Reached(n) => Reached(n)', Found \subseteq Found',
         \A d, e : Waiting(d, e) => Waiting(d, e)'
  PROVE  NothingMissed'
<1> SUFFICES ASSUME Unambiguous, NEW e \in Upstream, e.node \in visited',
                    NEW k \in DOMAIN Incoming(e.node),
                    NEW d, d = Incoming(e.node)[k]
             PROVE  Accounted(d, e)' \/ Waiting(d, e)'
  BY AccountedAtNext
<1>1. Accounted(d, e) \/ Waiting(d, e)
  BY DEF NothingMissed
<1> QED
  BY <1>1, AccountedStays

LEMMA ThoroughInit == WalkInit => ThoroughInv
<1> SUFFICES ASSUME WalkInit PROVE ThoroughInv
  OBVIOUS
<1>1. Reached(trip.node)
  <2>1. frontier = <<[node |-> trip.node, ts |-> trip.ts]>>
    BY DEF WalkInit, Started
  <2>2. 1 \in DOMAIN frontier /\ frontier[1].node = trip.node
    BY <2>1
  <2> QED
    BY <2>2 DEF Reached
<1>2. NothingMissed /\ Exhausted
  BY DEF WalkInit, Started, NothingMissed, Exhausted
<1> QED
  BY <1>1, <1>2 DEF ThoroughInv

\* Popping an item whose node is, or becomes, visited forgets no node.
LEMMA PopKeepsReached ==
  ASSUME WalkTypeOK, Popping, frontier' = Rest, visited \subseteq visited',
         Top.node \in visited'
  PROVE  \A n : Reached(n) => Reached(n)'
<1> SUFFICES ASSUME NEW n, Reached(n) PROVE Reached(n)'
  OBVIOUS
<1>1. CASE n \in visited
  BY <1>1 DEF Reached
<1>2. CASE \E k \in DOMAIN frontier : frontier[k].node = n
  <2>1. PICK k \in DOMAIN frontier : frontier[k].node = n
    BY <1>2
  <2>2. CASE k = Len(frontier)
    BY <2>1, <2>2 DEF Top, Reached
  <2>3. CASE k # Len(frontier)
    <3>1. k \in DOMAIN Rest /\ Rest[k] = frontier[k]
      BY <2>1, <2>3 DEF WalkTypeOK, Popping, Rest
    <3> QED
      BY <2>1, <3>1 DEF Reached
  <2> QED
    BY <2>2, <2>3
<1> QED
  BY <1>1, <1>2 DEF Reached

LEMMA SkipThorough ==
  ASSUME WalkInv, ThoroughInv, Skip, UNCHANGED inputs
  PROVE  ThoroughInv'
<1>1. /\ trip' = trip /\ UNCHANGED <<visited, incoming, effect, candidates, phase>>
      /\ Popping /\ frontier' = Rest /\ Top.node \in visited
  BY DEF Skip
<1>2. \A n : Reached(n) => Reached(n)'
  BY <1>1, PopKeepsReached DEF WalkInv
<1>3. Found' = Found /\ \A d, e : Waiting(d, e) => Waiting(d, e)'
  BY <1>1 DEF Found, Waiting
<1>4. NothingMissed'
  BY <1>1, <1>2, <1>3, NothingMissedStays DEF ThoroughInv
<1>5. Exhausted'
  BY <1>1 DEF Exhausted, Popping
<1> QED
  BY <1>1, <1>2, <1>4, <1>5 DEF ThoroughInv

LEMMA VisitThorough ==
  ASSUME WalkInv, ThoroughInv, Visit, UNCHANGED inputs
  PROVE  ThoroughInv'
<1>1. /\ trip' = trip /\ UNCHANGED <<candidates, phase>>
      /\ Popping /\ frontier' = Rest /\ visited' = visited \cup {Top.node}
      /\ incoming = << >> /\ incoming' = Incoming(Top.node)
      /\ effect' = EffectInstance(Top)
  BY DEF Visit, Popping
<1>2. \A n : Reached(n) => Reached(n)'
  BY <1>1, PopKeepsReached DEF WalkInv
<1>3. Found' = Found
  BY <1>1 DEF Found
<1>4. EffectInstance(Top) \in Upstream /\ EffectInstance(Top).node = Top.node
  BY <1>1, RestOfFrontier DEF WalkInv, FrontierUpstream, Top, Popping
<1>5. NothingMissed'
  <2> SUFFICES ASSUME Unambiguous, NEW e \in Upstream, e.node \in visited',
                      NEW k \in DOMAIN Incoming(e.node),
                      NEW d, d = Incoming(e.node)[k]
               PROVE  Accounted(d, e)' \/ Waiting(d, e)'
    BY <1>1, AccountedAtNext
  <2>1. CASE e.node = Top.node
    <3>1. Incoming(e.node) # << >>
      BY IncomingTyped, EmptySeq, LenProperties DEF WalkInv
    <3>2. e = EffectInstance(Top)
      BY <1>4, <2>1, <3>1 DEF Unambiguous
    <3>3. effect' = e /\ incoming' = Incoming(e.node)
      BY <1>1, <2>1, <3>2
    <3> QED
      BY <3>3 DEF Waiting
  <2>2. CASE e.node # Top.node
    <3>1. e.node \in visited
      BY <1>1, <2>2
    <3>2. ~Waiting(d, e)
      BY <1>1 DEF Waiting
    <3>3. Accounted(d, e)
      BY <3>1, <3>2 DEF ThoroughInv, NothingMissed
    <3> QED
      BY <1>2, <1>3, <3>3, AccountedStays
  <2> QED
    BY <2>1, <2>2
<1>6. Exhausted'
  BY <1>1 DEF Exhausted, Popping
<1> QED
  BY <1>1, <1>2, <1>5, <1>6 DEF ThoroughInv

\* The for-loop takes an edge: the others keep waiting.
LEMMA TakeEdgeThorough ==
  ASSUME WalkInv, ThoroughInv, UNCHANGED <<inputs, trip, visited, effect, phase>>,
         phase = "walking", incoming # << >>, incoming' = Tail(incoming),
         \A n : Reached(n) => Reached(n)', Found \subseteq Found',
         NEW taken, taken = Head(incoming), NEW at, at = effect,
         Accounted(taken, at)'
  PROVE  ThoroughInv'
<1>1. \A j \in DOMAIN incoming :
         \/ incoming[j] = taken
         \/ j - 1 \in DOMAIN Tail(incoming) /\ Tail(incoming)[j - 1] = incoming[j]
  BY HeadTailProperties DEF WalkInv, WalkTypeOK
<1>2. ASSUME NEW d, NEW e, Waiting(d, e)
      PROVE  Accounted(d, e)' \/ Waiting(d, e)'
  <2>1. PICK j \in DOMAIN incoming : incoming[j] = d
    BY <1>2 DEF Waiting
  <2>2. effect' = e /\ at = e
    BY <1>2 DEF Waiting
  <2>3. CASE d = taken
    BY <2>2, <2>3
  <2>4. CASE d # taken
    <3>1. j - 1 \in DOMAIN incoming' /\ incoming'[j - 1] = d
      BY <1>1, <2>1, <2>4
    <3> QED
      BY <2>2, <3>1 DEF Waiting
  <2> QED
    BY <2>3, <2>4
<1>3. NothingMissed'
  <2> SUFFICES ASSUME Unambiguous, NEW e \in Upstream, e.node \in visited',
                      NEW k \in DOMAIN Incoming(e.node),
                      NEW d, d = Incoming(e.node)[k]
               PROVE  Accounted(d, e)' \/ Waiting(d, e)'
    BY AccountedAtNext
  <2>1. Accounted(d, e) \/ Waiting(d, e)
    BY DEF ThoroughInv, NothingMissed
  <2> QED
    BY <1>2, <2>1, AccountedStays
<1>4. Exhausted'
  BY DEF Exhausted
<1>5. Reached(trip.node)'
  BY DEF ThoroughInv
<1> QED
  BY <1>3, <1>4, <1>5 DEF ThoroughInv

LEMMA PassEdgeThorough ==
  ASSUME WalkInv, ThoroughInv, PassEdge, UNCHANGED inputs
  PROVE  ThoroughInv'
<1>1. /\ UNCHANGED <<trip, visited, effect, phase, frontier, candidates>>
      /\ phase = "walking" /\ incoming # << >> /\ incoming' = Tail(incoming)
      /\ Trigger = NoTransition
  BY DEF PassEdge
<1>2. Found' = Found /\ \A n : Reached(n)' = Reached(n)
  BY <1>1 DEF Found, Reached
<1>3. effect # NoTransition
  BY <1>1, HeldTyped, TransitionAssumption DEF WalkInv, LoopUpstream, Upstream
<1>4. PICK d, e : d = Head(incoming) /\ e = effect
  OBVIOUS
<1>5. ~HasTrigger(d, e)
  BY <1>1, <1>3, <1>4 DEF Trigger, HasTrigger
<1>6. Accounted(d, e)
  BY <1>5 DEF Accounted
<1>7. Accounted(d, e)'
  BY <1>2, <1>6, AccountedStays
<1> QED
  BY <1>1, <1>2, <1>4, <1>7, TakeEdgeThorough

LEMMA MeasureEdgeThorough ==
  ASSUME WalkInv, ThoroughInv, MeasureEdge, UNCHANGED inputs
  PROVE  ThoroughInv'
<1>1. /\ UNCHANGED <<trip, visited, effect, phase>>
      /\ phase = "walking" /\ incoming # << >> /\ incoming' = Tail(incoming)
      /\ Trigger # NoTransition
  BY DEF MeasureEdge
<1>2. PICK d, e : d = Head(incoming) /\ e = effect
  OBVIOUS
<1>3. e # NoTransition /\ Trigger = LastForNodeBefore(view, d.from, e.ts)
  BY <1>1, <1>2 DEF Trigger
<1> DEFINE item == [node |-> d.from, ts |-> Trigger.ts]
           hop  == HopAlong(d, e)
<1>4. /\ frontier' = Append(frontier, item)
      /\ candidates' = IF hop.dt > d.wcet THEN Append(candidates, hop)
                                          ELSE candidates
  BY <1>2, <1>3 DEF MeasureEdge, HopAlong
<1>5. frontier \in Seq(Item) /\ candidates \in Seq(Catalyst)
  BY DEF WalkInv, WalkTypeOK
<1>6. (\A n : Reached(n) => Reached(n)') /\ Reached(d.from)'
  <2>1. /\ \A k \in DOMAIN frontier : k \in DOMAIN frontier'
                                      /\ frontier'[k] = frontier[k]
        /\ Len(frontier) + 1 \in DOMAIN frontier'
        /\ frontier'[Len(frontier) + 1].node = d.from
    BY <1>4, <1>5
  <2> QED
    BY <1>1, <2>1 DEF Reached
<1>7. Found \subseteq Found' /\ (hop.dt > d.wcet => hop \in Found')
  <2> HIDE DEF hop
  <2>1. CASE hop.dt > d.wcet
    <3>1. /\ \A k \in DOMAIN candidates : k \in DOMAIN candidates'
                                          /\ candidates'[k] = candidates[k]
          /\ Len(candidates) + 1 \in DOMAIN candidates'
          /\ candidates'[Len(candidates) + 1] = hop
      BY <1>4, <1>5, <2>1
    <3> QED
      BY <3>1 DEF Found
  <2>2. CASE ~(hop.dt > d.wcet)
    BY <1>4, <2>2 DEF Found
  <2> QED
    BY <2>1, <2>2
<1>8. HopAlong(d, e)' = hop
  BY DEF HopAlong, LastForNodeBefore, Matching, inputs
<1>9. Accounted(d, e)'
  BY <1>6, <1>7, <1>8 DEF Accounted
<1> QED
  BY <1>1, <1>2, <1>6, <1>7, <1>9, TakeEdgeThorough

LEMMA RankThorough ==
  ASSUME WalkInv, ThoroughInv, Rank, UNCHANGED inputs
  PROVE  ThoroughInv'
<1>1. /\ UNCHANGED <<trip, visited, incoming, effect, frontier, candidates>>
      /\ frontier = << >> /\ incoming = << >>
  BY DEF Rank
<1>2. /\ Found' = Found /\ \A n : Reached(n)' = Reached(n)
      /\ \A d, e : Waiting(d, e) => Waiting(d, e)'
  BY <1>1 DEF Found, Reached, Waiting
<1>3. NothingMissed'
  BY <1>1, <1>2, NothingMissedStays DEF ThoroughInv
<1>4. Exhausted'
  BY <1>1 DEF Exhausted
<1> QED
  BY <1>1, <1>2, <1>3, <1>4 DEF ThoroughInv

LEMMA ThoroughStep ==
  WalkInv /\ ThoroughInv /\ [WalkNext]_<<inputs, walkVars>> => ThoroughInv'
<1> SUFFICES ASSUME WalkInv, ThoroughInv, [WalkNext]_<<inputs, walkVars>>
             PROVE  ThoroughInv'
  OBVIOUS
<1>1. CASE WalkNext
  BY <1>1, SkipThorough, VisitThorough, PassEdgeThorough, MeasureEdgeThorough,
     RankThorough DEF WalkNext, WalkStep
<1>2. CASE UNCHANGED <<inputs, walkVars>>
  <2>1. UNCHANGED <<inputs, trip, visited, incoming, effect, frontier, candidates, phase>>
    BY <1>2 DEF walkVars
  <2>2. /\ Found' = Found /\ \A n : Reached(n)' = Reached(n)
        /\ \A d, e : Waiting(d, e) => Waiting(d, e)'
    BY <2>1 DEF Found, Reached, Waiting
  <2>3. NothingMissed'
    BY <2>1, <2>2, NothingMissedStays DEF ThoroughInv
  <2>4. Exhausted'
    BY <2>1 DEF ThoroughInv, Exhausted
  <2> QED
    BY <2>1, <2>2, <2>3, <2>4 DEF ThoroughInv
<1> QED
  BY <1>1, <1>2

\* A candidate is a hop of its effect, over budget.
LEMMA CandidateIsHop ==
  ASSUME WalkInv, NEW i \in DOMAIN candidates
  PROVE  /\ candidates[i] \in HopsInto(candidates[i].effect)
         /\ candidates[i].effect \in Upstream
         /\ candidates[i].dt > candidates[i].edge.wcet
<1> DEFINE c == candidates[i]
<1>1. c \in Catalyst
  BY DEF WalkInv, WalkTypeOK
<1>2. Genuine(c) /\ c.effect \in Upstream
  BY DEF WalkInv, CandidatesGenuine, CandidatesUpstream
<1> HIDE DEF c
<1>3. c = [edge |-> c.edge, dt |-> c.dt, trigger |-> c.trigger, effect |-> c.effect]
  BY <1>1 DEF Catalyst
<1>4. c.trigger # NoTransition
  BY <1>1, TransitionAssumption DEF Catalyst
<1>5. /\ c.edge \in {Incoming(c.effect.node)[k] :
                        k \in DOMAIN Incoming(c.effect.node)}
      /\ c.trigger = LastForNodeBefore(view, c.edge.from, c.effect.ts)
      /\ c.dt = c.effect.ts - c.trigger.ts /\ c.dt > c.edge.wcet
  BY <1>2 DEF Genuine
<1>6. c \in HopsInto(c.effect)
  BY <1>3, <1>4, <1>5 DEF HopsInto
<1> QED
  BY <1>2, <1>5, <1>6 DEF c

\* At the return: the instances whose node was visited are closed under hops,
\* so they are all there are, and each of their hops was measured.
LEMMA ReturnIsComplete == WalkInv /\ ThoroughInv => CompleteWhenUnambiguous
<1> SUFFICES ASSUME WalkInv, ThoroughInv, phase = "ranked", Unambiguous
             PROVE  Found = Violations
  BY DEF CompleteWhenUnambiguous, Found
<1>1. frontier = << >> /\ incoming = << >> /\ view \in Seq(Transition)
  BY DEF ThoroughInv, Exhausted, WalkInv, WalkTypeOK
<1>2. \A n : Reached(n) => n \in visited
  BY <1>1 DEF Reached
<1>3. \A d, e : ~Waiting(d, e)
  BY <1>1 DEF Waiting
<1> DEFINE S == {e \in Upstream : e.node \in visited}
<1>4. trip \in S /\ S \subseteq Held
  BY <1>2, TripUpstream DEF ThoroughInv, WalkInv, Upstream
<1>5. ASSUME NEW e \in S, NEW h \in HopsInto(e)
      PROVE  h.trigger \in S /\ (h.dt > h.edge.wcet => h \in Found)
  <2>1. PICK k \in DOMAIN Incoming(e.node) :
           /\ HasTrigger(Incoming(e.node)[k], e)
           /\ h = HopAlong(Incoming(e.node)[k], e)
    BY HopsAlong
  <2> DEFINE d == Incoming(e.node)[k]
  <2>2. Accounted(d, e)
    BY <1>3 DEF ThoroughInv, NothingMissed
  <2>3. d.from \in visited /\ (h.dt > d.wcet => h \in Found)
    BY <1>2, <2>1, <2>2 DEF Accounted
  <2>4. h.trigger \in Upstream
    BY <1>1, UpstreamClosed
  <2>5. h.trigger.node = d.from /\ h.edge = d
    BY <1>1, <2>1, LookupFound DEF HopAlong, HasTrigger
  <2> QED
    BY <2>3, <2>4, <2>5
<1>6. Upstream \subseteq S
  <2>1. Closed(S)
    BY <1>5 DEF Closed
  <2> QED
    BY <1>4, <2>1 DEF Upstream
<1>7. Violations \subseteq Found
  BY <1>5, <1>6 DEF Violations, UpstreamHops
<1>8. Found \subseteq Violations
  BY CandidateIsHop DEF Found, Violations, UpstreamHops
<1> QED
  BY <1>7, <1>8

-----------------------------------------------------------------------------
(* The ranking: a stable sort.                                             *)

\* Severity, a quotient in the code, is compared by cross products.
LEMMA SeverityTransitive ==
  ASSUME NEW x \in Nat, NEW y \in Nat, NEW z \in Nat,
         NEW p \in Nat \ {0}, NEW q \in Nat \ {0}, NEW r \in Nat \ {0},
         x * q >= y * p, y * r >= z * q
  PROVE  /\ x * r >= z * p
         /\ x * q > y * p \/ y * r > z * q => x * r > z * p
<1>1. /\ x * q * r >= y * p * r /\ y * r * p >= z * q * p
      /\ x * q > y * p => x * q * r > y * p * r
      /\ y * r > z * q => y * r * p > z * q * p
  OBVIOUS
<1>2. /\ x * q * r = (x * r) * q /\ y * p * r = y * r * p
      /\ z * q * p = (z * p) * q
  OBVIOUS
<1>3. /\ (x * r) * q >= (z * p) * q
      /\ x * q > y * p \/ y * r > z * q => (x * r) * q > (z * p) * q
  BY <1>1, <1>2
<1> QED
  BY <1>3

\* The order of the sort: more severe, or as severe and found earlier.
Precedes(cs, i, j) ==
    \/ MoreSevere(cs[i], cs[j])
    \/ i < j /\ ~MoreSevere(cs[j], cs[i])

Preceding(cs, i) == {j \in DOMAIN cs : Precedes(cs, j, i)}
PlaceOf(cs, i)   == 1 + Cardinality(Preceding(cs, i))

LEMMA PrecedesIsStrictOrder ==
  ASSUME NEW cs \in Seq(Catalyst)
  PROVE  /\ \A i \in DOMAIN cs : ~Precedes(cs, i, i)
         /\ \A i, j \in DOMAIN cs : i # j => Precedes(cs, i, j) \/ Precedes(cs, j, i)
         /\ \A i, j, k \in DOMAIN cs :
               Precedes(cs, i, j) /\ Precedes(cs, j, k) => Precedes(cs, i, k)
<1>1. \A i \in DOMAIN cs : cs[i].dt \in Nat /\ cs[i].edge.wcet \in Nat \ {0}
  <2>1. \A i \in DOMAIN cs : cs[i] \in Catalyst
    OBVIOUS
  <2> QED
    BY <2>1, WcetAssumption DEF Catalyst, Edge
<1>2. \A i \in DOMAIN cs : i \in Nat
  OBVIOUS
<1>3. \A i \in DOMAIN cs : ~Precedes(cs, i, i)
  BY <1>1, <1>2 DEF Precedes, MoreSevere
<1>4. \A i, j \in DOMAIN cs : i # j => Precedes(cs, i, j) \/ Precedes(cs, j, i)
  BY <1>1, <1>2 DEF Precedes, MoreSevere
<1>5. ASSUME NEW i \in DOMAIN cs, NEW j \in DOMAIN cs, NEW k \in DOMAIN cs,
             Precedes(cs, i, j), Precedes(cs, j, k)
      PROVE  Precedes(cs, i, k)
  <2> DEFINE x == cs[i].dt
             y == cs[j].dt
             z == cs[k].dt
             p == cs[i].edge.wcet
             q == cs[j].edge.wcet
             r == cs[k].edge.wcet
  <2>1. /\ x \in Nat /\ y \in Nat /\ z \in Nat
        /\ p \in Nat \ {0} /\ q \in Nat \ {0} /\ r \in Nat \ {0}
    BY <1>1
  <2> HIDE DEF x, y, z, p, q, r
  <2>2. /\ x * q \in Nat /\ y * p \in Nat /\ y * r \in Nat /\ z * q \in Nat
        /\ x * r \in Nat /\ z * p \in Nat
    BY <2>1
  <2>3. x * q > y * p \/ (i < j /\ ~(y * p > x * q))
    BY <1>5 DEF Precedes, MoreSevere, x, y, p, q
  <2>4. y * r > z * q \/ (j < k /\ ~(z * q > y * r))
    BY <1>5 DEF Precedes, MoreSevere, y, z, q, r
  <2>5. x * q >= y * p /\ y * r >= z * q
    BY <2>2, <2>3, <2>4
  <2>6. /\ x * r >= z * p
        /\ x * q > y * p \/ y * r > z * q => x * r > z * p
    BY <2>1, <2>5, SeverityTransitive
  <2>7. x * r > z * p \/ (i < k /\ ~(z * p > x * r))
    BY <1>2, <2>2, <2>3, <2>4, <2>6
  <2> QED
    BY <2>7 DEF Precedes, MoreSevere, x, z, p, r
<1> QED
  BY <1>3, <1>4, <1>5

\* Every place is taken by exactly one candidate, in the order of the sort.
LEMMA PlacesAreAPermutation ==
  ASSUME NEW cs \in Seq(Catalyst)
  PROVE  /\ \A i \in DOMAIN cs : PlaceOf(cs, i) \in DOMAIN cs
         /\ \A i, j \in DOMAIN cs :
               Precedes(cs, i, j) => PlaceOf(cs, i) < PlaceOf(cs, j)
         /\ \A p \in DOMAIN cs : \E i \in DOMAIN cs : PlaceOf(cs, i) = p
<1> DEFINE D == DOMAIN cs
           n == Len(cs)
           f == [i \in D |-> PlaceOf(cs, i)]
<1>1. /\ \A i \in D : ~Precedes(cs, i, i)
      /\ \A i, j \in D : i # j => Precedes(cs, i, j) \/ Precedes(cs, j, i)
      /\ \A i, j, k \in D :
            Precedes(cs, i, j) /\ Precedes(cs, j, k) => Precedes(cs, i, k)
  BY PrecedesIsStrictOrder
<1>2. D = 1 .. n /\ n \in Nat /\ IsFiniteSet(D) /\ Cardinality(D) = n
  <2>1. D = 1 .. n /\ n \in Nat
    OBVIOUS
  <2> QED
    BY <2>1, FS_Interval
<1>3. ASSUME NEW i \in D
      PROVE  /\ IsFiniteSet(Preceding(cs, i))
             /\ Cardinality(Preceding(cs, i)) \in Nat
             /\ Cardinality(Preceding(cs, i)) <= n - 1
             /\ i \notin Preceding(cs, i) /\ Preceding(cs, i) \subseteq D
  <2>1. Preceding(cs, i) \in SUBSET (D \ {i})
    BY <1>1 DEF Preceding
  <2>2. IsFiniteSet(D \ {i}) /\ Cardinality(D \ {i}) = n - 1
    BY <1>2, FS_RemoveElement
  <2> HIDE DEF D
  <2> QED
    BY <2>1, <2>2, FS_Subset, FS_CardinalityType
<1>4. \A i \in D : PlaceOf(cs, i) \in D
  BY <1>2, <1>3 DEF PlaceOf
<1>5. ASSUME NEW i \in D, NEW j \in D, Precedes(cs, i, j)
      PROVE  PlaceOf(cs, i) < PlaceOf(cs, j)
  <2>1. Preceding(cs, i) \subseteq Preceding(cs, j)
    BY <1>1, <1>5 DEF Preceding
  <2>2. i \in Preceding(cs, j)
    BY <1>5 DEF Preceding
  <2>3. Preceding(cs, i) # Preceding(cs, j)
    BY <1>3, <2>2
  <2>4. /\ Cardinality(Preceding(cs, i)) <= Cardinality(Preceding(cs, j))
        /\ Cardinality(Preceding(cs, i)) # Cardinality(Preceding(cs, j))
    BY <1>3, <2>1, <2>3, FS_Subset
  <2> QED
    BY <1>3, <2>4 DEF PlaceOf
<1>6. f \in Injection(D, D)
  <2>1. f \in [D -> D]
    BY <1>4
  <2>2. \A i, j \in D : f[i] = f[j] => i = j
    <3> SUFFICES ASSUME NEW i \in D, NEW j \in D, f[i] = f[j], i # j PROVE FALSE
      OBVIOUS
    <3>1. PlaceOf(cs, i) = PlaceOf(cs, j) /\ PlaceOf(cs, i) \in Nat
      BY <1>2, <1>4
    <3>2. PlaceOf(cs, i) < PlaceOf(cs, j) \/ PlaceOf(cs, j) < PlaceOf(cs, i)
      BY <1>1, <1>5
    <3> QED
      BY <3>1, <3>2
  <2> HIDE DEF D, f
  <2> QED
    BY <2>1, <2>2 DEF Injection, IsInjective
<1>7. f \in Surjection(D, D)
  <2> HIDE DEF D, f
  <2> QED
    BY <1>2, <1>6, FS_Injection
<1>8. \A p \in D : \E i \in D : PlaceOf(cs, i) = p
  <2>1. \A p \in D : \E i \in D : f[i] = p
    <3> HIDE DEF D, f
    <3> QED
      BY <1>7 DEF Surjection
  <2> QED
    BY <2>1
<1> QED
  BY <1>4, <1>5, <1>8

\* What RankSevereFirst returns, for every list of candidates.
LEMMA RankSorts ==
  ASSUME NEW cs \in Seq(Catalyst)
  PROVE  \E p \in [DOMAIN cs -> DOMAIN cs] :
            /\ {p[i] : i \in DOMAIN cs} = DOMAIN cs
            /\ DOMAIN RankSevereFirst(cs) = DOMAIN cs
            /\ \A i \in DOMAIN cs : RankSevereFirst(cs)[i] = cs[p[i]]
            /\ \A i, j \in DOMAIN cs : i < j => Precedes(cs, p[i], p[j])
<1> DEFINE D == DOMAIN cs
           At(q) == CHOOSE i \in D : PlaceOf(cs, i) = q
           p == [q \in D |-> At(q)]
<1>1. /\ \A i \in D : PlaceOf(cs, i) \in D
      /\ \A i, j \in D : Precedes(cs, i, j) => PlaceOf(cs, i) < PlaceOf(cs, j)
      /\ \A q \in D : \E i \in D : PlaceOf(cs, i) = q
  BY PlacesAreAPermutation
<1>2. \A q \in D : At(q) \in D /\ PlaceOf(cs, At(q)) = q
  BY <1>1
<1>3. \A i \in D : At(PlaceOf(cs, i)) = i
  <2> SUFFICES ASSUME NEW i \in D, At(PlaceOf(cs, i)) # i PROVE FALSE
    OBVIOUS
  <2>1. PICK k : k = At(PlaceOf(cs, i))
    OBVIOUS
  <2>2. k \in D /\ PlaceOf(cs, k) = PlaceOf(cs, i) /\ k # i
    BY <1>1, <1>2, <2>1
  <2>3. Precedes(cs, k, i) \/ Precedes(cs, i, k)
    BY <2>2, PrecedesIsStrictOrder
  <2>4. PlaceOf(cs, i) \in Nat
    BY <1>1
  <2> QED
    BY <1>1, <2>2, <2>3, <2>4
<1>4. RankSevereFirst(cs) = [q \in D |-> cs[At(q)]]
  BY DEF RankSevereFirst, PlaceOf, Preceding, Precedes
<1> HIDE DEF At
<1>5. p \in [D -> D] /\ {p[i] : i \in D} = D
  <2>1. p \in [D -> D]
    BY <1>2
  <2>2. \A i \in D : p[PlaceOf(cs, i)] = i /\ PlaceOf(cs, i) \in D
    BY <1>1, <1>3
  <2> QED
    BY <2>1, <2>2
<1>6. ASSUME NEW i \in D, NEW j \in D, i < j  PROVE Precedes(cs, p[i], p[j])
  <2>1. p[i] \in D /\ p[j] \in D /\ PlaceOf(cs, p[i]) = i /\ PlaceOf(cs, p[j]) = j
    BY <1>2
  <2>2. i \in Nat /\ j \in Nat
    OBVIOUS
  <2> HIDE DEF p
  <2>3. p[i] # p[j] /\ ~Precedes(cs, p[j], p[i])
    <3>1. ASSUME NEW a \in D, NEW b \in D, PlaceOf(cs, a) = i, PlaceOf(cs, b) = j
          PROVE  a # b /\ ~Precedes(cs, b, a)
      <4>1. Precedes(cs, b, a) => j < i
        BY <1>1, <3>1
      <4> QED
        BY <1>6, <2>2, <3>1, <4>1
    <3> QED
      BY <2>1, <3>1
  <2> QED
    BY <2>1, <2>3, PrecedesIsStrictOrder
<1>7. /\ DOMAIN RankSevereFirst(cs) = D
      /\ \A i \in D : RankSevereFirst(cs)[i] = cs[p[i]]
  BY <1>4
<1> HIDE DEF p
<1> QED
  BY <1>5, <1>6, <1>7

\* ranked is assigned once, from the candidates.
RankedInv == phase = "ranked" => ranked = RankSevereFirst(candidates)

LEMMA RankedInit == WalkInit => RankedInv
  BY DEF WalkInit, Started, RankedInv

LEMMA RankedStep == RankedInv /\ [WalkNext]_<<inputs, walkVars>> => RankedInv'
<1> SUFFICES ASSUME RankedInv, [WalkNext]_<<inputs, walkVars>>, phase' = "ranked"
             PROVE  ranked' = RankSevereFirst(candidates)'
  BY DEF RankedInv
<1>1. candidates' = candidates
      => RankSevereFirst(candidates)' = RankSevereFirst(candidates)
  BY DEF RankSevereFirst, MoreSevere
<1>2. \/ phase = "ranked" /\ UNCHANGED <<ranked, candidates>>
      \/ ranked' = RankSevereFirst(candidates) /\ candidates' = candidates
  BY DEF WalkNext, WalkStep, Skip, Visit, PassEdge, MeasureEdge, Rank, Popping, walkVars
<1> QED
  BY <1>1, <1>2 DEF RankedInv

LEMMA RankedIsSorted == WalkTypeOK /\ RankedInv => RankedSevereFirst
<1> SUFFICES ASSUME WalkTypeOK, RankedInv, phase = "ranked"
             PROVE  RankedSevereFirst
  BY DEF RankedSevereFirst
<1>1. candidates \in Seq(Catalyst) /\ ranked = RankSevereFirst(candidates)
  BY DEF WalkTypeOK, RankedInv
<1>2. PICK p \in [DOMAIN candidates -> DOMAIN candidates] :
         /\ {p[i] : i \in DOMAIN candidates} = DOMAIN candidates
         /\ DOMAIN ranked = DOMAIN candidates
         /\ \A i \in DOMAIN candidates : ranked[i] = candidates[p[i]]
         /\ \A i, j \in DOMAIN candidates : i < j => Precedes(candidates, p[i], p[j])
  BY <1>1, RankSorts
<1>3. ASSUME NEW i \in DOMAIN ranked, NEW j \in DOMAIN ranked, i < j
      PROVE  /\ ~MoreSevere(ranked[j], ranked[i])
             /\ MoreSevere(ranked[i], ranked[j]) \/ p[i] < p[j]
  <2>1. Precedes(candidates, p[i], p[j]) /\ p[i] \in DOMAIN candidates
        /\ p[j] \in DOMAIN candidates
    BY <1>2, <1>3
  <2>2. \A k \in DOMAIN candidates : /\ candidates[k].dt \in Nat
                                     /\ candidates[k].edge.wcet \in Nat
    <3>1. \A k \in DOMAIN candidates : candidates[k] \in Catalyst
      BY <1>1
    <3> QED
      BY <3>1, WcetAssumption DEF Catalyst, Edge
  <2>3. MoreSevere(candidates[p[i]], candidates[p[j]])
          => ~MoreSevere(candidates[p[j]], candidates[p[i]])
    BY <2>1, <2>2 DEF MoreSevere
  <2> QED
    BY <1>2, <2>1, <2>3 DEF Precedes
<1> QED
  BY <1>2, <1>3 DEF RankedSevereFirst

\* The ranking loses and adds nothing.
LEMMA RankedSameSet ==
  ASSUME WalkTypeOK, RankedInv, phase = "ranked"
  PROVE  {ranked[i] : i \in DOMAIN ranked} = Found
<1>1. PICK p \in [DOMAIN candidates -> DOMAIN candidates] :
         /\ {p[i] : i \in DOMAIN candidates} = DOMAIN candidates
         /\ DOMAIN ranked = DOMAIN candidates
         /\ \A i \in DOMAIN candidates : ranked[i] = candidates[p[i]]
  <2>1. candidates \in Seq(Catalyst) /\ ranked = RankSevereFirst(candidates)
    BY DEF WalkTypeOK, RankedInv
  <2> QED
    BY <2>1, RankSorts
<1> QED
  BY <1>1 DEF Found

-----------------------------------------------------------------------------
(* No edge is taken twice: the scans so far and the edges waiting are the  *)
(* edges declared into the visited nodes.                                  *)

Occurrences(s, e) == {k \in DOMAIN s : s[k] = e}
Blamed(e)         == {i \in DOMAIN candidates : candidates[i].edge = e}
EdgesInto(n)      == {<<n, k>> : k \in DOMAIN Incoming(n)}
EdgesTaken        == {d \in DeclaredEdges : d[1] \in visited}

ScansCounted ==
    scans + Len(incoming) = Cardinality(EdgesTaken)

BlameCounted ==
    \A e \in Edge :
        /\ Cardinality(Blamed(e)) + Cardinality(Occurrences(incoming, e))
              <= Cardinality(Occurrences(Incoming(e.to), e))
        /\ e.to \notin visited => Blamed(e) = {} /\ Occurrences(incoming, e) = {}

CountInv == IsFiniteSet(DOMAIN rev_adj) /\ ScansCounted /\ BlameCounted

\* How often a value occurs in a list is a number, one less behind the head
\* when the head is the value.
LEMMA OccurrencesFinite ==
  ASSUME NEW S, NEW s \in Seq(S), NEW e
  PROVE  /\ IsFiniteSet(Occurrences(s, e))
         /\ Cardinality(Occurrences(s, e)) \in Nat
<1>1. DOMAIN s = 1 .. Len(s) /\ Len(s) \in Nat
  OBVIOUS
<1>2. IsFiniteSet(DOMAIN s)
  BY <1>1, FS_Interval
<1> QED
  BY <1>2, FS_Subset, FS_CardinalityType DEF Occurrences

LEMMA OccurrencesInTail ==
  ASSUME NEW S, NEW s \in Seq(S), s # << >>, NEW e
  PROVE  /\ Head(s) = e => Cardinality(Occurrences(Tail(s), e)) + 1
                              = Cardinality(Occurrences(s, e))
         /\ Cardinality(Occurrences(Tail(s), e)) <= Cardinality(Occurrences(s, e))
         /\ Occurrences(s, e) = {} => Occurrences(Tail(s), e) = {}
<1> DEFINE T == Occurrences(Tail(s), e)
           O == Occurrences(s, e) \ {1}
           f == [k \in T |-> k + 1]
<1>1. /\ Len(s) \in Nat /\ Len(s) >= 1 /\ Len(Tail(s)) = Len(s) - 1
      /\ DOMAIN s = 1 .. Len(s) /\ DOMAIN Tail(s) = 1 .. Len(s) - 1
      /\ \A k \in 1 .. Len(s) - 1 : Tail(s)[k] = s[k + 1]
      /\ Head(s) = s[1] /\ Tail(s) \in Seq(S)
  OBVIOUS
<1>2. \A k \in T : k \in Nat /\ k + 1 \in O
  BY <1>1 DEF Occurrences
<1>3. \A j \in O : j - 1 \in T /\ (j - 1) + 1 = j
  BY <1>1 DEF Occurrences
<1>4. f \in Bijection(T, O)
  <2>1. f \in [T -> O] /\ \A k, l \in T : f[k] = f[l] => k = l
    BY <1>2
  <2>2. \A j \in O : \E k \in T : f[k] = j
    BY <1>3
  <2> HIDE DEF T, O, f
  <2> QED
    BY <2>1, <2>2 DEF Bijection, Injection, Surjection, IsInjective
<1>5. /\ IsFiniteSet(T) /\ Cardinality(T) \in Nat
      /\ IsFiniteSet(Occurrences(s, e)) /\ Cardinality(Occurrences(s, e)) \in Nat
  BY <1>1, OccurrencesFinite
<1>6. Cardinality(O) = Cardinality(T)
  <2> HIDE DEF T, O, f
  <2> QED
    BY <1>4, <1>5, FS_Bijection DEF ExistsBijection
<1>7. Cardinality(O) = IF 1 \in Occurrences(s, e)
                       THEN Cardinality(Occurrences(s, e)) - 1
                       ELSE Cardinality(Occurrences(s, e))
  BY <1>5, FS_RemoveElement
<1>8. Head(s) = e => 1 \in Occurrences(s, e)
  BY <1>1 DEF Occurrences
<1>9. Occurrences(s, e) = {} => T = {}
  BY <1>2
<1> QED
  BY <1>5, <1>6, <1>7, <1>8, <1>9

\* The edges into one node, and all of them, are finitely many.
LEMMA EdgesIntoCounted ==
  ASSUME WalkTypeOK, NEW n
  PROVE  IsFiniteSet(EdgesInto(n)) /\ Cardinality(EdgesInto(n)) = Len(Incoming(n))
<1> DEFINE D == 1 .. Len(Incoming(n))
           f == [k \in D |-> <<n, k>>]
<1>1. Len(Incoming(n)) \in Nat /\ DOMAIN Incoming(n) = D
  <2>1. Incoming(n) \in Seq(Edge)
    BY IncomingTyped
  <2> HIDE DEF Incoming
  <2> QED
    BY <2>1
<1>2. IsFiniteSet(D) /\ Cardinality(D) = Len(Incoming(n))
  <2>1. \A L \in Nat : IsFiniteSet(1 .. L) /\ Cardinality(1 .. L) = L
    <3> SUFFICES ASSUME NEW L \in Nat
                 PROVE  IsFiniteSet(1 .. L) /\ Cardinality(1 .. L) = L
      OBVIOUS
    <3>1. /\ IsFiniteSet(1 .. L)
          /\ Cardinality(1 .. L) = IF 1 > L THEN 0 ELSE L - 1 + 1
      BY FS_Interval
    <3> QED
      BY <3>1
  <2> QED
    BY <1>1, <2>1
<1>3. f \in Bijection(D, EdgesInto(n))
  <2>1. f \in [D -> EdgesInto(n)] /\ \A k, l \in D : f[k] = f[l] => k = l
    BY <1>1 DEF EdgesInto
  <2>2. \A d \in EdgesInto(n) : \E k \in D : f[k] = d
    BY <1>1 DEF EdgesInto
  <2> HIDE DEF D, f
  <2> QED
    BY <2>1, <2>2 DEF Bijection, Injection, Surjection, IsInjective
<1> HIDE DEF D, f
<1> QED
  BY <1>2, <1>3, FS_Bijection DEF ExistsBijection

LEMMA DeclaredFinite ==
  ASSUME WalkTypeOK, IsFiniteSet(DOMAIN rev_adj)
  PROVE  IsFiniteSet(DeclaredEdges)
<1> DEFINE N == DOMAIN rev_adj
           f == [n \in N |-> EdgesInto(n)]
           I == {EdgesInto(n) : n \in N}
<1>1. f \in Surjection(N, I)
  <2>1. f \in [N -> I] /\ \A d \in I : \E n \in N : f[n] = d
    OBVIOUS
  <2> HIDE DEF N, f, I
  <2> QED
    BY <2>1 DEF Surjection
<1>2. IsFiniteSet(I)
  <2> HIDE DEF f, I
  <2> QED
    BY <1>1, FS_Surjection
<1>3. \A T \in I : IsFiniteSet(T)
  BY EdgesIntoCounted
<1>4. IsFiniteSet(UNION I)
  <2> HIDE DEF I
  <2> QED
    BY <1>2, <1>3, FS_UNION
<1>5. DeclaredEdges = UNION I
  BY DEF DeclaredEdges, EdgesInto, Incoming
<1> QED
  BY <1>4, <1>5

\* A first visit takes all the edges into the node, none of them taken before.
LEMMA VisitTakes ==
  ASSUME WalkTypeOK, IsFiniteSet(DOMAIN rev_adj), UNCHANGED inputs,
         NEW n, n \notin visited, visited' = visited \cup {n}
  PROVE  Cardinality(EdgesTaken)' = Cardinality(EdgesTaken) + Len(Incoming(n))
<1>1. DeclaredEdges' = DeclaredEdges
  BY DEF DeclaredEdges, inputs
<1>2. EdgesInto(n) = {d \in DeclaredEdges : d[1] = n}
  BY DEF EdgesInto, DeclaredEdges, Incoming
<1>3. EdgesTaken' = EdgesTaken \cup EdgesInto(n)
  BY <1>1, <1>2 DEF EdgesTaken
<1>4. EdgesTaken \cap EdgesInto(n) = {}
  BY <1>2 DEF EdgesTaken
<1>5. IsFiniteSet(EdgesTaken) /\ Cardinality(EdgesTaken) \in Nat
  BY DeclaredFinite, FS_Subset, FS_CardinalityType DEF EdgesTaken
<1>6. IsFiniteSet(EdgesInto(n)) /\ Cardinality(EdgesInto(n)) = Len(Incoming(n))
  BY EdgesIntoCounted
<1>7. Len(Incoming(n)) \in Nat
  BY <1>6, FS_CardinalityType
<1>8. Cardinality(EdgesTaken \cup EdgesInto(n))
         = Cardinality(EdgesTaken) + Cardinality(EdgesInto(n))
  <2>1. Cardinality(EdgesTaken \cup EdgesInto(n))
           = Cardinality(EdgesTaken) + Cardinality(EdgesInto(n))
                - Cardinality(EdgesTaken \cap EdgesInto(n))
    BY <1>5, <1>6, FS_Union
  <2>2. Cardinality(EdgesTaken \cap EdgesInto(n)) = 0
    BY <1>4, FS_EmptySet
  <2> QED
    BY <1>5, <1>6, <1>7, <2>1, <2>2
<1> QED
  BY <1>3, <1>5, <1>6, <1>7, <1>8

LEMMA CountInit == WalkInit => CountInv
<1> SUFFICES ASSUME WalkInit PROVE CountInv
  OBVIOUS
<1>1. /\ visited = {} /\ incoming = << >> /\ candidates = << >> /\ scans = 0
      /\ IsFiniteSet(DOMAIN rev_adj) /\ WalkTypeOK
  BY WalkInvInit DEF WalkInit, Started, WalkInv
<1>2. EdgesTaken = {}
  BY <1>1 DEF EdgesTaken
<1>3. ScansCounted
  BY <1>1, <1>2, FS_EmptySet DEF ScansCounted
<1>4. \A e : Blamed(e) = {} /\ Occurrences(incoming, e) = {}
  BY <1>1 DEF Blamed, Occurrences
<1>5. BlameCounted
  <2> SUFFICES ASSUME NEW e \in Edge
               PROVE  Cardinality(Blamed(e)) + Cardinality(Occurrences(incoming, e))
                         <= Cardinality(Occurrences(Incoming(e.to), e))
    BY <1>4 DEF BlameCounted
  <2>1. Cardinality(Occurrences(Incoming(e.to), e)) \in Nat
    BY <1>1, IncomingTyped, OccurrencesFinite
  <2> QED
    BY <1>4, <2>1, FS_EmptySet
<1> QED
  BY <1>1, <1>3, <1>5 DEF CountInv

\* Blame is a number, and grows by one with a candidate on the edge.
LEMMA BlamedFinite ==
  ASSUME candidates \in Seq(Catalyst), NEW e
  PROVE  IsFiniteSet(Blamed(e)) /\ Cardinality(Blamed(e)) \in Nat
<1>1. DOMAIN candidates = 1 .. Len(candidates) /\ Len(candidates) \in Nat
  OBVIOUS
<1>2. IsFiniteSet(DOMAIN candidates)
  BY <1>1, FS_Interval
<1> QED
  BY <1>2, FS_Subset, FS_CardinalityType DEF Blamed

LEMMA BlameGrows ==
  ASSUME candidates \in Seq(Catalyst), NEW c, candidates' = Append(candidates, c), NEW e
  PROVE  /\ c.edge # e => Blamed(e)' = Blamed(e)
         /\ c.edge = e => Cardinality(Blamed(e))' = Cardinality(Blamed(e)) + 1
<1>1. /\ DOMAIN candidates' = DOMAIN candidates \cup {Len(candidates) + 1}
      /\ Len(candidates) + 1 \notin DOMAIN candidates
      /\ \A i \in DOMAIN candidates : candidates'[i] = candidates[i]
      /\ candidates'[Len(candidates) + 1] = c
  OBVIOUS
<1>2. c.edge # e => Blamed(e)' = Blamed(e)
  BY <1>1 DEF Blamed
<1>3. ASSUME c.edge = e
      PROVE  Cardinality(Blamed(e))' = Cardinality(Blamed(e)) + 1
  <2>1. /\ Blamed(e)' = Blamed(e) \cup {Len(candidates) + 1}
        /\ Len(candidates) + 1 \notin Blamed(e)
    BY <1>1, <1>3 DEF Blamed
  <2> QED
    BY <2>1, BlamedFinite, FS_AddElement
<1> QED
  BY <1>2, <1>3

LEMMA SameCounts ==
  ASSUME UNCHANGED inputs
  PROVE  /\ DOMAIN rev_adj' = DOMAIN rev_adj /\ DeclaredEdges' = DeclaredEdges
         /\ \A n : Incoming(n)' = Incoming(n)
  BY DEF DeclaredEdges, Incoming, inputs

LEMMA CountStays ==
  ASSUME CountInv, UNCHANGED <<inputs, visited, incoming, candidates, scans>>
  PROVE  CountInv'
<1>1. ScansCounted'
  BY SameCounts DEF CountInv, ScansCounted, EdgesTaken
<1>2. BlameCounted'
  BY SameCounts DEF CountInv, BlameCounted, Blamed, Occurrences
<1> QED
  BY <1>1, <1>2, SameCounts DEF CountInv

LEMMA VisitCount ==
  ASSUME WalkInv, CountInv, Visit, UNCHANGED inputs
  PROVE  CountInv'
<1>1. /\ UNCHANGED <<candidates, scans>> /\ incoming = << >>
      /\ Top.node \notin visited /\ visited' = visited \cup {Top.node}
      /\ incoming' = Incoming(Top.node) /\ WalkTypeOK
  BY DEF Visit, Popping, WalkInv
<1>2. PICK n : n = Top.node
  OBVIOUS
<1>3. Incoming(n) \in Seq(Edge) /\ \A k \in DOMAIN Incoming(n) : Incoming(n)[k].to = n
  BY <1>1, IncomingTyped
<1>4. ScansCounted'
  <2>1. Cardinality(EdgesTaken)' = Cardinality(EdgesTaken) + Len(Incoming(n))
    BY <1>1, <1>2, VisitTakes DEF CountInv
  <2>2. scans \in Nat /\ Len(incoming) = 0 /\ Len(Incoming(n)) \in Nat
    BY <1>1, <1>3 DEF WalkTypeOK
  <2> QED
    BY <1>1, <1>2, <2>1, <2>2 DEF CountInv, ScansCounted
<1>5. BlameCounted'
  <2> SUFFICES ASSUME NEW e \in Edge
               PROVE  /\ Cardinality(Blamed(e)) + Cardinality(Occurrences(Incoming(n), e))
                            <= Cardinality(Occurrences(Incoming(e.to), e))
                      /\ e.to \notin visited' =>
                            Blamed(e) = {} /\ Occurrences(Incoming(n), e) = {}
    BY <1>1, <1>2, SameCounts DEF BlameCounted, Blamed, Occurrences
  <2>1. CASE e.to = n
    <3>1. Blamed(e) = {}
      BY <1>1, <1>2, <2>1 DEF CountInv, BlameCounted
    <3>2. Cardinality(Occurrences(Incoming(n), e)) \in Nat
      BY <1>3, OccurrencesFinite
    <3> QED
      BY <1>1, <1>2, <2>1, <3>1, <3>2, FS_EmptySet
  <2>2. CASE e.to # n
    <3>1. Occurrences(Incoming(n), e) = {} /\ Occurrences(incoming, e) = {}
      BY <1>1, <1>3, <2>2 DEF Occurrences
    <3> QED
      BY <1>1, <3>1 DEF CountInv, BlameCounted
  <2> QED
    BY <2>1, <2>2
<1> QED
  BY <1>4, <1>5, SameCounts DEF CountInv

\* Taking an edge from the for-loop, with or without a candidate on it.
LEMMA TakeEdgeCount ==
  ASSUME WalkInv, CountInv, UNCHANGED <<inputs, visited>>, incoming # << >>,
         incoming' = Tail(incoming), scans' = scans + 1,
         \/ candidates' = candidates
         \/ \E c : candidates' = Append(candidates, c) /\ c.edge = Head(incoming)
  PROVE  CountInv'
<1>1. incoming \in Seq(Edge) /\ scans \in Nat /\ candidates \in Seq(Catalyst)
  BY DEF WalkInv, WalkTypeOK
<1>2. ScansCounted'
  <2>1. Len(incoming') = Len(incoming) - 1 /\ Len(incoming) \in Nat
    BY <1>1
  <2>2. EdgesTaken' = EdgesTaken
    BY SameCounts DEF EdgesTaken
  <2> QED
    BY <1>1, <2>1, <2>2 DEF CountInv, ScansCounted
<1>3. BlameCounted'
  <2> SUFFICES ASSUME NEW e \in Edge
               PROVE  /\ Cardinality(Blamed(e))' + Cardinality(Occurrences(Tail(incoming), e))
                            <= Cardinality(Occurrences(Incoming(e.to), e))
                      /\ e.to \notin visited =>
                            Blamed(e)' = {} /\ Occurrences(Tail(incoming), e) = {}
    BY SameCounts DEF BlameCounted, Occurrences
  <2>1. /\ Head(incoming) = e => Cardinality(Occurrences(Tail(incoming), e)) + 1
                                    = Cardinality(Occurrences(incoming, e))
        /\ Cardinality(Occurrences(Tail(incoming), e))
              <= Cardinality(Occurrences(incoming, e))
        /\ Occurrences(incoming, e) = {} => Occurrences(Tail(incoming), e) = {}
    BY <1>1, OccurrencesInTail
  <2>2. /\ Cardinality(Blamed(e)) \in Nat
        /\ Cardinality(Occurrences(incoming, e)) \in Nat
        /\ Cardinality(Occurrences(Tail(incoming), e)) \in Nat
    BY <1>1, BlamedFinite, OccurrencesFinite, HeadTailProperties
  <2>3. /\ Cardinality(Blamed(e)) + Cardinality(Occurrences(incoming, e))
              <= Cardinality(Occurrences(Incoming(e.to), e))
        /\ e.to \notin visited => Blamed(e) = {} /\ Occurrences(incoming, e) = {}
    BY DEF CountInv, BlameCounted
  <2>4. Cardinality(Occurrences(Incoming(e.to), e)) \in Nat
    BY IncomingTyped, OccurrencesFinite DEF WalkInv
  <2>5. Head(incoming) = e => e.to \in visited
    <3>1. Head(incoming) = e => 1 \in Occurrences(incoming, e)
      BY <1>1 DEF Occurrences
    <3> QED
      BY <2>3, <3>1
  <2>6. CASE Blamed(e)' = Blamed(e)
    BY <2>1, <2>2, <2>3, <2>4, <2>6
  <2>7. CASE Cardinality(Blamed(e))' = Cardinality(Blamed(e)) + 1 /\ Head(incoming) = e
    BY <2>1, <2>2, <2>3, <2>4, <2>5, <2>7
  <2>8. \/ Blamed(e)' = Blamed(e)
        \/ Cardinality(Blamed(e))' = Cardinality(Blamed(e)) + 1 /\ Head(incoming) = e
    <3>1. CASE candidates' = candidates
      BY <3>1 DEF Blamed
    <3>2. ASSUME NEW c, candidates' = Append(candidates, c), c.edge = Head(incoming)
          PROVE  \/ Blamed(e)' = Blamed(e)
                 \/ /\ Cardinality(Blamed(e))' = Cardinality(Blamed(e)) + 1
                    /\ Head(incoming) = e
      BY <1>1, <3>2, BlameGrows
    <3> QED
      BY <3>1, <3>2
  <2> QED
    BY <2>6, <2>7, <2>8
<1> QED
  BY <1>2, <1>3, SameCounts DEF CountInv

LEMMA CountStep ==
  WalkInv /\ CountInv /\ [WalkNext]_<<inputs, walkVars>> => CountInv'
<1> SUFFICES ASSUME WalkInv, CountInv, [WalkNext]_<<inputs, walkVars>>
             PROVE  CountInv'
  OBVIOUS
<1>1. CASE Skip /\ UNCHANGED inputs
  BY <1>1, CountStays DEF Skip
<1>2. CASE Visit /\ UNCHANGED inputs
  BY <1>2, VisitCount
<1>3. CASE PassEdge /\ UNCHANGED inputs
  BY <1>3, TakeEdgeCount DEF PassEdge
<1>4. CASE MeasureEdge /\ UNCHANGED inputs
  <2> DEFINE c == [edge |-> Head(incoming), dt |-> effect.ts - Trigger.ts,
                   trigger |-> Trigger, effect |-> effect]
  <2>1. candidates' = candidates \/ candidates' = Append(candidates, c)
    BY <1>4 DEF MeasureEdge
  <2>2. c.edge = Head(incoming)
    OBVIOUS
  <2> HIDE DEF c
  <2> QED
    BY <1>4, <2>1, <2>2, TakeEdgeCount DEF MeasureEdge
<1>5. CASE Rank /\ UNCHANGED inputs
  BY <1>5, CountStays DEF Rank
<1>6. CASE UNCHANGED <<inputs, walkVars>>
  BY <1>6, CountStays DEF walkVars
<1> QED
  BY <1>1, <1>2, <1>3, <1>4, <1>5, <1>6 DEF WalkNext, WalkStep

LEMMA CountMeansOnce == WalkInv /\ CountInv => EachEdgeOnce
<1> SUFFICES ASSUME WalkInv, CountInv PROVE EachEdgeOnce
  OBVIOUS
<1>1. scans \in Nat /\ incoming \in Seq(Edge) /\ candidates \in Seq(Catalyst)
  BY DEF WalkInv, WalkTypeOK
<1>2. scans <= Cardinality(DeclaredEdges)
  <2>1. IsFiniteSet(DeclaredEdges) /\ EdgesTaken \in SUBSET DeclaredEdges
    BY DeclaredFinite DEF WalkInv, CountInv, EdgesTaken
  <2>2. Cardinality(EdgesTaken) <= Cardinality(DeclaredEdges)
        /\ Cardinality(EdgesTaken) \in Nat /\ Cardinality(DeclaredEdges) \in Nat
    BY <2>1, FS_Subset, FS_CardinalityType
  <2>3. Len(incoming) \in Nat
    BY <1>1
  <2> QED
    BY <1>1, <2>2, <2>3 DEF CountInv, ScansCounted
<1>3. ASSUME NEW i \in DOMAIN candidates
      PROVE  Cardinality(Blamed(candidates[i].edge))
                <= Cardinality(Occurrences(Incoming(candidates[i].edge.to),
                                           candidates[i].edge))
  <2> DEFINE e == candidates[i].edge
  <2>1. e \in Edge
    <3>1. candidates[i] \in Catalyst
      BY <1>1
    <3> QED
      BY <3>1 DEF Catalyst
  <2> HIDE DEF e
  <2>2. /\ Cardinality(Blamed(e)) \in Nat
        /\ Cardinality(Occurrences(incoming, e)) \in Nat
        /\ Cardinality(Occurrences(Incoming(e.to), e)) \in Nat
    BY <1>1, BlamedFinite, OccurrencesFinite, IncomingTyped DEF WalkInv
  <2>3. Cardinality(Blamed(e)) + Cardinality(Occurrences(incoming, e))
           <= Cardinality(Occurrences(Incoming(e.to), e))
    BY <2>1 DEF CountInv, BlameCounted
  <2> QED
    BY <2>2, <2>3 DEF e
<1> QED
  BY <1>2, <1>3 DEF EachEdgeOnce, Blamed, Occurrences

-----------------------------------------------------------------------------
(* Theorems.                                                               *)

\* The loop's variables always have their types.
THEOREM WalkTypeCorrect == WalkSpec => []WalkTypeOK
<1>1. WalkInv => WalkTypeOK
  BY DEF WalkInv
<1> QED
  BY WalkInvInit, WalkInvStep, <1>1, PTL DEF WalkSpec

\* Whatever the ring holds and whatever the graph is, every candidate is a real
\* overrun of a declared edge between two held transitions.
THEOREM WalkCandidatesGenuine == WalkSpec => []CandidatesGenuine
<1>1. WalkInv => CandidatesGenuine
  BY DEF WalkInv
<1> QED
  BY WalkInvInit, WalkInvStep, <1>1, PTL DEF WalkSpec

\* Every candidate's effect is linked to the trip by a chain of declared edges
\* and triggers.
THEOREM WalkCandidatesUpstream == WalkSpec => []CandidatesUpstream
<1>1. WalkInv => CandidatesUpstream
  BY DEF WalkInv
<1> QED
  BY WalkInvInit, WalkInvStep, <1>1, PTL DEF WalkSpec

\* The lookup by (node, instant + 1) always succeeds: the code's
\* `None => continue' for the effect instance is unreachable.
THEOREM WalkEffectAlwaysFound == WalkSpec => []EffectAlwaysFound
<1>1. WalkInv => EffectAlwaysFound
  BY HeldTyped, TransitionAssumption
     DEF WalkInv, LoopUpstream, EffectAlwaysFound, Upstream
<1> QED
  BY WalkInvInit, WalkInvStep, <1>1, PTL DEF WalkSpec

\* When no node with edges into it competes with itself, every violation
\* upstream of the trip is among the candidates of the returned walk: none is
\* lost to the visited set, to the order of the stack or behind an edge within
\* budget.
THEOREM WalkCompleteWhenUnambiguous == WalkSpec => []CompleteWhenUnambiguous
BY WalkInvInit, WalkInvStep, ThoroughInit, ThoroughStep, ReturnIsComplete, PTL
   DEF WalkSpec

\* The ranking is a permutation of the candidates, most severe first, with ties
\* in the order they were found, whatever the magnitudes and the budgets.
THEOREM WalkRankedSevereFirst == WalkSpec => []RankedSevereFirst
<1>1. WalkInit => WalkInv /\ RankedInv
  BY WalkInvInit, RankedInit
<1>2. WalkInv /\ RankedInv /\ [WalkNext]_<<inputs, walkVars>> => (WalkInv /\ RankedInv)'
  BY WalkInvStep, RankedStep
<1>3. WalkInv /\ RankedInv => RankedSevereFirst
  BY RankedIsSorted DEF WalkInv
<1> QED
  BY <1>1, <1>2, <1>3, PTL DEF WalkSpec

\* One walk makes at most as many scans as there are declared edges, and blames
\* no edge more often than it is declared, on every graph: the visited set
\* bounds the work however many paths or cycles lead to a node.
THEOREM WalkEachEdgeOnce == WalkSpec => []EachEdgeOnce
<1>1. WalkInit => WalkInv /\ CountInv
  BY WalkInvInit, CountInit
<1>2. WalkInv /\ CountInv /\ [WalkNext]_<<inputs, walkVars>> => (WalkInv /\ CountInv)'
  BY WalkInvStep, CountStep
<1> QED
  BY <1>1, <1>2, CountMeansOnce, PTL DEF WalkSpec
=============================================================================
