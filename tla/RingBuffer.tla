----------------------------- MODULE RingBuffer -----------------------------
(***************************************************************************)
(* RingBuffer<CAP> of src/src/causal.rs: CAP slots written round-robin, a  *)
(* head that is the index of the next write, and a length that saturates   *)
(* at CAP.  The reader, iter_rev, walks len slots backward from head.      *)
(*                                                                         *)
(* `pushed' is a history variable: every transition ever pushed, oldest    *)
(* first.  The program keeps no such thing; the properties compare the     *)
(* slots with it.                                                          *)
(***************************************************************************)
EXTENDS Integers, Sequences

CONSTANTS CAP,            \* const generic CAP: the number of slots
          Transition,     \* the StateTransition values that may be pushed
          NoTransition,   \* None, the initial content of every slot
          MaxPushes       \* bound on the pushes explored

ASSUME CAPAssumption       == CAP \in Nat \ {0}
ASSUME NoneAssumption      == NoTransition \notin Transition
ASSUME MaxPushesAssumption == MaxPushes \in Nat

VARIABLES buf, head, len, pushed

ringVars == <<buf, head, len, pushed>>

Slot == 0 .. CAP - 1

RingTypeOK ==
    /\ buf \in [Slot -> Transition \cup {NoTransition}]
    /\ head \in Slot
    /\ len \in 0 .. CAP
    /\ pushed \in Seq(Transition)

RingInit ==
    /\ buf = [s \in Slot |-> NoTransition]
    /\ head = 0
    /\ len = 0
    /\ pushed = << >>

\* Mutant: the walk starts at the oldest slot.
RevIndexOldestFirst(i) == (head + CAP - len + i - 1) % CAP

\* The slot visited as the i-th newest; the code counts i from 0.
RevIndex(i) == (head + CAP - i) % CAP

\* iter_rev: the transitions still held, newest first.
IterRev == [i \in 1 .. len |-> buf[RevIndex(i)]]

Push(t) ==
    /\ buf' = [buf EXCEPT ![head] = t]
    /\ head' = (head + 1) % CAP
    /\ len' = IF len < CAP THEN len + 1 ELSE len
    /\ pushed' = Append(pushed, t)

RingNext == /\ Len(pushed) < MaxPushes
            /\ \E t \in Transition : Push(t)

RingSpec == RingInit /\ [][RingNext]_ringVars

-----------------------------------------------------------------------------
(* Properties.                                                             *)

\* iter_rev's `.expect("len invariant")' never panics: no slot it visits is
\* still empty, whatever the number of pushes and wraparounds.
ReadsOnlyWrittenSlots == \A i \in 1 .. len : buf[RevIndex(i)] # NoTransition

\* After n pushes iter_rev yields exactly the last min(n, CAP) of them, newest
\* first: push's wraparound and iter_rev's index arithmetic agree.
HoldsLastCAP ==
    LET n == Len(pushed)
    IN  /\ len = IF n < CAP THEN n ELSE CAP
        /\ \A i \in 1 .. len : buf[RevIndex(i)] = pushed[n + 1 - i]

\* The buffer implements the sliding window: what iter_rev returns changes as
\* the abstract window does, one transition in front, at most one leaving.
Window == INSTANCE TransitionWindow WITH window <- IterRev
ImplementsWindow == Window!Spec
=============================================================================
