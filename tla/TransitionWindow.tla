-------------------------- MODULE TransitionWindow --------------------------
(***************************************************************************)
(* What the engine's history buffer promises (causal.rs: "Fixed-capacity   *)
(* ring buffer of the last CAP transitions", read "newest -> oldest"):     *)
(* after any number of pushes the reader sees the last CAP transitions,    *)
(* newest first, with none missing, none repeated and none out of place.   *)
(* The module says nothing about slots, heads or wraparound: RingBuffer    *)
(* is the implementation.                                                  *)
(***************************************************************************)
EXTENDS Integers, Sequences

CONSTANTS CAP,         \* capacity of the window
          Transition   \* what may be recorded

VARIABLE window        \* the visible transitions, newest first

TypeOK == window \in Seq(Transition) /\ Len(window) <= CAP

\* t enters in front; once the window is full the oldest one leaves.
Slide(t, w) ==
    [i \in 1 .. (IF Len(w) < CAP THEN Len(w) + 1 ELSE CAP) |->
        IF i = 1 THEN t ELSE w[i - 1]]

Init == window = << >>

Record(t) == window' = Slide(t, window)

Next == \E t \in Transition : Record(t)

Spec == Init /\ [][Next]_window
=============================================================================
