------------------------------ MODULE Grouping ------------------------------
(* map.entry(key).or_default().push(value), in a loop over a list: how the *)
(* adjacency lists of the engine and of the cycle search come about.       *)
EXTENDS Naturals, Sequences

\* vals are the values in the order of the loop, hits the positions at which the
\* key is the one in question: Pushes(vals, hits)[k] is the list of that key
\* after k turns.
Pushes(vals, hits) ==
    LET F[k \in 0 .. Len(vals)] ==
            IF k = 0 THEN << >>
            ELSE IF k \in hits THEN Append(F[k - 1], vals[k]) ELSE F[k - 1]
    IN  F

Grouped(vals, hits) == Pushes(vals, hits)[Len(vals)]
=============================================================================
