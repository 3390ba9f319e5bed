--------------------------- MODULE MCEvidenceSinks ---------------------------
(* Both sinks on four keys at two instants: two traces of one trip, one of a *)
(* later trip, a row whose evidence is no trace (as in the tests of          *)
(* storage.rs) and one that was filed under another instant than its trace's.*)
EXTENDS EvidenceSinks
MCInstant == 1 .. 3
MCTrace == {[ts |-> 1, id |-> 1, cause |-> "slow arm"],
            [ts |-> 1, id |-> 1, cause |-> "slow table"],
            [ts |-> 2, id |-> 1, cause |-> "slow arm"]}
MCRow == {FromTrace(t) : t \in MCTrace}
         \cup {[ts |-> 1, id |-> 2, evidence |-> [text |-> "{}"]],
               [ts |-> 2, id |-> 2,
                evidence |-> [ts |-> 1, id |-> 1, cause |-> "slow arm"]]}
=============================================================================
