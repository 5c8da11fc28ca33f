------------------------- MODULE MCExecutionIntents -------------------------
(* Instances of ExecutionIntents for TLC. *)
EXTENDS ExecutionIntents

CONSTANTS g1, g2, m1

MCGraphIds  == {g1}
MCManualIds == {m1}
MCDir       == [id \in {g1, m1} |-> IF id = g1 THEN "LONG" ELSE "SHORT"]
MCManualDir == [id \in {m1} |-> "SHORT"]
MCBatches   == {<<g1>>}
MCPrice     == 1..4

(* Nothing in the body; a long set-up; a short one; a moved entry alone. *)
MCRefs == {NoRefs,
           [entry |-> 2, target |-> 4, stop |-> 1],
           [entry |-> 3, target |-> 1, stop |-> 4]}
MCTwoGraphIds == {g1, g2}
MCTwoDir      == [id \in {g1, g2} |-> "LONG"]
MCTwoBatches  == {<<g1, g2>>, <<g2>>}
MCLongRefs == {NoRefs, [entry |-> 2, target |-> 4, stop |-> 1]}
=============================================================================
