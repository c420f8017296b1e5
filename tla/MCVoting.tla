------------------------------ MODULE MCVoting ------------------------------
(* Voting on a small instance.                                             *)
EXTENDS Voting, TLC

CONSTANTS v1, v2, v3, b1, b2

MCHeight == [b \in Blocks |-> IF b = b1 THEN 1 ELSE 2]
MCLegacy == {<<b1, v2>>}
=============================================================================
