---------------------------- MODULE MCCheckpoint ----------------------------
(* Checkpoint on a small instance: with three validators two votes are     *)
(* enough and one is not.                                                  *)
EXTENDS Checkpoint, TLC

MCTallies == {[votes |-> 1, total |-> 3], [votes |-> 2, total |-> 3]}
=============================================================================
