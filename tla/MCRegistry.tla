----------------------------- MODULE MCRegistry -----------------------------
(* Registry with a genesis validator and one that registers.               *)
EXTENDS Registry, TLC

CONSTANTS g, v

MCBalance == [x \in Validators |-> IF x = g THEN NoAccount ELSE 3]
MCTicks == [r \in Reasons |-> IF r = "downtime" THEN 0 ELSE 1]
=============================================================================
