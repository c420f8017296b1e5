---------------------------- MODULE MCAtomicState ----------------------------
(* AtomicState with two clients: t1 and t2 spend the same nonce of a, t3   *)
(* brings money back, t4 is possible after t1 or t2, t5 is a transfer of   *)
(* b to itself, t6 takes a negative amount from e.                         *)
EXTENDS AtomicState, TLC

CONSTANTS a, b, d, e, t1, t2, t3, t4, t5, t6

Transfer(from, to, amount, nonce) ==
    [from |-> from, to |-> to, amount |-> amount, nonce |-> nonce]

MCTx == t1 :> Transfer(a, b, 2, 0) @@ t2 :> Transfer(a, d, 1, 0) @@
        t3 :> Transfer(b, a, 1, 0) @@ t4 :> Transfer(a, e, 1, 1) @@
        t5 :> Transfer(b, b, 1, 0) @@ t6 :> Transfer(d, e, -1, 0)
MCGenesis == [x \in Accounts |-> [balance |-> IF x \in {a, d} THEN 2 ELSE 0, nonce |-> 0]]
=============================================================================
