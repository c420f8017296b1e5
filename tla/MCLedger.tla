------------------------------- MODULE MCLedger -------------------------------
(* Ledger with two transactions of a that share a nonce and together cost  *)
(* more than a has, a self-transfer, one that only fits alone, and two new *)
(* addresses where one block may bring one.  t5 takes its amount from the  *)
(* recipient, and its fee gives one unit back.                             *)
EXTENDS Ledger, TLC

CONSTANTS a, b, p, m, n, t1, t2, t3, t4, t5

Transfer(from, to, amount, fee, nonce, size) ==
    [from |-> from, to |-> to, amount |-> amount, fee |-> fee, nonce |-> nonce,
     size |-> size, sigOk |-> TRUE]

MCTx ==
    t1 :> Transfer(a, n, 2, 1, 0, 1) @@
    t2 :> Transfer(a, b, 3, 0, 0, 1) @@
    t3 :> Transfer(a, b, 2, 2, 1, 3) @@
    t4 :> Transfer(b, b, 1, 0, 0, 1) @@
    t5 :> Transfer(p, m, -2, -1, 0, 1)
MCGenesis == a :> 5 @@ b :> 1
MCNetworks == a :> "x" @@ b :> "x" @@ p :> "y"
MCRewarded == {{a, p}, {}}
=============================================================================
