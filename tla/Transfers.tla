------------------------------ MODULE Transfers ------------------------------
(***************************************************************************)
(* What is left of the promise of ApplyTransactionAtomic                   *)
(* (pkg/blockchain/atomic_state.go, lines 12-13 and 108-109): the stored   *)
(* accounts change by whole transfers and in no other way, whatever fails  *)
(* and wherever the node crashes.  It makes two exceptions.  Loose         *)
(* accounts, those that two calls work on at once, may lose an update; and *)
(* a transfer to its own sender does not even out.                         *)
(***************************************************************************)
EXTENDS Integers

CONSTANTS Accounts, Txs, Tx, Genesis

VARIABLES
    book,     \* balance and nonce of each account
    loose     \* the accounts of which a step promises nothing

Init == book = Genesis

Valid(t) ==
    /\ book[Tx[t].from].nonce = Tx[t].nonce
    /\ book[Tx[t].from].balance >= Tx[t].amount

Debited(a, t) == [balance |-> book[a].balance - Tx[t].amount, nonce |-> book[a].nonce + 1]
Credited(a, t) == [balance |-> book[a].balance + Tx[t].amount, nonce |-> book[a].nonce]

\* The step is that of t on every account that is not loose.
Transfer(t) ==
    LET from == Tx[t].from
        to == Tx[t].to
    IN  /\ from # to
        /\ from \notin loose => Valid(t) /\ book'[from] = Debited(from, t)
        /\ to \notin loose => book'[to] = Credited(to, t)
        /\ \A a \in Accounts \ {from, to} : book'[a] = book[a]

\* Money is made, and the nonce may be used again.
SelfTransfer(t) ==
    LET self == Tx[t].from
    IN  /\ self = Tx[t].to
        /\ self \notin loose => Valid(t) /\ book'[self] = Credited(self, t)
        /\ \A a \in Accounts \ {self} : book'[a] = book[a]

Next == \E t \in Txs : Transfer(t) \/ SelfTransfer(t)

Spec == Init /\ [][Next]_book
=============================================================================
