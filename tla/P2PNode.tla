------------------------------- MODULE P2PNode -------------------------------
(***************************************************************************)
(* The node's side of the network: streams pass the gate (PeerGate), and   *)
(* the transactions they carry enter the mempool that is synchronised with *)
(* the peers (MempoolSync), beside those of the HTTP API.                  *)
(***************************************************************************)
EXTENDS PeerGate, MempoolSync

vars == <<gate, mempool>>

\* handleTransactionStream, a transaction: main's handler adds it and marks nothing, so
\* that performSync will pass it on.
TransactionDelivered(s, t) ==
    /\ \E n \in Sizes : AllowBytes(s, n)
    /\ AddTransaction(t)
    /\ UNCHANGED <<known, fetching, requested, toSend, cleaning, pending>>

\* A request for one, which is looked up; or a block or a VRF proof, whose handlers leave
\* the mempool alone.  A vote ends the process: handleVoteStream takes its hash for a
\* []byte, while JSON has made it a string, and nothing recovers the panic.  Of what is
\* here nothing is on disk, so that the next process starts in Init.
OtherDelivered(s) ==
    /\ \E n \in Sizes : AllowBytes(s, n)
    /\ UNCHANGED mempool

\* POST /api/submit; what handleSubmitTx refuses changes nothing.
Submitted(t) ==
    /\ AddTransaction(t)
    /\ UNCHANGED <<known, fetching, requested, toSend, cleaning, pending, gate>>

Init == GateInit /\ MempoolInit

Next ==
    \/ \E s \in Streams : OtherDelivered(s) \/ \E t \in Txs : TransactionDelivered(s, t)
    \/ \E t \in Txs : Submitted(t)
    \/ GateNext /\ UNCHANGED mempool
    \/ MempoolNext /\ UNCHANGED gate

Spec == Init /\ [][Next]_vars

FairSpec == Spec /\ MempoolFairness

-----------------------------------------------------------------------------
\* Types of both parts.
TypeOK == GateTypeOK /\ MempoolTypeOK
=============================================================================
