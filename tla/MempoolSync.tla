----------------------------- MODULE MempoolSync -----------------------------
(***************************************************************************)
(* The mempool and its synchronisation (pkg/mempool/mempool_sync.go): what *)
(* is known, what is pending, what is fetched from a peer and what is      *)
(* passed on.                                                              *)
(*                                                                         *)
(* knownTxs has a lock (ms.mu), and the mempool another; a handler takes   *)
(* them one after the other, and fetches without either.  CleanupOldKnown- *)
(* Txs holds ms.mu while it looks at the pending transactions, which go on *)
(* changing.                                                               *)
(***************************************************************************)
EXTENDS Naturals

CONSTANTS Txs, Fetchers, NoTx

ASSUME MempoolAssumption == NoTx \notin Txs

VARIABLES
    pool,       \* pending transactions
    known,      \* knownTxs
    fetching,   \* [Fetchers -> what HandleTxAnnouncement is working on, or NoTx]
    requested,  \* fetchers that found it not pending and have asked for it
    toSend,     \* what performSync has yet to look at of its list
    cleaning,   \* CleanupOldKnownTxs holds ms.mu
    pending,    \* the pending transactions as it saw them
    sent        \* history: how often performSync has sent it in this stay in the pool

mempool == <<pool, known, fetching, requested, toSend, cleaning, pending, sent>>

AddTransaction(t) ==
    /\ pool' = pool \cup {t}
    /\ sent' = IF t \in pool THEN sent ELSE [sent EXCEPT ![t] = 0]

-----------------------------------------------------------------------------
(* Mutants.                                                                *)

KnownKept(k, p) == k

KnownDropped(k, p) == {}

-----------------------------------------------------------------------------
\* A block with t was finalized.
RemoveTransaction(t) ==
    /\ t \in pool
    /\ pool' = pool \ {t}
    /\ UNCHANGED <<known, fetching, requested, toSend, cleaning, pending, sent>>

Mark(t) == ~cleaning /\ known' = known \cup {t}

\* HandleTxAnnouncement: what is known is dropped; else it is known from here on.
Announce(f, t) ==
    /\ fetching[f] = NoTx /\ t \notin known
    /\ Mark(t)
    /\ fetching' = [fetching EXCEPT ![f] = t]
    /\ UNCHANGED <<pool, requested, toSend, cleaning, pending, sent>>

\* It is pending after all: nothing to do.
FoundPending(f) ==
    /\ fetching[f] \in pool /\ f \notin requested
    /\ fetching' = [fetching EXCEPT ![f] = NoTx]
    /\ UNCHANGED <<pool, known, requested, toSend, cleaning, pending, sent>>

Request(f) ==
    /\ fetching[f] \in Txs \ pool /\ f \notin requested
    /\ requested' = requested \cup {f}
    /\ UNCHANGED <<pool, known, fetching, toSend, cleaning, pending, sent>>

\* The peer answered (P2PNetwork.RequestTransaction).
Fetched(f) ==
    /\ f \in requested
    /\ AddTransaction(fetching[f])
    /\ fetching' = [fetching EXCEPT ![f] = NoTx] /\ requested' = requested \ {f}
    /\ UNCHANGED <<known, toSend, cleaning, pending>>

\* No peer, no stream, no or an empty answer: it stays known.
FetchFails(f) ==
    /\ f \in requested
    /\ fetching' = [fetching EXCEPT ![f] = NoTx] /\ requested' = requested \ {f}
    /\ UNCHANGED <<pool, known, toSend, cleaning, pending, sent>>

\* HandleTxResponse, which marks and then adds.
HandleTxResponse(t) ==
    /\ Mark(t) /\ AddTransaction(t)
    /\ UNCHANGED <<fetching, requested, toSend, cleaning, pending>>

\* performSync copies the pending transactions (it does nothing without a peer)...
PerformSync ==
    /\ toSend = {} /\ pool # {}
    /\ toSend' = pool
    /\ UNCHANGED <<pool, known, fetching, requested, cleaning, pending, sent>>

\* ... skips what is known...
SkipKnown(t) ==
    /\ t \in toSend \cap known /\ ~cleaning
    /\ toSend' = toSend \ {t}
    /\ UNCHANGED <<pool, known, fetching, requested, cleaning, pending, sent>>

\* ... and marks the rest and passes it on, whatever comes of that: no error is looked at.
SendUnknown(t) ==
    /\ t \in toSend \ known
    /\ Mark(t)
    /\ toSend' = toSend \ {t}
    /\ sent' = IF t \in pool THEN [sent EXCEPT ![t] = @ + 1] ELSE sent
    /\ UNCHANGED <<pool, fetching, requested, cleaning, pending>>

StartCleanup ==
    /\ ~cleaning
    /\ cleaning' = TRUE /\ pending' = pool
    /\ UNCHANGED <<pool, known, fetching, requested, toSend, sent>>

StillKnown(k, p) == k \cap p

\* maxAge is not looked at.
CleanupOldKnownTxs ==
    /\ cleaning
    /\ known' = StillKnown(known, pending)
    /\ cleaning' = FALSE /\ pending' = {}
    /\ UNCHANGED <<pool, fetching, requested, toSend, sent>>

MempoolInit ==
    /\ pool = {} /\ known = {}
    /\ fetching = [f \in Fetchers |-> NoTx] /\ requested = {}
    /\ toSend = {}
    /\ cleaning = FALSE /\ pending = {}
    /\ sent = [t \in Txs |-> 0]

\* All steps but the deliveries, which come through the gate or the API.
MempoolNext ==
    \/ \E t \in Txs : \/ RemoveTransaction(t) \/ HandleTxResponse(t)
                      \/ SkipKnown(t) \/ SendUnknown(t)
                      \/ \E f \in Fetchers : Announce(f, t)
    \/ \E f \in Fetchers : FoundPending(f) \/ Request(f) \/ Fetched(f) \/ FetchFails(f)
    \/ PerformSync \/ StartCleanup \/ CleanupOldKnownTxs

\* The cleanup ticker of main fires every minute, and the cleanup ends.
MempoolFairness ==
    /\ WF_mempool(StartCleanup) /\ WF_mempool(CleanupOldKnownTxs)
    /\ \A f \in Fetchers : WF_mempool(FoundPending(f) \/ Request(f))
                           /\ WF_mempool(Fetched(f) \/ FetchFails(f))

-----------------------------------------------------------------------------
(* Properties.                                                             *)

MempoolTypeOK ==
    /\ pool \subseteq Txs /\ known \subseteq Txs
    /\ fetching \in [Fetchers -> Txs \cup {NoTx}]
    /\ requested \subseteq {f \in Fetchers : fetching[f] # NoTx}
    /\ toSend \subseteq Txs /\ cleaning \in BOOLEAN /\ pending \subseteq Txs
    /\ sent \in [Txs -> Nat]

\* performSync passes a transaction on at most once while it stays pending, even if the
\* cleanup runs on a list of pending transactions that is out of date.
OncePerStay == \A t \in Txs : sent[t] <= 1

\* A transaction that was announced and could not be fetched does not stay known for
\* ever: it comes by another way, or a later announcement is listened to again.
FailedFetchForgotten ==
    \A t \in Txs : (t \in known \ pool) ~> (t \in pool \/ t \notin known)
=============================================================================
