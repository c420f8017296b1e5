--------------------------------- MODULE Sync ---------------------------------
(***************************************************************************)
(* The chain synchroniser (pkg/sync/sync_manager.go) over a block store    *)
(* that the block producer and the gossip handler write as well.           *)
(*                                                                         *)
(* The manager holds sm.mu for a whole ProcessBlockResponse, but for each  *)
(* block VerifyBlock and AddBlock are two critical sections of the store,  *)
(* and AddBlock checks nothing: whatever the other writers store in        *)
(* between, the verified block becomes the tip, and takes the key of its   *)
(* height from the block that had it.                                      *)
(*                                                                         *)
(* The peers follow one chain, whose blocks are known by their heights; a  *)
(* block of this node, or one a peer made up, is not on it.  Of a block    *)
(* the module keeps the height and whether it is on the chain of the       *)
(* peers.  Requests and responses may be lost, delayed, repeated and       *)
(* reordered, and a write of the store may fail.                           *)
(***************************************************************************)
EXTENDS Integers, FiniteSets

CONSTANTS
    MaxHeight,     \* bound on heights
    MaxRequests,   \* bound on the requests that may yet be answered
    BatchSize,     \* argument of CreateBlockRequest
    Lag,           \* 10 in CheckIfBehind
    Writers,       \* other goroutines that store blocks: "own" or "gossip" each
    Kind,
    Nothing

Heights == 0 .. MaxHeight
Blocks == [height : Heights, main : BOOLEAN]
BlockRange == [first : 1 .. MaxHeight + 1, last : Heights]

ASSUME SyncAssumption ==
    /\ MaxHeight \in Nat /\ MaxRequests \in Nat /\ BatchSize \in Nat \ {0} /\ Lag \in Nat
    /\ Kind \in [Writers -> {"own", "gossip"}]
    /\ Nothing \notin Blocks /\ Nothing \notin BlockRange

VARIABLES
    status, current, target,    \* of the SyncManager
    tip,           \* the latest block of the store: height, on the peers' chain or not
    stored,        \* heights, above genesis, at which the store has a block of the peers' chain
    overwritten,   \* history: heights at which such a block has been replaced by one that is not
    peerHeight,    \* what the peers have
    requests,      \* those that may yet be answered
    processing,    \* the response ProcessBlockResponse works on, or Nothing
    verified,      \* VerifyBlock has accepted its first block
    writing,       \* the block another writer has verified, or Nothing
    failed         \* history: the last response ended in an error

store == <<tip, stored, overwritten>>
syncVars == <<status, current, target, store, peerHeight, requests,
          processing, verified, writing, failed>>

Smaller(a, b) == IF a < b THEN a ELSE b

-----------------------------------------------------------------------------
(* Mutants.                                                                *)

VerifyHeightOnly(h) == tip.height = h - 1

NotYetSynced(h) == IF h > target THEN "synced" ELSE status

RequestUncapped == [first |-> current + 1, last |-> current + BatchSize]

-----------------------------------------------------------------------------
(* The store.                                                              *)

\* Block h of the peers' chain passes VerifyBlock: it extends only a block of that chain.
Extends(h) == tip.main /\ tip.height = h - 1

\* The first Put of AddBlock: whatever has the key of the height is replaced.
Puts(b) ==
    /\ stored' = IF b.main THEN stored \cup {b.height} ELSE stored \ {b.height}
    /\ overwritten' = IF b.main THEN overwritten \ {b.height}
                                ELSE overwritten \cup (stored \cap {b.height})

Stores(b) == tip' = b /\ Puts(b)

\* AddBlock returns an error: its first Put failed, or its second.
StoreFails(b) ==
    /\ UNCHANGED tip
    /\ Puts(b) \/ UNCHANGED <<stored, overwritten>>

\* The block the producer builds, on the tip it read.
OwnBlock == [height |-> tip.height + 1, main |-> FALSE]

\* What HandleCompetingBlock takes for a child of the tip: the next block of the peers'
\* chain, or one off it whose parent hash alone is right, its height anything.
GossipBlocks ==
    {b \in Blocks : b.main => Extends(b.height) /\ b.height <= peerHeight}

OtherVerifies(w) ==
    \E b \in IF Kind[w] = "own" THEN Blocks \cap {OwnBlock} ELSE GossipBlocks :
        /\ writing[w] = Nothing
        /\ writing' = [writing EXCEPT ![w] = b]
        /\ UNCHANGED <<status, current, target, store, peerHeight, requests,
                       processing, verified, failed>>

OtherAdds(w) ==
    /\ writing[w] # Nothing
    /\ Stores(writing[w]) \/ StoreFails(writing[w])
    /\ writing' = [writing EXCEPT ![w] = Nothing]
    /\ UNCHANGED <<status, current, target, peerHeight, requests,
                   processing, verified, failed>>

-----------------------------------------------------------------------------
(* The manager.  Each step but those of ProcessBlockResponse needs sm.mu.  *)

Unlocked == processing = Nothing

\* h: the height some peer reports, now or long ago.  The target of an earlier call
\* survives when h is not above the tip.
StartSync(h) ==
    /\ Unlocked
    /\ current' = tip.height
    /\ IF h <= tip.height THEN status' = "synced" /\ target' = target
                          ELSE status' = "syncing" /\ target' = h
    /\ failed' = FALSE
    /\ UNCHANGED <<store, peerHeight, requests, processing, verified, writing>>

CheckIfBehind(h) ==
    /\ Unlocked
    /\ h > current + Lag
    /\ status' = "behind"
    /\ UNCHANGED <<current, target, store, peerHeight, requests,
                   processing, verified, writing, failed>>

BlockRequest == [first |-> current + 1, last |-> Smaller(current + BatchSize, target)]

\* One for an empty range would be refused.
CreateBlockRequest ==
    /\ Unlocked
    /\ BlockRequest.first <= BlockRequest.last
    /\ Cardinality(requests) < MaxRequests
    /\ requests' = requests \cup {BlockRequest}
    /\ UNCHANGED <<status, current, target, store, peerHeight,
                   processing, verified, writing, failed>>

\* No further answer to the request comes.
LoseRequest(r) ==
    /\ requests' = requests \ {r}
    /\ UNCHANGED <<status, current, target, store, peerHeight,
                   processing, verified, writing, failed>>

\* The answer of a peer that has h blocks: none, or an empty one, to a range above h.
HandleBlockRequest(r, h) == IF r.first <= h THEN [r EXCEPT !.last = Smaller(@, h)] ELSE Nothing

\* A request was answered by some peer, at some time, and the answer arrives, perhaps
\* again and perhaps late.
ReceiveResponse(r) ==
    \E h \in 1 .. peerHeight :
        /\ Unlocked
        /\ HandleBlockRequest(r, h) # Nothing
        /\ processing' = HandleBlockRequest(r, h) /\ verified' = FALSE
        /\ UNCHANGED <<status, current, target, store, peerHeight, requests, writing, failed>>

VerifyNext ==
    /\ processing # Nothing /\ ~verified
    /\ Extends(processing.first)
    /\ verified' = TRUE
    /\ UNCHANGED <<status, current, target, store, peerHeight, requests,
                   processing, writing, failed>>

\* Once the loop is through: completed, or not yet.
StatusAt(h) == IF h >= target THEN "synced" ELSE status

AddNext ==
    LET h == processing.first
        done == h = processing.last
    IN  /\ processing # Nothing /\ verified
        /\ Stores([height |-> h, main |-> TRUE])
        /\ current' = h
        /\ verified' = FALSE
        /\ processing' = IF done THEN Nothing ELSE [processing EXCEPT !.first = h + 1]
        /\ status' = IF done THEN StatusAt(h) ELSE status
        /\ failed' = IF done THEN FALSE ELSE failed
        /\ UNCHANGED <<target, peerHeight, requests, writing>>

\* The next block does not verify, or AddBlock fails: the blocks before it stay, and
\* the status is not looked at.
ResponseFails ==
    /\ processing # Nothing
    /\ \/ ~verified /\ ~Extends(processing.first) /\ UNCHANGED store
       \/ verified /\ StoreFails([height |-> processing.first, main |-> TRUE])
    /\ processing' = Nothing /\ verified' = FALSE
    /\ failed' = TRUE
    /\ UNCHANGED <<status, current, target, peerHeight, requests, writing>>

PeersGrow ==
    /\ peerHeight < MaxHeight
    /\ peerHeight' = peerHeight + 1
    /\ UNCHANGED <<status, current, target, store, requests,
                   processing, verified, writing, failed>>

SyncInit ==
    /\ tip = [height |-> 0, main |-> TRUE]
    /\ stored = {} /\ overwritten = {}
    /\ status = "synced" /\ current = 0 /\ target = 0
    /\ peerHeight = 0
    /\ requests = {}
    /\ processing = Nothing /\ verified = FALSE
    /\ writing = [w \in Writers |-> Nothing]
    /\ failed = FALSE

SyncNext ==
    \/ \E w \in Writers : OtherVerifies(w) \/ OtherAdds(w)
    \/ \E h \in 0 .. peerHeight : StartSync(h) \/ CheckIfBehind(h)
    \/ CreateBlockRequest
    \/ \E r \in requests : ReceiveResponse(r) \/ LoseRequest(r)
    \/ VerifyNext \/ AddNext \/ ResponseFails
    \/ PeersGrow

SyncSpec == SyncInit /\ [][SyncNext]_syncVars

-----------------------------------------------------------------------------
(* Properties.                                                             *)

\* Types; no peer is asked for a block above what some peer has reported, and what is
\* stored of the peers' chain is what they have.
SyncTypeOK ==
    /\ status \in {"synced", "syncing", "behind"}
    /\ current \in Heights /\ target \in 0 .. peerHeight /\ peerHeight \in Heights
    /\ tip \in Blocks
    /\ stored \subseteq 1 .. peerHeight /\ overwritten \subseteq 1 .. peerHeight
    /\ requests \subseteq {r \in BlockRange : r.last <= peerHeight}
    /\ processing \in BlockRange \cup {Nothing} /\ verified \in BOOLEAN
    /\ writing \in [Writers -> Blocks \cup {Nothing}]
    /\ failed \in BOOLEAN

\* Whatever the writers interleave, a tip on the peers' chain has all its ancestors in
\* the store, but for those whose key another block took: a block that AddBlock makes the
\* tip unchecked was verified on a stored parent, even if that parent is no longer the
\* tip, or no longer stored.  No failed write loses an ancestor.
AncestorsStored == tip.main => 1 .. tip.height \subseteq stored \cup overwritten

\* A manager that reached its target does not say it is still syncing, unless its last
\* response ended in an error, which skips the test for completion: then only another
\* StartSync ends the synchronisation.
SyncEnds ==
    status = "syncing" /\ Unlocked /\ current >= target => failed
=============================================================================
