-------------------------------- MODULE Chain --------------------------------
(***************************************************************************)
(* The block store (pkg/blockchain/blockchain.go), the fork resolver that  *)
(* receives blocks from peers (fork_resolver.go, wired in cmd/rnr/main.go  *)
(* as the P2P block handler) and the validator's own pipeline              *)
(* ProposeBlock -> VoteOnBlock -> finalizeBlock (validator_service.go).    *)
(*                                                                         *)
(* Blocks form a fixed tree: Parent[b] is the block whose hash is          *)
(* b.Header.PrevBlockHash, and hashes are injective.  ProposeBlock numbers *)
(* an own block one above its parent; a peer's block carries whatever      *)
(* number its header has, which the path from the stream to AddBlock never *)
(* looks at.  Every access to the store takes bc.mu, so AddBlock is one    *)
(* action; its two Puts can fail, or be cut by a crash, between them.      *)
(* VerifyBlock and AddBlock are separate critical sections, so peers'      *)
(* blocks arrive between the steps of the pipeline; and the fork resolver, *)
(* one block at a time under fr.mu, reads the tip in one section and calls *)
(* AddBlock in another, so own blocks arrive between its steps.            *)
(*                                                                         *)
(* getMainChainInfo calls calculateChainWork(nil, tip), which reads        *)
(* from.Header: every path of HandleCompetingBlock that reaches it panics. *)
(* The handler runs in a libp2p stream goroutine without a recover, so the *)
(* process stops; shouldReorg and reorganize are never entered, and        *)
(* candidateChains, filled just before, is lost with the process.          *)
(***************************************************************************)
EXTENDS Integers, FiniteSets

CONSTANTS
    Blocks,       \* every block that can exist, genesis included
    Genesis,      \* createGenesisBlock()
    OwnBlocks,    \* the ones this validator proposes
    Parent,       \* Parent[b] for b # Genesis
    Height,       \* Header.Height
    PoBWeight,    \* Header.PoBWeight
    MaxFaults,    \* bound on crashes and on failing writes, together
    None          \* no block

ASSUME TreeAssumption ==
    /\ Genesis \in Blocks /\ None \notin Blocks
    /\ OwnBlocks \subseteq Blocks \ {Genesis}
    /\ Parent \in [Blocks \ {Genesis} -> Blocks]
    /\ Height \in [Blocks -> Nat]
    /\ Height[Genesis] = 0
    /\ \A b \in OwnBlocks : Height[b] = Height[Parent[b]] + 1
    /\ PoBWeight \in [Blocks -> Nat]
    /\ MaxFaults \in Nat

\* The heights of blocks, and those below them.
Heights == UNION {0..Height[b] : b \in Blocks}

\* A block and its ancestors.
Line[b \in Blocks] == {b} \cup IF b = Genesis THEN {} ELSE Line[Parent[b]]

VARIABLES
    store,        \* "block_<h>" keys of LevelDB
    diskTip,      \* "current_block" key
    orphans,      \* "orphan_<hash>" keys
    applied,      \* blocks whose transactions and rewards reached State
    tip,          \* bc.currentBlock
    up,           \* the process runs
    stage,        \* where the validator's pipeline is
    own,          \* the block it works on
    incoming,     \* the block HandleCompetingBlock works on, or None
    mainTip,      \* the tip it has read
    proposed,     \* own blocks already made (a timestamp makes each one unique)
    faults,       \* crashes and failed writes so far
    torn,         \* history: an interrupted AddBlock replaced a block below the tip
    overtaken,    \* history: a peer's block was added after mainTip had been replaced
    misnumbered   \* history: a peer's block was added whose number does not follow mainTip's

disk == <<store, diskTip, orphans, applied>>
pipeline == <<stage, own, proposed>>
handler == <<incoming, mainTip>>
history == <<torn, overtaken, misnumbered>>
vars == <<disk, tip, up, pipeline, handler, faults, history>>

Stages == {"idle", "proposed", "verified", "added"}

-----------------------------------------------------------------------------
(* Mutants.                                                                *)

ExtendsByHeight(b, t) == b # Genesis /\ Height[b] = Height[t] + 1

StoredOneAbove(b) == [store EXCEPT ![Height[b] + (IF Height[b] + 1 \in Heights THEN 1 ELSE 0)] = b]

-----------------------------------------------------------------------------
\* The test with which HandleCompetingBlock takes a block as the successor of the tip t
\* it has read: the parent hash and nothing else.
Extends(b, t) == b # Genesis /\ Parent[b] = t

\* VerifyBlock, for own blocks only: the height, then the parent hash.
Verifies(b, t) == b # Genesis /\ Height[b] = Height[t] + 1 /\ Parent[b] = t

\* AddBlock's first Put.
Stored(b) == [store EXCEPT ![Height[b]] = b]

\* The outcomes of AddBlock: both Puts succeed; the first fails; the second fails;
\* the process stops between the two.  No test is made on the block itself.
AddBlockOk(b) ==
    /\ store' = Stored(b)
    /\ diskTip' = b
    /\ tip' = b
    /\ UNCHANGED <<faults, torn>>

AddBlockFirstPutFails ==
    /\ faults < MaxFaults /\ faults' = faults + 1
    /\ UNCHANGED <<store, diskTip, tip, torn>>

AddBlockSecondPutFails(b) ==
    /\ faults < MaxFaults /\ faults' = faults + 1
    /\ store' = Stored(b)
    /\ torn' = (torn \/ Height[b] <= Height[diskTip])
    /\ UNCHANGED <<diskTip, tip>>

\* What a stopped process leaves: the disk.  NewBlockchain will read diskTip.
ProcessStops ==
    /\ up' = FALSE
    /\ stage' = "idle"
    /\ own' = None
    /\ incoming' = None
    /\ mainTip' = None
    /\ UNCHANGED proposed

AddBlockCut(b) ==
    /\ AddBlockSecondPutFails(b)
    /\ ProcessStops

-----------------------------------------------------------------------------
(* findBlock: from the tip down through the stored heights until one is    *)
(* missing.  (Candidate chains are never there to be searched.)            *)
KnownBlocks ==
    {tip} \cup {store[k] : k \in {k \in Heights : k < Height[tip] /\
                 \A j \in Heights : j >= k /\ j < Height[tip] => store[j] # None}}

(* HandleCompetingBlock: a block, possibly one seen before, from a peer.   *)

\* fr.mu is taken and the tip read.
PeerBlockArrives(b) ==
    /\ up /\ incoming = None /\ b # Genesis
    /\ incoming' = b /\ mainTip' = tip
    /\ UNCHANGED <<disk, tip, up, pipeline, faults, history>>

HandlerDone == incoming' = None /\ mainTip' = None

\* It extends the tip that was read: AddBlock, whatever the tip is now and whatever number
\* the block has.
PeerBlockExtends ==
    /\ up /\ incoming # None /\ Extends(incoming, mainTip)
    /\ \/ /\ AddBlockOk(incoming) \/ AddBlockFirstPutFails \/ AddBlockSecondPutFails(incoming)
          /\ HandlerDone
          /\ UNCHANGED <<up, pipeline>>
       \/ AddBlockCut(incoming)
    /\ overtaken' = (overtaken \/ mainTip # tip)
    /\ misnumbered' = (misnumbered \/ Height[incoming] # Height[mainTip] + 1)
    /\ UNCHANGED <<orphans, applied>>

\* Its parent is known: a candidate chain is recorded, getMainChainInfo panics.
PeerBlockForks ==
    /\ up /\ incoming # None /\ ~Extends(incoming, mainTip)
    /\ Parent[incoming] \in KnownBlocks
    /\ ProcessStops
    /\ UNCHANGED <<disk, tip, faults, history>>

\* Its parent is not known: saveOrphanBlock.
PeerBlockOrphan ==
    /\ up /\ incoming # None /\ ~Extends(incoming, mainTip)
    /\ Parent[incoming] \notin KnownBlocks
    /\ orphans' = orphans \cup {incoming}
    /\ HandlerDone
    /\ UNCHANGED <<store, diskTip, applied, tip, up, pipeline, faults, history>>

-----------------------------------------------------------------------------
(* The validator's pipeline, one block at a time.                          *)

\* ProposeBlock builds on GetLatestBlock() and numbers the block one above it; main
\* broadcasts the block before it is voted on.
ProposeBlock(b) ==
    /\ up /\ stage = "idle"
    /\ b \notin proposed /\ Parent[b] = tip
    /\ stage' = "proposed" /\ own' = b /\ proposed' = proposed \cup {b}
    /\ UNCHANGED <<disk, tip, up, handler, faults, history>>

\* VoteOnBlock: validateBlock calls VerifyBlock first and may still reject later
\* (PoH, Merkle root, new addresses, VRF); then the vote and CheckFinality.
VoteOnBlock ==
    /\ up /\ stage = "proposed"
    /\ \/ Verifies(own, tip) /\ stage' = "verified" /\ UNCHANGED own
       \/ stage' = "idle" /\ own' = None
    /\ UNCHANGED <<disk, tip, up, proposed, handler, faults, history>>

\* Mutant: the error of AddBlock is not returned.
FinalizeAddGoesOn ==
    /\ up /\ stage = "verified"
    /\ AddBlockOk(own) \/ AddBlockFirstPutFails
    /\ stage' = "added"
    /\ UNCHANGED <<up, own, proposed, handler, orphans, applied, overtaken, misnumbered>>

\* finalizeBlock's AddBlock, on whatever the tip has become; an error ends it and
\* VoteOnBlock ignores the error.
FinalizeAdd ==
    /\ up /\ stage = "verified"
    /\ \/ /\ AddBlockOk(own)
          /\ stage' = "added"
          /\ UNCHANGED <<up, own, proposed, handler>>
       \/ /\ AddBlockFirstPutFails \/ AddBlockSecondPutFails(own)
          /\ stage' = "idle" /\ own' = None
          /\ UNCHANGED <<up, proposed, handler>>
       \/ AddBlockCut(own)
    /\ UNCHANGED <<orphans, applied, overtaken, misnumbered>>

\* ... then applyTransaction for each transaction and distributeBlockRewards.
FinalizeApply ==
    /\ up /\ stage = "added"
    /\ applied' = applied \cup {own}
    /\ stage' = "idle" /\ own' = None
    /\ UNCHANGED <<store, diskTip, orphans, tip, up, proposed, handler, faults, history>>

-----------------------------------------------------------------------------
Crash ==
    /\ up /\ faults < MaxFaults
    /\ faults' = faults + 1
    /\ ProcessStops
    /\ UNCHANGED <<disk, tip, history>>

\* NewBlockchain: the tip is read back; the genesis block is never given a
\* "block_0" key.
Restart ==
    /\ ~up
    /\ up' = TRUE
    /\ tip' = diskTip
    /\ UNCHANGED <<disk, pipeline, handler, faults, history>>

Init ==
    /\ store = [k \in Heights |-> None]
    /\ diskTip = Genesis
    /\ orphans = {}
    /\ applied = {}
    /\ tip = Genesis
    /\ up = TRUE
    /\ stage = "idle"
    /\ own = None
    /\ proposed = {}
    /\ incoming = None
    /\ mainTip = None
    /\ faults = 0
    /\ torn = FALSE
    /\ overtaken = FALSE
    /\ misnumbered = FALSE

\* The blocks a peer can send: whatever it builds on blocks it has seen, and an own block
\* can be seen once it was proposed.
Sendable == {b \in Blocks : Line[b] \cap OwnBlocks \subseteq proposed}

Next ==
    \/ \E b \in Sendable : PeerBlockArrives(b)
    \/ PeerBlockExtends
    \/ PeerBlockForks
    \/ PeerBlockOrphan
    \/ \E b \in OwnBlocks : ProposeBlock(b)
    \/ VoteOnBlock
    \/ FinalizeAdd
    \/ FinalizeApply
    \/ Crash
    \/ Restart

Spec == Init /\ [][Next]_vars

-----------------------------------------------------------------------------
(* Properties.                                                             *)

TypeOK ==
    /\ store \in [Heights -> Blocks \cup {None}]
    /\ \A k \in Heights : store[k] # None => Height[store[k]] = k
    /\ diskTip \in Blocks
    /\ orphans \subseteq Blocks
    /\ applied \subseteq OwnBlocks
    /\ tip \in Blocks
    /\ up \in BOOLEAN
    /\ stage \in Stages
    /\ own \in OwnBlocks \cup {None}
    /\ proposed \subseteq OwnBlocks
    /\ incoming \in (Blocks \ {Genesis}) \cup {None}
    /\ mainTip \in Blocks \cup {None}
    /\ faults \in Nat
    /\ torn \in BOOLEAN
    /\ overtaken \in BOOLEAN
    /\ misnumbered \in BOOLEAN

\* The chain a reader walks from current_block down (GetTransactionByID,
\* GetTransactionHistory, findBlock go by height) has no gap above genesis, ends in the
\* stored tip and is linked by parent hashes, although AddBlock tests nothing and own blocks
\* are added long after VerifyBlock accepted them.  Only three things break it: a peer's
\* block whose number does not follow the tip's, which nothing refuses; and, for the links
\* alone, an AddBlock of a stale own block interrupted between its Puts, and a peer's block
\* added after the tip that HandleCompetingBlock had read was replaced.
ChainLinked ==
    /\ up => tip = diskTip
    /\ ~misnumbered =>
         \A k \in Heights \ {0} : k <= Height[diskTip] => store[k] # None
    /\ ~misnumbered /\ ~torn /\ ~overtaken =>
         \A k \in Heights \ {0} : k <= Height[diskTip] =>
             /\ k = Height[diskTip] => store[k] = diskTip
             /\ Parent[store[k]] = IF k = 1 THEN Genesis ELSE store[k - 1]

\* A block whose transactions were applied to State (finalizeBlock) stays on the stored
\* chain at its height: neither a later own block, verified before and added after
\* other blocks arrived, nor a peer's block replaces it, unless a peer's block was
\* misnumbered or the tip moved between HandleCompetingBlock's reading it and its AddBlock.
AppliedStays ==
    ~misnumbered /\ ~overtaken =>
        \A b \in applied : store[Height[b]] = b /\ Height[b] <= Height[diskTip]

\* A stored tip only moves to a child of a block of the stored chain: it may go back
\* (a stale own block is added behind peers' blocks) but never off the chain, with the
\* exceptions of ChainLinked.
TipMovesOnChain ==
    [][~torn /\ ~overtaken' /\ ~misnumbered' /\ diskTip' # diskTip =>
         Parent[diskTip'] \in {Genesis, diskTip} \cup
             {store[k] : k \in {k \in Heights : k <= Height[diskTip]}}]_vars

\* Cumulative PoB weight of the chain that ends in b (calculateChainWork).
ChainWork[b \in Blocks] ==
    (IF PoBWeight[b] > 0 THEN PoBWeight[b] ELSE 1) +
    (IF b = Genesis THEN 0 ELSE ChainWork[Parent[b]])

\* "Fork resolution priority: 1. Bobot PoB Kumulatif Tertinggi" (fork_resolver.go:86):
\* a peer's block on a stored block below the tip, with more cumulative weight than the
\* tip, becomes the tip.
HeavierForkAdopted ==
    [][PeerBlockForks /\ mainTip = tip /\ ~misnumbered /\ Parent[incoming] # Genesis /\
         ChainWork[incoming] > ChainWork[tip] => tip' = incoming]_vars
=============================================================================
