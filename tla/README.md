# TLA+ models of Route N Root (rnr)

Route N Root is a Proof-of-Bandwidth blockchain node written in Go (`rnr/`): validators are
tested for bandwidth, take turns proposing blocks, vote on them, and the node stores blocks,
validator records and votes in LevelDB. This directory holds TLA+ modules for the parts of the
node that carry its state, TLC configurations that check them on small instances, and TLAPS
proofs of their main properties for every size of instance.

Source paths below are relative to `rnr/`.

## 1. Inventory

### Components, their state and operations

| Component (source) | State | Operations that change it | What makes it correct |
|---|---|---|---|
| Voting manager (`pkg/consensus/voting.go`, `vote_replay_protection.go`) | `sessions`, `processedVotes`, `vote_<id>` records | `StartVotingSession`, `CastVote`, `CheckFinality` (read), `MarkVoteProcessed`, `CleanupOldSessions`, `CleanupOldVotes`, `LoadProcessedVotes` | a vote counts once; a final block had its quorum; a closed session is closed |
| Finality tracker (`voting.go`) | `finalizedBlocks` | `MarkFinalized` | only quorum-backed blocks |
| Block store (`pkg/blockchain/blockchain.go`) | `block_<h>`, `current_block`, `currentBlock` | `AddBlock`, `NewBlockchain` | the stored heights are one linked chain |
| Fork resolver (`pkg/blockchain/fork_resolver.go`) | `candidateChains`, `orphan_<hash>` | `HandleCompetingBlock`, `reorganize`, `CleanupOldForks` | the heaviest known chain is adopted; peers' blocks continue the stored chain |
| Validator service (`pkg/consensus/validator_service.go`) | position in the pipeline, PoB scores | `ProposeBlock`, `VoteOnBlock`, `finalizeBlock`, `RunPoBTest` | applied blocks stay on the chain; who is selected can win; a standing chain has a reason |
| Checkpoint manager (`pkg/consensus/checkpoint.go`) | `checkpoints`, `finalizedHeight`, their records | `CreateCheckpoint`, `FinalizeCheckpoint`, `CleanupOldCheckpoints`, load | finality rests on a kept checkpoint and survives a restart |
| State pruner (`pkg/blockchain/state_pruner.go`) | position in the scan | `PruneOldBlocks`, `PerformMaintenance` | only final history is deleted |
| Validator registry (`pkg/consensus/validator_registry.go`) | `validators` (memory), State's `ValidatorInfo` and accounts | `RegisterValidator`, `ActivatePendingValidators`, `RequestExit`, `ProcessExits`, `SuspendValidator`, `ClearSuspension` | both stores tell the same story |
| Slashing manager (`pkg/consensus/slashing.go`) | `events`, `doubleVoteTracker`, `slashing_*` records | detection, `slashValidator`, sweep, cleanup, load | suspensions are served, and end |
| Mempool (`pkg/blockchain/mempool.go`) and the ledger part of the validator service | queue of transactions; accounts in State | `AddTransaction`, `RemoveTransaction`, selection, `applyTransaction`, `distributeBlockRewards` | nothing is applied twice, value is conserved, a valid transaction gets its turn |
| Mempool synchronisation (`pkg/mempool/mempool_sync.go`) | `knownTxs` | announcements, requests, responses, `performSync`, `CleanupOldKnownTxs` | passed on once; a failed request is repeated |
| Atomic state transactions (`pkg/blockchain/atomic_state.go`) | staged accounts of a call, LevelDB batch | `ApplyTransactionAtomic`, `Commit`, `Rollback` | the database changes by whole transfers |
| Chain synchronisation (`pkg/sync/sync_manager.go`) | `syncStatus`, `currentHeight`, `targetHeight` | `StartSync`, requests, `ProcessBlockResponse`, `CheckIfBehind` | the tip has its ancestors; syncing ends |
| P2P node (`pkg/network/p2p.go`, `vrf_broadcast.go`) | streams under way | the stream handlers | nothing passes the gate unchecked |
| P2P authentication (`p2p_auth.go`, `p2p_auth_protocol.go`) | challenges, authenticated peers | issue, verify, expire, revoke | one challenge lets in one peer, once |
| P2P rate limiting (`p2p_ratelimit.go`) | tokens, byte counts, violations, bans | `AllowRequest`, `AllowBytes`, cleanup | rates and bans hold |
| PoB speed tests (`pob_testing.go`, `pob_speedtest*.go`, `RunPoBTest`) | sessions, results, TCP exchange | start, exchange, report, wait, aggregate | tests end; what is measured was earned |
| PoB retargeting, VRF selection (`pob_retarget.go`, `vrf_secure.go`, `vrf_verification.go`) | window of validator counts, thresholds | record, adjust; select, verify | bounds; one winner for each VRF value |
| Resilience (`pkg/utils/errors.go`, `shutdown.go`) | circuit breaker, task count, hooks | `Call`, `RetryWithBackoff`, `RecoverFromPanic`, `InitiateShutdown` | the breaker closes again; a shutdown ends |
| Node main (`cmd/rnr/main.go`) | tickers, handlers | wires everything; block production | see interactions |
| Gossip protocol, IP reputation and tracking, byzantine detection, anti-DRDoS, governance, partition detector, concurrent validation, PoB verification, Proof of History, zk proofs, wallet, genesis, metrics, HTTP API | | | section 6 |

`blockchain.State` (accounts and `ValidatorInfo`), LevelDB, libp2p and the VRF library are not in
the repository; they are modelled by what the code here needs of them and marked external.

### Interactions

* `main.go` runs a block-production loop that calls `ProposeBlock`, inside a circuit breaker inside
  a retry, and `VoteOnBlock`; `VoteOnBlock` calls `finalizeBlock`, which writes the store, the
  mempool, State, the finality tracker and the retarget window, one after the other.
* The P2P block handler calls `HandleCompetingBlock` from libp2p stream goroutines: the same
  store, concurrently. The vote handler only logs. The transaction handler feeds
  `MempoolSync`, and so does the HTTP API through the mempool.
* The chain synchroniser adds blocks to the same store, under a lock of its own.
* Tickers run `ActivatePendingValidators` and `ProcessExits` (30 s),
  `CheckAndClearExpiredSuspensions` and the cleanups (1 min) and `PerformMaintenance` (hourly).
* Nothing in the repository but tests calls `RegisterValidator`, `RequestExit`, the slashing
  detection, `CreateCheckpoint`, `FinalizeCheckpoint`, `CleanupOldSessions`, `CleanupOldVotes`,
  `MarkVoteProcessed`, `ApplyTransactionAtomic`, `StartSync`, `RunPoBTest` and
  `RunP2PSpeedTest`. They are exported operations; the models call them at any time.

### What is hard

Each component has its own mutex, so every operation that crosses two of them is
check-then-act: verify then add, read the finalized height then delete, list the expired
suspensions then clear them, get a validator record then update it, list the pending transactions
then forget the others, take a token then read the stream. Most state has a copy on disk
that is written after memory and whose errors are logged or ignored; several writes that belong
together are separate `Put`s or `UpdateAccount`s. Transactions are checked one by one when they are
selected and applied unchecked when the block is final. Finality is looked at once. Timers race
what they wait for: the breaker's timeout against retries, a test's deadline against results, the
grace period against tasks. The list `hazards` in `PROJECT.json` gives the line of each.

## 2. Modules

| Module | Models | Composed of |
|---|---|---|
| `Voting` | voting manager, replay protection, finality tracker as `VoteOnBlock` drives it | - |
| `Chain` | block store, `HandleCompetingBlock`, pipeline `ProposeBlock` - `VoteOnBlock` - `finalizeBlock` | three components on one store |
| `Proposer` | selection, VRF value and its check, quorum, retargeting | pipeline and validator records |
| `Ledger` | mempool, selection of transactions, their application, rewards | mempool, pipeline, State |
| `AtomicState` | `ApplyTransactionAtomic` step by step | implements `Transfers` |
| `Transfers` | what `ApplyTransactionAtomic` promises: one transfer is one step | - |
| `Checkpoint` | checkpoint manager and pruner | two components on one LevelDB |
| `Registry` | registry, slashing manager, the PoB test's write | three writers of one State |
| `Sync` | chain synchroniser and two other writers of the store | three components on one store |
| `PeerGate` | authentication, rate limit and bandwidth of streams | three managers |
| `MempoolSync` | mempool, known transactions, fetching, passing on | - |
| `P2PNode` | streams that carry transactions | `PeerGate`, `MempoolSync` |
| `PoBExchange` | the TCP bandwidth test, tester and candidate | - |
| `PoBTests` | `RunPoBTest`, `RunP2PSpeedTest` | `PoBExchange`, committee, State |
| `Node` | block-production loop, breaker, retries, shutdown | - |
| `MC*` | small instances for TLC | |
| `*Proofs` | theorems: `VotingProofs`, `ChainProofs`, `CheckpointProofs`, `RegistryProofs`, `AtomicStateProofs`, `LedgerProofs`, one component each; `NetworkProofs` about `P2PNode`, `Sync` and `PoBTests`; `ProductionProofs` about `Proposer` and `Node` | |

Correspondence between definitions and source lines is in `PROJECT.json`, `map`. Conventions:

* A method that holds its mutex for the whole body is one action; where the code unlocks, or
  crosses to another component's lock, the operation is split and its position is a variable
  (`voteOn`/`sawFinal`, `stage`/`own`, `incoming`/`mainTip`, `prune`, `clearing`, `pobTest`, `pc`,
  `processing`, `reading`, `fetching`, `cleaning`).
* Memory and disk are separate variables. A failing `Put` or `Delete` is a branch of the action
  with the effect its error handling has; a crash keeps only the disk variables.
* Hashes are injective: a vote id is a pair, a block is its own hash, a challenge answer is what was
  hashed. Signatures verify or do not.
* Time is a clock where deadlines are compared with it, an age or what is left where only the
  difference matters. A step may be delayed for any time.
* History variables (`counted`, `forgotten`, `evidence`, `torn`, `overtaken`, `misnumbered`, `written`,
  `everFinal`, `unsaved`, `raced`, `lost`, `applied`, `siblings`, `minted`, `burned`, `contended`,
  `overwritten`, `failed`, `budget`, `sinceBan`, `sent`, `acks`) let properties speak about the past; none is in a guard,
  except `written`, which stands for the heights the rest of the node may add a block at.
* Modules that one proof module extends have different names for the same thing: `Init`, `Next`,
  `Spec`, `TypeOK` and `vars` carry a prefix in `Sync` (`SyncInit` ...), `PoBTests` (`TestsInit` ...) and
  `Node` (`LoopInit` ...).
* Each module that has mutated definitions keeps them in a section of that name; they belong to
  nothing the module specifies.

**Voting.** `sessions[b]` is a `VotingSession` with its vote set, the total it was opened with, the
required votes (`int(total * 0.85)`, at least 1), its start and its finality. `CastVote`'s early
returns are `MayVote` and `sigValid`. `CleanupOldVotes` drops every final session (`IsOld`); its two
arguments are unused in the code and absent here. `Crash` empties memory;
`LoadVote`/`MigratePut`/`LoadDone` are `LoadProcessedVotes` record by record, with the migration of
records stored under an old id (`Delete`, then `Put`, neither checked). `ChangeValidator` is the
rest of the node changing the active set.

**Chain.** Blocks form a fixed tree, given as constants. `ProposeBlock` numbers own blocks one above
their parents; a peer's block has whatever height its header says, and a peer can build on
anything it has seen: own blocks once they were proposed, because `main` broadcasts them before the
vote (`Sendable`). `HandleCompetingBlock` takes for the next block whatever has the tip's
hash as its parent hash (`Extends`); only own blocks pass `VerifyBlock` (`Verifies`).
`AddBlock` tests nothing about the block; its outcomes are `AddBlockOk`, `AddBlockFirstPutFails`, `AddBlockSecondPutFails` and
`AddBlockCut`. `HandleCompetingBlock` is `PeerBlockArrives` (takes `fr.mu`, reads the tip), then
`PeerBlockExtends`, `PeerBlockForks` or `PeerBlockOrphan`. `PeerBlockForks` stops the process:
`getMainChainInfo` calls `calculateChainWork(nil, tip)`, which reads a field of its nil argument,
and stream handlers have no recover. So `shouldReorg` and `reorganize` are never entered, and
`candidateChains` is always empty when a block arrives.

**Proposer.** Where `Chain` asks what becomes of a block, `Proposer` asks whose it is and whether it
is accepted. `PoBWeightedSelectProposer` is translated with its search for the
lowest weighted hash, which starts at 0 (`LowestAtStart`), below every hash; the hashes are
arbitrary. `Listed` is the loop that appends those it wants of State's list,
`Cumulative` the running sum of their scores, and `InRange` the share of the VRF's range that
`VerifyVRFProposerSelection` gives each validator. The VRF value of a height is drawn when it is
first needed and then fixed, because the VRF is a function of key and height. `AdjustDifficulty`
computes with integers, rounded down (tenths of MB/s, milliseconds, per cent of loss), where the
code has floats. `Valid` has the refusals of `validateBlock` that an own block can meet: its parent is no longer
the tip (`onTip`), it has too many new addresses (`crowded`), or the VRF check fails; and
`FinalizeFails` is an error of `AddBlock`, met while the database refuses writes (`full`).

**Ledger.** `accounts` is what `UpdateAccount` stored. Whether two calls of `GetAccount` for one
address return one object or two copies is unknown (`State` has no source), so `shared` is chosen
at the start; it matters for a transfer to oneself. `ApplyFirst` and `ApplySecond` are the two
`UpdateAccount` calls of `applyTransaction`, and `RewardProposer` and `RewardContributor` those of
`distributeBlockRewards`, one each; a crash can come between any two. Amounts and fees are integers of any
sign, because nothing tests it. `VoteInVain` stands for all that ends a proposal without a final
block: a refusal of `validateBlock`, no quorum after the own vote, an error of `AddBlock`; what
causes it is the subject of `Proposer`. `Restart` sets the validator's account to a new one, as `main`
does at every start (`main.go:341-346`).

**AtomicState, Transfers.** A call of `ApplyTransactionAtomic` is `ReadSender`, `StageUpdates`,
`CommitWrite` (or `CommitFails`) and `CommitMemory`, and other calls run in between, on the same accounts as
well: `contended` remembers the accounts that two calls were at work on at once. `Transfers` is the
promise of the comments at lines 12-13 and 108-109 with the two exceptions the code makes necessary: what happens to
accounts of which nothing is promised (`loose`), and `SelfTransfer`, which adds the amount to the
account and keeps its nonce. The database implements it
(`Abstract == INSTANCE Transfers WITH book <- db, loose <- contended`).

**Sync.** The peers follow one chain, so a block of theirs is its height. `ProcessBlockResponse`
holds `sm.mu` throughout, but verifies and adds each block in two critical sections of the store:
`processing` and `verified` are its position. `Writers` are the producer, whose blocks are not on the
peers' chain, and the gossip handler, whose blocks may be, and may have any height if they are not. A block
takes the key of its height from the one that had it (`Puts`; `overwritten` remembers where a block of the
peers' chain was replaced), and the first or the second Put of any `AddBlock` may fail
(`StoreFails`). A request may be lost; a response may come late, twice, short, or for an older target.

**PeerGate, MempoolSync, P2PNode.** A stream is let in by authentication and a token, then reads
(`reading[s]`), then meets the bandwidth limit; the three managers' state may change in between.
`PeerGate` keeps both sides of a handshake; a response hashes what it was computed from, and
this code's (`CodeSolution`) the verifier's ID instead of its own. `P2PNode` extends both modules and joins
them: a stream that passes delivers an announcement, a transaction or a request.

**PoBExchange, PoBTests.** A TCP connection is bytes in order, without boundaries: `inbox` holds the
lengths of the messages under way, and a read takes of the first only or of all that has come, up to
its buffer (`AfterRead`). The candidate tells PING from
payload by reading four bytes and drops them if they are payload (`pob_testing.go:350`). `PoBTests`
adds the goroutines, the 35 s sleep, the committee with its deadline and the aggregations. Two
goroutines in the unguarded map may end the process (`crashed`).

**Node.** `Attempts` is one round of `RetryWithBackoff` around `CircuitBreaker.Call` around
`ProposeBlock`, then `VoteOnBlock` (`VoteReturns`). `healed` turns true once, at any time: from then on proposing
does not fail. `Signal` to `ExitProcess` are `InitiateShutdown`; tasks may never end, and the hooks run
one after the other whatever they return.

**Checkpoint.** `PruneOldBlocks` is `PruneRead` (finalized height, threshold), `PruneOpen` (the
iterator's snapshot), `PruneWrite` (a batch, in byte order of the keys: `KeyRank`) and `PruneDone`.

**Registry.** `reg` is the registry, `info` State's record. `CheckExpired` and `ClearSuspension` are
the sweep, which holds `sm.mu` (so `SweepIdle` guards every slashing action) but takes `vr.mu` anew
for each validator. `PoBGet`/`PoBUpdate` is the unlocked get - modify - update in `RunPoBTest`;
whether `GetValidator` returns a copy is unknown, so the update may write back the old record
or change the current one.

## 3. Runs

| Run | Result | Shows |
|---|---|---|
| `voting` | passes, about 4.06 M states | `ReplayShield`, `NoReplay`: a counted vote is not counted again unless its protection was given up (cleanup, or a restart without a record). `MarkedHasQuorum`: a block marked final had the required number of distinct votes in one session. `ClosedSessionsFrozen`: a final or expired session does not change. |
| `chain` | passes, about 3.2 M states | `ChainLinked`: memory and disk agree on the tip, the stored chain has no gap unless a peer's block was misnumbered, and it is linked by parent hashes, with the exceptions named below. `AppliedStays`: a block applied to State stays. |
| `chain_fork` | violated | `HeavierForkAdopted`: peers' blocks `p1`, `p2` become the chain, then `f2` arrives, a child of `p1` with more weight than `p2`: the process stops and the tip remains. |
| `proposer` | passes, about 0.53 M states | `OneWinner`: every VRF value has exactly one winner, whatever happens to scores and status. `StandstillExplained` (liveness): a chain that stands still for ever is up against one of the listed obstacles. |
| `ledger` | passes, about 125,000 states | `AppliedOnce`: no replay of transactions. `OverdraftExplained`: only two transactions of one sender in one block, or a negative amount, take an account below zero. `ValueConserved`: value comes from rewards and goes to fees and restarts. `PendingResolved` (liveness): if this node goes on proposing and not all its acceptable blocks are voted on in vain (`Served`), a valid transaction is settled unless the head of the queue blocks it for ever. |
| `atomic_state` | passes, about 0.41 M states | `Atomicity`: the database implements `Transfers`. `MemoryFollowsDisk`: memory differs only where a commit is under way or calls overlapped. `TypeOK`: lost updates take no balance below zero. |
| `checkpoint` | passes, about 0.48 M states | `PrunedIsFinal`, `DiskMirrorsMemory`, `FinalityBacked`. |
| `registry` | passes, about 0.83 M states | `StoresAgree`, `SuspensionServed`, and the liveness property `RegisteredReleased`. |
| `sync` | passes, about 2.3 M states | `AncestorsStored`: a tip on the peers' chain has all its ancestors, but for those whose key another block took. `SyncEnds`: only an error leaves a finished synchronisation in `syncing`. |
| `p2p` | passes, about 0.70 M states | `RateHeld`: no more requests than burst and rate allow. `BanHolds`: no stream is let in before the shorter ban is over. `OncePerStay`: a pending transaction is passed on once. `FailedFetchForgotten` (liveness): one that could not be fetched does not stay known. |
| `pob` | passes, about 0.30 M states | `UploadEarned`: what a tester counts as uploaded is at most the ACKs that were sent and two for each PING it lost. `TestsEnd` (liveness): both tests end. |
| `node` | passes, about 0.48 M states | `BreakerRecovers`, `ShutdownEnds` (liveness): the breaker closes again, a shutdown ends. |

Each run also checks its module's type invariant, but `pob`, whose types hold by the shape of
its actions. Beyond types the type invariants bound what could go wrong: only recipients of negative
amounts fall below zero in `AtomicState`, thresholds stay in their bounds in `Proposer`, a closed breaker has
counted fewer failures than would open it in `Node`, a ban's violations are reset in `PeerGate`.

Exceptions inside the passing properties are part of what the runs show. `ChainLinked` and
`AppliedStays` exclude situations each of which TLC reaches: `misnumbered`, a peer's child of the tip
with a height that does not follow the tip's, which nothing refuses and which opens a gap or replaces a
block; `overtaken`, a peer's block added after the tip that `HandleCompetingBlock` read had been replaced by
an own block; and, for the links alone, `torn`, an `AddBlock` of a stale own block interrupted
between its Puts. `AncestorsStored` excludes ancestors whose key another writer's block took
(`overwritten`). `MemoryFollowsDisk` and `Atomicity` exclude accounts that two calls worked on at once.
`StoresAgree` excludes validators whose registration a
restart lost (the registry is not persisted) or whose record a PoB test wrote back stale.
`AppliedOnce` excludes transfers to oneself when `GetAccount` makes copies (the second store puts the
old nonce back) and the validator's own transactions (a restart resets its nonce).

### Bounds

* `voting`: 3 validators (one joins, leaves, is suspended and restored), 1 block, clock 0..2 with a
  voting phase of 1, 2 crashes, one legacy record. The active set ranges over all sets with the
  own validator, so required votes of 1 (for 1 and for 2 validators) and of 2 (for 3) occur; a
  session can be reopened after cleanup and after each of two crashes. Nothing in the manager relates two blocks.
* `chain`: 9 blocks up to height 3: a peers' chain, a heavier fork, own blocks on genesis, on an own
  block and on a peer's block, and two misnumbered peers' blocks, one too high (height 3 on height 1)
  and one too low (height 1 on an own block of height 1); 2 faults (crashes or failed Puts).
  Own blocks can be proposed, overtaken by peers' blocks and still be added.
* `proposer`: this node and two others, one of any status at the start and one
  active or not; this node first or second in State's order; scores of 0, 0.4 (below the least sufficient
  score) and 1.0; 3 VRF values, which tell halves and thirds of the range apart; heights to 2, but peers' blocks may lower
  the height, so that any number of retarget windows of 2 follow; one change of a record, of the waiting
  transactions or of the disk, and one restart. Only the
  block under way remembers an earlier record, so that one change meets every step.
* `ledger`: 5 addresses (two from genesis, the validator, two new), 5 transactions of which two
  share sender and nonce and together cost more than the sender has, one is a transfer to oneself, one
  fills a block alone and one has a negative amount and a negative fee; capacity 3; one new address per block; 3 submissions (so a transaction
  can be sent again after it was applied) and 1 restart; the reward falls at height 2.
* `atomic_state`: 2 calls at a time, 4 accounts, 6 transfers: two compete for one nonce, others can be
  paid only with money or a nonce that came before, one is a transfer to oneself and one takes a negative amount
  from an account that has nothing. Balances stay within 3 of zero. Failing batches and restarts are not bounded.
* `checkpoint`: heights 1..9, checkpoint every 3, retention 4, batches of 2, keep 1, 2 faults.
  Digits are in base 4, so that keys of one and two digits mix in byte order. A scan has two full
  batches (finality at 9) or a partial one (at 6), and finality can move down from 9 to 3 or 6.
* `registry`: a genesis validator and one that registers; clock 0..3, observer time of 1
  or 2 ticks, suspensions of 0 or 1, 2 slashings, 1 restart. The balance of 3 pays two registrations
  and not always a third, so the fee check decides. Slashings whose end lies beyond the clock bound are not
  generated: the clock stops at `MaxTime` and such a suspension could not end for that reason
  alone.
* `sync`: 3 heights in batches of 2 (a full batch and a short one), `CheckIfBehind` from a lag of 1,
  a producer and a gossip handler. One request at a time is open, and it can be answered any number of times until it
  is lost, so that responses to old targets and repeated ones occur. Failing writes are not bounded.
* `p2p`: one peer with two streams that share its limits, 2 challenges (one may be used, the other outdated),
  bursts of 2 with a refill of 1, bans of 2 ticks and 1 tick, messages below and above the byte
  limit; 1 transaction, 1 fetcher. Limits are per peer and transactions are independent.
* `pob`: one tester over TCP with 2 PINGs and up to 2 chunks of 2 units (one unit is the four
  bytes that the PING phase reads); a committee of 3 out of 3 other validators, of which 2 valid
  results are enough, so that a committee can pass with one missing, fail, or be too small.
* `node`: the ticker and the reset timeout have the same length (5 s here, 30 s in `main.go`), so
  that retries meet the timeout from both sides; 2 attempts, 3 failures open the breaker, 2 trials
  close it; grace of 2 s; one task. `FailuresBound` caps the failure count.

No symmetry is used: validators, accounts, heights and streams play different parts.

Deadlock checking is on but in `proposer`, `pob` and `node`. There the system may stop: the chain
reaches `MaxHeight` or its changes are used up, both tests are over, the process has exited. In the
other passing runs some operation always remains enabled.

### Fairness

| Run | Assumed | Because |
|---|---|---|
| `registry` | `WF` of `Tick`, of `CheckExpired` and of `ClearSuspension` for each validator | time passes; main's one-minute ticker sweeps for ever; a loop under way ends |
| `proposer` | `WF` of `BlockProduction` | main's ticker starts a block whenever the previous one is done |
| `ledger` | `WF` of `HandleProposal` | the goroutine that has proposed a block goes on. That this node is the proposer again and again and that some of its blocks become final is the premise `Served` of the property, which the code does not guarantee |
| `p2p` | `WF` of starting and ending the cleanup, and of each fetcher's check and fetch | a ticker of main calls the cleanup; a goroutine runs and a stream is answered or times out |
| `pob` | `WF` of waking from the 35 s sleep, of the committee's deadline and of both aggregations, unless the process has crashed | timers fire; nothing is assumed of testers or candidate |
| `node` | `WF` of `Second`, `Attempts` and the shutdown's own steps; `SF` of a call of the breaker | time passes; goroutines run; this node is proposer again and again. Nothing is assumed of the tasks, of main, or of when failures stop |

No liveness is stated for block finality itself: the code looks at finality once, right after the
own vote, and main's handler for remote votes only logs, so no fair action would complete a block.
`StandstillExplained` says what follows from that.

## 4. Proofs

Every safety property that a passing run checks, type invariants included, is also a theorem. The
theorems hold for every value of the constants that satisfies the named assumptions of the modules
(`ConstantsAssumption`, `TreeAssumption`, `CheckpointAssumption`, `RegistryAssumption`,
`LedgerAssumption`, `SyncAssumption`, `AtomicAssumption`, `GateAssumption`, `NoneAssumption`, `MempoolAssumption`,
`ProposerAssumption`, `NodeAssumption`, `ExchangeAssumption`): finite sets of validators, accounts and
streams, a block tree in which own blocks are one higher than their parents, numbers where numbers are expected, limits that
are not zero where the code's are not, a chunk longer than the four bytes of a PING, markers
distinct from values.

| Module | Inductive invariant | Why it is stronger | Theorems |
|---|---|---|---|
| `VotingProofs` | `TypeOK /\ ReplayShield /\ FinalityInv` | `MarkedHasQuorum` speaks of blocks already marked; `FinalityInv` carries the quorum from the session through `sawFinal` to the mark | `TypeCorrect`, `ShieldHolds`, `FinalityIsQuorumBacked`, `ReplayPrevented`, `ClosedStayClosed` |
| `ChainProofs` | `TypeOK /\ ChainLinked /\ AppliedStays /\ PipeInv /\ FillInv /\ RootInv` | `PipeInv` says what remains true of a verified block while the tip moves: its parent is still on the chain and nothing applied lies at or above its height; `FillInv` says that both check-then-add handlers write right above heights in use; `RootInv` that no tip but genesis has height 0; all three until a peer's block is misnumbered | `TypeCorrect`, `StoredChainLinked`, `AppliedBlocksStay`, `TipStaysOnChain` |
| `CheckpointProofs` | `TypeOK /\ PruneInv /\ PrunedIsFinal /\ DiskMirrorsMemory /\ FinalityBacked` | `PruneInv`: the threshold and the keys a running scan carries come from a height that was finalized | `TypeCorrect`, `PruningRespectsFinality`, `RestartFindsMemory`, `FinalityKeepsItsCheckpoint` |
| `RegistryProofs` | `TypeOK /\ KnownInv /\ StoresAgree /\ ListInv` | `KnownInv`: State never forgets a validator that is registered, tested or listed; `ListInv`: whoever is on the sweep's list and still suspended has served or was hit by a stale write | `TypeCorrect`, `StoresStayInAgreement`, `SuspensionsAreServed` |
| `AtomicStateProofs` | `TypeOK /\ Disjoint /\ CopiesCurrent /\ CopiesFunded /\ MemoryFollowsDisk` | `CopiesCurrent`: what a call has read and computed is still right relative to the disk when it commits, on accounts that no other call is at work on, which are contended from then on (`Disjoint`); `CopiesFunded`: also a copy that is out of date was taken of an account that had the amount | `TypeCorrect`, `MemoryFollows`, `Implements` |
| `LedgerProofs` | `IInv`: `TypeOK /\ NonceInv /\ BalanceInv /\ PipeInv /\ WaitInv /\ AppliedOnce` | speaks of an account as the credit under way will leave it (`Due`), because a transfer to oneself may put an older nonce back: what was selected still has its nonce and its money when its turn comes, unless a sibling or a negative amount came first | `TypeCorrect`, `NothingAppliedTwice`, `OverdraftsExplained` |
| | `ValueInv`: `ValueConserved /\ CreditInv` on top of it | `CreditInv`: the account that `ApplySecond` will store is the stored one plus what is in flight, unless a transfer to oneself works on two copies, which is the case that `ValueConserved` excludes | `NothingMadeOrDestroyed` |
| `NetworkProofs`, `P2PNode` | `TypeOK /\ ViolationsCounted /\ Covered /\ BanKept` for each peer | `ViolationsCounted`: a ban leaves room for one more violation of every stream let in before it, which bounds the count the type invariant speaks of; `Covered`: what the lazy bucket would hold if it was refilled now is no more than the exact bucket has, also for a peer that was forgotten; `BanKept`: a ban younger than `ShortBan` is remembered and has the rest of it left | `NodeTypes`, `RateNeverExceeded`, `BansAreServed` |
| | `OncePerStay /\ SentKnown` for each transaction | `SentKnown`: what was passed on and is pending is known, and is in the copy that a running cleanup compares with | `SentOncePerStay` |
| `NetworkProofs`, `Sync` | `SyncTypeOK /\ AncestorsStored /\ SyncEnds /\ SyncInv` | `SyncInv`: the parent that a block was verified on may have lost the tip since, but it and all below it have been stored, until the block is added; no write makes `stored \cup overwritten` smaller | `SyncTypes`, `AncestorsAlwaysStored`, `OnlyErrorsLeaveSyncing` |
| `NetworkProofs`, `PoBTests` | `Counters /\ Stage` for each tester | `Stage`: while PINGs are sent each PONG that has not been read is one PING lost (`Pinging`); from then on what is counted and what the messages under way can still be counted as is paid for by ACKs sent and PINGs lost (`Earned`). Messages join and split, so what they can be counted as depends on where PONGs lie: only among the first few (`PongsWithin`), because a candidate that has sent an ACK sends no more PONGs | `UploadsEarned` |
| `ProductionProofs`, `Proposer` | `TypeOK` | `OneWinner` follows from the types: whatever `Eligible` is, it is a list without repetition, its running sums rise from 0 to the weight, and a value lies between exactly two neighbours of them | `TypeCorrect`, `EveryValueHasOneWinner` |
| `ProductionProofs`, `Node` | `LoopTypeOK` and: a half-open breaker has tries left | the third success of three closes the breaker | `LoopTypes` |

`QuorumsMeet` (`VotingProofs`) is about the threshold alone: two quorums of one validator set have a
validator in common unless the set has exactly two members, where `int(2 * 0.85)` is 1.
`TipStaysOnChain` (`ChainProofs`) is an action property without a run: it follows from the
invariant that `chain` checks. `Implements` is the refinement: initial states map to initial states,
and every step of a call, a failure or a restart is a transfer or a stutter of `Transfers`.

Each step lemma has one case per action. Action properties follow from the invariant and the step.

Sums and loops. The value of a fold or of a recursive function over a list is not what the provers
know, and an induction theorem cannot be cited with an operator of ours. Where a theorem is
about such a value the proof takes the least counterexample instead: a non-empty set of numbers has
a least element (`LeastNat`, from the well-foundedness of the naturals), and the least number at which a fact about
the partial sums fails, or a partial function does not exist, cannot be 0 and cannot be a
successor. That is how `LedgerProofs` gets the laws of `SumFunctionOnSet` (the sum of a part, the
sum after one value changed: `SumRemove`, `SumAdd`, `SumChange`, `SumOfPart`) and
`ProductionProofs` those of the loops `Listed` and `Cumulative` (`ListedSteps`, `CumulativeSteps`,
`CumulativeGrows`). `Proposer` states these two as recursive functions, one step per turn of the
loop, because nothing can be derived of `SelectSeq`; for the same reason `AfterRead` of
`PoBExchange` speaks of the first message and of the rest. That a power of two is a number, which the
retry's delay needs, is the cardinality of a set of subsets (`PowerType`).

Only model-checked: every liveness property (`RegisteredReleased`, `PendingResolved`,
`StandstillExplained`, `FailedFetchForgotten`, `TestsEnd`, `BreakerRecovers`, `ShutdownEnds`), because
fairness is outside the prover's reach.

## 5. Disagreements between code and its documentation, and other surprises

Run `chain_fork` shows the first; the others were met while reading the code, and the models
have the code's behaviour.

Chain and consensus:

1. A competing block whose parent is known panics before fork choice (`fork_resolver.go:283`).
2. `IsProposer` selects the first eligible validator of State's list, whatever seed and scores:
   `lowestWeightedHash` starts at 0 and not at the largest hash (`vrf_secure.go:102-105`).
   `consensus_test.go` passes because the validator with the higher score is first.
3. The VRF value is a function of key and height, so a validator whose value is out of its range is
   refused again at every attempt for that height.
4. With three or more active validators the own vote is no quorum and no block is ever final
   (`validator_service.go:245`).
5. `RegisterValidator` replaces the record as a whole and loses the VRF key and the score.
6. The thresholds that retargeting adjusts are read by nobody (`EvaluateWithCurrentThresholds` has no
   caller) and lost at a restart; peers' blocks do not enter its window.
7. `CleanupOldVotes` ignores `currentBlockHeight` and `keepRecentBlocks`
   (`vote_replay_protection.go:49`).
8. `FinalizeCheckpoint` lets finality move down, so the promised retention fails
   (`checkpoint.go:131`).
9. The suspension sweep visits registered validators only (`slashing.go:189`), and
   `loadSlashingEvents` compares eight characters with a nine-character prefix (`slashing.go:71`).
10. A peer's block is taken for the next one if its parent hash is the tip's: neither the stream handler nor
    `HandleCompetingBlock` nor `AddBlock` looks at its height (`fork_resolver.go:42-43`,
    `blockchain.go:86`), so it may open a gap or replace a block that was applied.
11. `GetTotalTransactionCount` starts at a height that is never stored (`blockchain.go:203`).

Transactions:

12. `handleSubmitTx` signs before it sets the ID, so `validateTransaction` refuses every transaction that
    the API answered with success.
13. The whole fee leaves the sender and reaches nobody, though the comment at `validator_service.go:482` says
    that a part of it goes to the proposer.
14. Two transactions of one sender with one nonce pass selection together; the nonce then skips.
15. Nothing tests the sign of an amount or of a fee (`p2p.go:469-479`, `main.go:208-215`,
    `validator_service.go:427-471`, `atomic_state.go:121-127`): a negative amount is taken from its recipient,
    whatever that account has.
16. `atomic_state.go:12-13`, `69-70` and `108-109` promise atomicity. Two overlapping calls of
    `ApplyTransactionAtomic` lose updates, and a transfer to oneself makes money and keeps the
    nonce, because the recipient's copy is staged last (lines 136-149).
17. The mempool evicts nothing: a transaction that does not fit, or a selection with more than 15 new
    addresses, keeps what is behind it waiting for ever. `ProposeBlock` does not limit new addresses, so such a
    node proposes a block that its own `validateBlock` refuses, again and again.
18. Every start stores a new account for the validator (`main.go:341-346`).

Network and tests:

19. A response hashes the verifier's ID instead of the responder's (`p2p_auth_protocol.go:76`): two nodes that run this
    code never authenticate each other. The model lets other implementations answer.
20. A second ban for bytes may shorten a longer one for requests.
21. `p2p.go:420` asserts `[]byte` of a vote's hash, which JSON has made a string: every vote that gets so
    far stops the process.
22. The PING phase of the candidate eats four bytes of payload (`pob_testing.go:350`), though the comment at
    lines 365-366 says "Unread this data": the chunk that is read next looks like the last one, so a payload
    of several chunks ends in an error unless late PONGs pass for ACKs. No property asserts this.
23. `CleanupOldKnownTxs` ignores `maxAge`.
24. The partition detector says partitioned from its first check on, and nobody asks it.

## 6. Not modelled, and why

* Nothing reaches them: byzantine detection, governance, concurrent validation, PoB verification
  (nothing creates or calls them), IP reputation and tracking, the gossip cache and the partition
  detector (created, but no handler reports to them or asks them), the anti-DRDoS challenges (their only users
  have no caller), the health monitor, `network/speedtest.go` and discovery. A model of them would
  have to invent its environment.
* Proof of History, zk proofs, wallet, keystore, hashing, Merkle roots: cryptographic values, with no
  control to check. Metrics and logging: nothing reads them back. HTTP API: decoding and queries,
  except that it submits transactions. Genesis and the state migration tool: one-shot
  construction of files.
* `shouldReorg`, `reorganize`, `CleanupOldForks`: not reachable in the code as it is (see Chain).
* `CanReorg`, statistics and other queries: no state.
* The locks themselves: actions are whole critical sections. Nested read locks
  (`blockchain.go:204`, `checkpoint.go`, `utils/health.go`), which can deadlock with a waiting
  writer, are below that level.
* Floating point: scores and thresholds are scaled integers, so rounding at the borders of the VRF
  ranges is not covered.
* `Proposer` has no deadline of the voting phase: that broadcasting a block may take longer is left out there.
* `UpdateHeight` of the synchroniser, batch and validator updates of `StateTransaction`,
  `ResetPeer`, `BanPeer`, `ConnectToPeer`: setters without a caller.

## 7. Plan

Done: all modules of section 2. Left:

1. Abstract specifications, with the refinement proved step by step as for `Transfers`: of a
   vote count that a restart does not change, and of a bucket that is refilled exactly.
2. A composition of `Voting` and `Proposer`, should remote votes ever be counted, and of `Chain`
   with fork choice, should it become reachable.
3. A module at the level of `sync.RWMutex` for the nested read locks.
