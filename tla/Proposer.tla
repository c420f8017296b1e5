-------------------------------- MODULE Proposer --------------------------------
(***************************************************************************)
(* Who proposes, and whether the proposal is accepted: IsProposer with the *)
(* PoB-weighted selection (vrf_secure.go), ProposeBlock with its VRF value,*)
(* the VRF check of validateBlock (vrf_verification.go), the quorum of the *)
(* own vote, and the retargeting that a final block sets off               *)
(* (pob_retarget.go).                                                      *)
(*                                                                         *)
(* One goroutine does this, block by block.  Between its steps peers'      *)
(* blocks move the tip, and the registry, the slashing manager and the PoB *)
(* tests change the validators' records in State.  Only this node's vote   *)
(* counts: main logs the votes of the others.                              *)
(*                                                                         *)
(* Scores are in tenths.  A VRF value is its first byte, scaled to         *)
(* 0 .. Values - 1 for [0, 1): a function of the key of this process and   *)
(* of the height.  State, whose source is not in the repository, is taken  *)
(* to list the active validators in one order.  Thresholds of the PoB test *)
(* are in tenths of MB/s, milliseconds and per cent, rounded down.         *)
(***************************************************************************)
EXTENDS Integers, Sequences, FiniteSets, FiniteSetsExt, SequencesExt

CONSTANTS
    Validators, Self,
    Orders,                 \* in which State may list the validators
    Stored,                 \* what State may hold of their status at the start
    Hashes,                 \* of a seed with a validator's name and key, some naturals
    Scores,                 \* PoB scores, in tenths
    Values,                 \* 256, the number of first bytes
    RetargetWindow,         \* 50 blocks
    TargetMinValidators, TargetMaxValidators,   \* 50 and 500
    MaxHeight, MaxChanges, MaxCrashes           \* bounds

Status == {"inactive", "active", "suspended"}

ASSUME ProposerAssumption ==
    /\ IsFiniteSet(Validators) /\ Self \in Validators
    /\ Orders \subseteq SetToSeqs(Validators)
    /\ Stored \subseteq {f \in [Validators -> Status] : f[Self] = "active"}
    /\ Hashes \subseteq Nat /\ Scores \subseteq 0 .. 10 /\ 10 \in Scores
    /\ {Values, RetargetWindow} \subseteq Nat \ {0}
    /\ {TargetMinValidators, TargetMaxValidators, MaxHeight, MaxChanges, MaxCrashes} \subseteq Nat

Sufficient == 5      \* PoBScore >= 0.5 of VerifyVRFProposerSelection
MinPoBScore == 9     \* 0.85 of the registry, in tenths rounded up

VARIABLES
    order,       \* State's order of the validators
    status,      \* [Validators -> inactive, active, or active and suspended]
    score,       \* [Validators -> PoBScore]
    keyStored,   \* the record of this node holds the VRF key of this process
    height,      \* of the latest block
    value,       \* [height -> VRF value] under the key of this process, once computed
    pc, block,   \* where block production is, and the block it has proposed
    counts,      \* validatorHistory, the rolling window
    thresholds,  \* currentThresholds
    crowded,     \* what ProposeBlock would select names too many new addresses
    full,        \* the database refuses writes
    changes, crashes

records == <<order, status, score, keyStored>>
production == <<pc, block>>
retarget == <<counts, thresholds>>
hindrances == <<crowded, full>>
vars == <<records, height, value, production, retarget, hindrances, changes, crashes>>

\* The loop over State's list that appends those of S.
Listed(S) ==
    LET upto[k \in 0 .. Len(order)] ==
            IF k = 0 THEN <<>>
            ELSE IF order[k] \in S THEN Append(upto[k - 1], order[k]) ELSE upto[k - 1]
    IN  upto[Len(order)]

ActiveValidators == Listed({v \in Validators : status[v] # "inactive"})
Eligible == Listed({v \in Validators : status[v] = "active"})

\* cumulativeWeight after each validator of a list.
Cumulative(list) ==
    LET sum[k \in 0 .. Len(list)] == IF k = 0 THEN 0 ELSE sum[k - 1] + score[list[k]]
    IN  sum

Weight(list) == Cumulative(list)[Len(list)]

Unknown == -1

NoBlock == [height |-> 0, value |-> 0, required |-> 0, crowded |-> FALSE, onTip |-> FALSE]

-----------------------------------------------------------------------------
(* Mutants.                                                                *)

ClosedRange(v, list, x) ==
    \E i \in 1 .. Len(list) :
        /\ list[i] = v
        /\ Cumulative(list)[i - 1] * Values <= x * Weight(list)
        /\ x * Weight(list) <= Cumulative(list)[i] * Values

Unclamped(n, least, most) == n

-----------------------------------------------------------------------------
(* Selection.                                                              *)

\* PoBWeightedSelectProposer starts from a lowest hash of zero: filling it with 0xFF goes
\* over big.Int.Bytes() of zero, which is empty.
LowestAtStart == 0

\* hash * (2.0 - score), where 0 counts as 0.5; tenths have no score between 0 and 0.1.
WeightedHash(hash, s) == hash * (20 - (IF s = 0 THEN Sufficient ELSE s))

PoBWeightedSelectProposer(hash, list) ==
    LET Better(best, v) ==
            IF WeightedHash(hash[v], score[v]) < best.hash
            THEN [hash |-> WeightedHash(hash[v], score[v]), id |-> v]
            ELSE best
    IN  FoldLeft(Better, [hash |-> LowestAtStart, id |-> Head(list)], list).id

\* Without an eligible validator it is an error, and for another proposer nothing to do;
\* the next tick asks again.
IsProposer ==
    /\ pc = "idle" /\ height < MaxHeight
    /\ Eligible # <<>>
    /\ \E hash \in [Validators -> Hashes] : PoBWeightedSelectProposer(hash, Eligible) = Self
    /\ pc' = "propose"
    /\ UNCHANGED <<records, height, value, block, retarget, hindrances, changes, crashes>>

-----------------------------------------------------------------------------
(* The block.                                                              *)

RequiredVotes(n) == IF (n * 85) \div 100 = 0 THEN 1 ELSE (n * 85) \div 100

\* It reads the latest block again: the height need not be the one IsProposer was asked for.
\* Nothing limits the new addresses among the transactions it selects.
ProposeBlock ==
    /\ pc = "propose" /\ height < MaxHeight
    /\ \E x \in 0 .. Values - 1 :
         /\ value[height + 1] \in {x, Unknown}
         /\ value' = [value EXCEPT ![height + 1] = x]
    /\ block' = [height |-> height + 1, value |-> value'[height + 1],
                 required |-> RequiredVotes(Len(ActiveValidators)),
                 crowded |-> crowded, onTip |-> TRUE]
    /\ pc' = "vote"
    /\ UNCHANGED <<records, height, retarget, hindrances, changes, crashes>>

\* VerifyVRFProposerSelection: the ranges of the eligible validators follow one another in
\* State's order, each as long as its share of the scores.
InRange(v, list, x) ==
    \E i \in 1 .. Len(list) :
        /\ list[i] = v
        /\ Cumulative(list)[i - 1] * Values <= x * Weight(list)
        /\ x * Weight(list) < Cumulative(list)[i] * Values

\* A mutant: the range among all that are listed.
ValidAmongAll(b) ==
    /\ b.onTip /\ ~b.crowded
    /\ status[Self] # "inactive" /\ keyStored
    /\ score[Self] >= Sufficient
    /\ InRange(Self, ActiveValidators, b.value)

\* validateBlock, of an own block: VerifyBlock, whose parent is no longer the tip once a
\* peer's block has come; the new addresses; the key, the score and the range.  The PoH
\* sequence has only to be non-empty, and the Merkle root is computed as in ProposeBlock.
Valid(b) ==
    /\ b.onTip /\ ~b.crowded
    /\ status[Self] # "inactive" /\ keyStored
    /\ score[Self] >= Sufficient
    /\ InRange(Self, Eligible, b.value)

\* The own vote counts of an active validator only, and has to be a quorum: nobody looks
\* at the session again.
VoteOnBlock ==
    /\ pc = "vote"
    /\ IF Valid(block) /\ status[Self] = "active" /\ block.required <= 1
       THEN pc' = "finalize" /\ UNCHANGED block
       ELSE pc' = "idle" /\ block' = NoBlock
    /\ UNCHANGED <<records, height, value, retarget, hindrances, changes, crashes>>

-----------------------------------------------------------------------------
(* Retargeting.                                                            *)

DefaultThresholds == [upload |-> 70, latency |-> 100, loss |-> 10]

ShouldRetarget(h) == h > 0 /\ h % RetargetWindow = 0

Recorded(n) ==
    LET all == Append(counts, n)
    IN  IF Len(all) > RetargetWindow THEN Tail(all) ELSE all

Average(s) == FoldLeft(+, 0, s) \div Len(s)

Within(n, least, most) == IF n < least THEN least ELSE IF n > most THEN most ELSE n

\* By 20 %: a higher upload, but a lower latency and loss, is harder.
Adjusted(t, percent) ==
    [upload  |-> Within((t.upload * (100 + percent)) \div 100, 50, 100),
     latency |-> Within((t.latency * (100 - percent)) \div 100, 50, 200),
     loss    |-> Within((t.loss * (100 - percent)) \div 100, 5, 50)]

AdjustDifficulty(s) ==
    CASE Average(s) = 0                    -> thresholds
      [] Average(s) \in 1 .. TargetMinValidators - 1 -> Adjusted(thresholds, -20)
      [] Average(s) > TargetMaxValidators  -> Adjusted(thresholds, 20)
      [] OTHER                             -> thresholds

\* finalizeBlock: AddBlock makes the block the tip, whatever the tip is by now; its
\* transactions leave the mempool for others; and the count of active validators enters
\* the window.
FinalizeBlock ==
    /\ pc = "finalize" /\ ~full
    /\ height' = block.height
    /\ crowded' \in BOOLEAN
    /\ counts' = Recorded(Len(ActiveValidators))
    /\ thresholds' = IF ShouldRetarget(block.height) THEN AdjustDifficulty(counts') ELSE thresholds
    /\ pc' = "idle" /\ block' = NoBlock
    /\ UNCHANGED <<records, value, full, changes, crashes>>

\* AddBlock returns an error, and VoteOnBlock does not look at it.
FinalizeFails ==
    /\ pc = "finalize" /\ full
    /\ pc' = "idle" /\ block' = NoBlock
    /\ UNCHANGED <<records, height, value, retarget, hindrances, changes, crashes>>

-----------------------------------------------------------------------------
(* What others change.                                                     *)

\* HandleCompetingBlock of a block that extends the tip: of any height, since it compares
\* nothing but PrevBlockHash; and nothing is counted.
PeerBlock ==
    /\ ~full
    /\ height' \in 0 .. MaxHeight
    /\ block' = [block EXCEPT !.onTip = FALSE]
    /\ UNCHANGED <<records, value, pc, retarget, hindrances, changes, crashes>>

Changes ==
    /\ changes < MaxChanges
    /\ changes' = changes + 1
    /\ UNCHANGED <<order, height, value, production, retarget, crashes>>

\* Transactions arrive, or those that wait become invalid; the disk fills up or is freed.
Crowding == Changes /\ crowded' = ~crowded /\ UNCHANGED <<status, score, keyStored, full>>
Filling  == Changes /\ full' = ~full /\ UNCHANGED <<status, score, keyStored, crowded>>

\* ActivatePendingValidators and RequestExit; SuspendValidator and ClearSuspension.
Activate(v) ==
    /\ status[v] = "inactive" /\ score[v] >= MinPoBScore
    /\ status' = [status EXCEPT ![v] = "active"]
    /\ Changes /\ UNCHANGED <<score, keyStored, hindrances>>

Exit(v) ==
    /\ status[v] # "inactive"
    /\ status' = [status EXCEPT ![v] = "inactive"]
    /\ Changes /\ UNCHANGED <<score, keyStored, hindrances>>

Suspend(v) ==
    /\ status[v] = "active"
    /\ status' = [status EXCEPT ![v] = "suspended"]
    /\ Changes /\ UNCHANGED <<score, keyStored, hindrances>>

Release(v) ==
    /\ status[v] = "suspended"
    /\ status' = [status EXCEPT ![v] = "active"]
    /\ Changes /\ UNCHANGED <<score, keyStored, hindrances>>

\* A PoB test stores its score.
Tested(v, s) ==
    /\ s # score[v]
    /\ score' = [score EXCEPT ![v] = s]
    /\ Changes /\ UNCHANGED <<status, keyStored, hindrances>>

\* RegisterValidator replaces the record, which loses the score and the VRF key.
Register(v) ==
    /\ status' = [status EXCEPT ![v] = "inactive"]
    /\ score' = [score EXCEPT ![v] = 0]
    /\ keyStored' = (keyStored /\ v # Self)
    /\ Changes /\ UNCHANGED hindrances

\* A process has a VRF key of its own, which NewValidatorService stores, and an empty
\* mempool.
Restart ==
    /\ crashes < MaxCrashes
    /\ crashes' = crashes + 1
    /\ value' = [h \in 1 .. MaxHeight |-> Unknown]
    /\ keyStored' = TRUE
    /\ pc' = "idle" /\ block' = NoBlock
    /\ counts' = <<>> /\ thresholds' = DefaultThresholds
    /\ crowded' = FALSE
    /\ UNCHANGED <<order, status, score, height, full, changes>>

-----------------------------------------------------------------------------
Init ==
    /\ order \in Orders
    /\ status \in Stored
    /\ score = [v \in Validators |-> 10]
    /\ keyStored = TRUE
    /\ height = 0
    /\ value = [h \in 1 .. MaxHeight |-> Unknown]
    /\ pc = "idle" /\ block = NoBlock
    /\ counts = <<>> /\ thresholds = DefaultThresholds
    /\ crowded = FALSE /\ full = FALSE
    /\ changes = 0 /\ crashes = 0

BlockProduction == IsProposer \/ ProposeBlock \/ VoteOnBlock \/ FinalizeBlock \/ FinalizeFails

Change(v) ==
    \/ Activate(v) \/ Exit(v) \/ Suspend(v) \/ Release(v) \/ Register(v)
    \/ \E s \in Scores : Tested(v, s)

Next ==
    \/ BlockProduction \/ PeerBlock \/ Restart \/ Crowding \/ Filling
    \/ \E v \in Validators : Change(v)

Spec == Init /\ [][Next]_vars

\* The ticker of main.go starts a block whenever the previous one is done.
FairSpec == Spec /\ WF_vars(BlockProduction)

-----------------------------------------------------------------------------
(* Properties.                                                             *)

Block == [height : 0 .. MaxHeight, value : 0 .. Values - 1, required : Nat,
          crowded : BOOLEAN, onTip : BOOLEAN]

Thresholds == [upload : 50 .. 100, latency : 50 .. 200, loss : 5 .. 50]

\* Types; thresholds stay in their bounds however often they are adjusted, and the window
\* in its length.
TypeOK ==
    /\ order \in Orders
    /\ status \in [Validators -> Status] /\ score \in [Validators -> Scores \cup {0}]
    /\ keyStored \in BOOLEAN
    /\ height \in 0 .. MaxHeight /\ value \in [1 .. MaxHeight -> Unknown .. Values - 1]
    /\ pc \in {"idle", "propose", "vote", "finalize"}
    /\ block \in Block
    /\ counts \in Seq(Nat) /\ Len(counts) <= RetargetWindow
    /\ thresholds \in Thresholds
    /\ crowded \in BOOLEAN /\ full \in BOOLEAN
    /\ changes \in 0 .. MaxChanges /\ crashes \in 0 .. MaxCrashes

\* Whatever the scores, suspensions and the order, each VRF value is in the range of
\* exactly one eligible validator, if any of them has a score: two validators with one
\* value cannot both be accepted, and no value is nobody's.
OneWinner ==
    Weight(Eligible) > 0 =>
        \A x \in 0 .. Values - 1 : Cardinality({v \in Validators : InRange(v, Eligible, x)}) = 1

\* What a chain that stands still for ever is up against: this node is not the first
\* eligible validator of State's list, which is the one IsProposer selects whatever the
\* seed and the scores; its score is too low or its key lost; others are active, so that
\* one vote is no quorum; its VRF value for the height, which every attempt draws anew
\* and finds the same, is beyond its share of the scores; the transactions it selects,
\* which nothing evicts, name too many new addresses; a peer's block has moved the tip
\* since the proposal; or the database refuses writes.
Obstructed(h) ==
    LET before == {v \in Validators : \E i, j \in 1 .. Len(order) :
                      i < j /\ order[i] = v /\ order[j] = Self /\ status[v] = "active"}
        total == MapThenSumSet(LAMBDA v : score[v], {v \in Validators : status[v] = "active"})
    IN  \/ before # {} \/ status[Self] # "active"
        \/ score[Self] < Sufficient \/ ~keyStored
        \/ Cardinality({v \in Validators : status[v] # "inactive"}) > 2
        \/ value[h] * total >= score[Self] * Values
        \/ crowded \/ full \/ (pc = "vote" /\ ~block.onTip)

\* A chain that stands still for ever is obstructed again and again.
StandstillExplained ==
    \A h \in 1 .. MaxHeight : <>[](height = h - 1) => []<>Obstructed(h)
=============================================================================
