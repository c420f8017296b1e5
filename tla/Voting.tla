------------------------------- MODULE Voting -------------------------------
(***************************************************************************)
(* The VotingManager of pkg/consensus/voting.go with the vote replay       *)
(* protection of vote_replay_protection.go, and the part of                *)
(* ValidatorService.VoteOnBlock / finalizeBlock that turns the outcome of  *)
(* a session into an entry of the FinalityTracker.                         *)
(*                                                                         *)
(* A vote id is sha256(blockHash || validatorID) (generateVoteID); it is   *)
(* modelled by the pair <<block, validator>>, i.e. the hash is injective.  *)
(* Every exported method of VotingManager holds vm.mu for its whole body,  *)
(* so each one is a single action.  VoteOnBlock calls CastVote and then    *)
(* CheckFinality, two critical sections: it is split where it unlocks.     *)
(*                                                                         *)
(* Volatile: sessions, processedVotes, finalizedBlocks, the position of    *)
(* VoteOnBlock.  Persistent: the "vote_<id>" records of LevelDB, some of   *)
(* which may have been written by an older version under a legacy id.      *)
(***************************************************************************)
EXTENDS Integers, FiniteSets

CONSTANTS
    Validators,     \* validator ids known to blockchain.State
    Self,           \* vs.validatorID, the validator this node runs
    Blocks,         \* block hashes that sessions are opened for
    Height,         \* Height[b] is the height of block b
    Churn,          \* validators whose status the rest of the node changes
    LegacyVotes,    \* vote records an older version left under a legacy id
    VotingPhase,    \* core.VerificationVotingPhase, in clock ticks
    MaxAges,        \* the maxAge arguments given to CleanupOldSessions
    MaxTime,        \* bound on the clock
    MaxCrashes,     \* bound on the number of process restarts
    NoSession,      \* sessions[b] when the map has no entry for b
    NoBlock         \* VoteOnBlock is not running

VoteIDs == Blocks \X Validators

ASSUME ConstantsAssumption ==
    /\ Self \in Validators
    /\ IsFiniteSet(Validators)
    /\ Churn \subseteq Validators
    /\ Height \in [Blocks -> Nat]
    /\ LegacyVotes \subseteq VoteIDs
    /\ VotingPhase \in Nat /\ MaxTime \in Nat /\ MaxCrashes \in Nat
    /\ MaxAges \subseteq Nat
    /\ NoBlock \notin Blocks

VARIABLES
    sessions,         \* vm.sessions: block -> VotingSession, or NoSession
    processedVotes,   \* vm.processedVotes
    db,               \* records stored under the deterministic vote id
    legacyDb,         \* records still stored under a legacy id
    toLoad,           \* what the startup iterator has yet to visit
    migrating,        \* deleted under its legacy id, not yet put back
    up,               \* NewVotingManager has returned
    voteOn,           \* the block VoteOnBlock has cast a vote for
    sawFinal,         \* what CheckFinality answered to VoteOnBlock
    finalizedBlocks,  \* FinalityTracker.finalizedBlocks
    active,           \* State.GetActiveValidators()
    suspended,        \* validators with ValidatorInfo.IsSuspended
    now,              \* the clock
    crashes,          \* restarts so far
    counted,          \* history: ids ever counted in a session
    forgotten,        \* history: counted ids whose protection was given up
    evidence          \* history: votes and total when b became final

volatile == <<sessions, processedVotes, voteOn, sawFinal, finalizedBlocks>>
disk == <<db, legacyDb>>
startup == <<toLoad, migrating, up>>
validatorSet == <<active, suspended>>
clock == <<now, crashes>>
history == <<counted, forgotten, evidence>>
vars == <<volatile, disk, startup, validatorSet, clock, history>>

\* VotingSession; TotalValidators is kept because RequiredVotes is derived from it.
Session == [votes : SUBSET Validators, total : Nat, required : Nat \ {0},
            start : Nat, finalized : BOOLEAN]

Live == {b \in Blocks : sessions[b] # NoSession}

\* The ids of the votes in a session of block b.
VotesOf(b, s) == {b} \X s.votes

-----------------------------------------------------------------------------
(* Mutants: plausible slips in the definitions that follow them.           *)

RequiredVotesUnclamped(total) == (total * 85) \div 100

MayVoteLate(b, v) ==
    LET s == sessions[b] IN
    /\ s # NoSession
    /\ v \notin s.votes
    /\ <<b, v>> \notin processedVotes
    /\ v \in active /\ v \notin suspended

MayVoteReplay(b, v) ==
    LET s == sessions[b] IN
    /\ s # NoSession
    /\ ~s.finalized
    /\ now <= s.start + VotingPhase
    /\ v \notin s.votes
    /\ v \in active /\ v \notin suspended

LoadedIDsLegacyOnly(id) == IF id \in legacyDb THEN {} ELSE {id}

SeesFinalAnyVote(b) == sessions[b] # NoSession /\ sessions[b].votes # {}

-----------------------------------------------------------------------------
(* StartVotingSession: int(float64(total) * 0.85), at least one.  The      *)
(* truncation agrees with integer division for every total below 2000000.  *)
RequiredVotes(total) ==
    LET r == (total * 85) \div 100 IN IF r = 0 THEN 1 ELSE r

NewSession(total) ==
    [votes |-> {}, total |-> total, required |-> RequiredVotes(total),
     start |-> now, finalized |-> FALSE]

\* ProposeBlock opens the session with the size of the active set as it is now.
StartVotingSession(b) ==
    /\ up
    /\ sessions[b] = NoSession
    /\ sessions' = [sessions EXCEPT ![b] = NewSession(Cardinality(active))]
    /\ UNCHANGED <<processedVotes, voteOn, sawFinal, finalizedBlocks, disk, startup,
                   validatorSet, clock, history>>

\* CastVote's early returns, in the order of the code.  The last two guards of
\* the code (the key decodes, the signature verifies) are CastVote's sigValid.
MayVote(b, v) ==
    LET s == sessions[b] IN
    /\ s # NoSession
    /\ ~s.finalized
    /\ now <= s.start + VotingPhase
    /\ v \notin s.votes
    /\ <<b, v>> \notin processedVotes
    /\ v \in active /\ v \notin suspended

\* The session with v's vote: finality is decided in the same critical section.
WithVote(s, v) ==
    LET votes == s.votes \cup {v} IN
    [s EXCEPT !.votes = votes, !.finalized = Cardinality(votes) >= s.required]

\* PersistVote may fail; its error is only logged and the vote still counts.
CastVote(b, v, sigValid, persisted) ==
    /\ up
    /\ MayVote(b, v)
    /\ sigValid
    /\ LET s == WithVote(sessions[b], v) IN
       /\ sessions' = [sessions EXCEPT ![b] = s]
       /\ evidence' = IF s.finalized
                      THEN [evidence EXCEPT ![b] = [votes |-> s.votes, total |-> s.total]]
                      ELSE evidence
    /\ db' = IF persisted THEN db \cup {<<b, v>>} ELSE db
    /\ processedVotes' = processedVotes \cup {<<b, v>>}
    /\ counted' = counted \cup {<<b, v>>}
    /\ forgotten' = forgotten \ {<<b, v>>}
    /\ UNCHANGED <<legacyDb, startup, validatorSet, clock, finalizedBlocks>>

\* A vote of another validator.
CastRemoteVote(b, v) ==
    /\ v # Self
    /\ \E sigValid, persisted \in BOOLEAN : CastVote(b, v, sigValid, persisted)
    /\ UNCHANGED <<voteOn, sawFinal>>

\* VoteOnBlock up to and including its CastVote (an error return changes nothing).
VoteOnBlock(b) ==
    /\ voteOn = NoBlock
    /\ \E persisted \in BOOLEAN : CastVote(b, Self, TRUE, persisted)
    /\ voteOn' = b
    /\ UNCHANGED sawFinal

SeesFinal(b) == sessions[b] # NoSession /\ sessions[b].finalized

\* VoteOnBlock drops CheckFinality's error: a missing session reads as not final.
CheckFinality ==
    /\ up
    /\ voteOn # NoBlock /\ ~sawFinal
    /\ sawFinal' = SeesFinal(voteOn)
    /\ voteOn' = IF SeesFinal(voteOn) THEN voteOn ELSE NoBlock
    /\ UNCHANGED <<sessions, processedVotes, finalizedBlocks, disk, startup,
                   validatorSet, clock, history>>

\* finalizeBlock: MarkFinalized, unless AddBlock failed before it was reached.
FinalizeBlock ==
    /\ up
    /\ voteOn # NoBlock /\ sawFinal
    /\ \E added \in BOOLEAN :
          finalizedBlocks' = IF added THEN finalizedBlocks \cup {voteOn} ELSE finalizedBlocks
    /\ voteOn' = NoBlock
    /\ sawFinal' = FALSE
    /\ UNCHANGED <<sessions, processedVotes, disk, startup, validatorSet, clock, history>>

\* MarkVoteProcessed shuts a vote out that was never counted; it writes no record.
MarkVoteProcessed(id) ==
    /\ up
    /\ id \notin processedVotes
    /\ processedVotes' = processedVotes \cup {id}
    /\ UNCHANGED <<sessions, voteOn, sawFinal, finalizedBlocks, disk, startup,
                   validatorSet, clock, history>>

-----------------------------------------------------------------------------
\* CleanupOldSessions(maxAge): by age alone; processedVotes is kept.
CleanupOldSessions(maxAge) ==
    /\ up
    /\ \E b \in Live : now - sessions[b].start > maxAge
    /\ sessions' = [b \in Blocks |->
                      IF b \in Live /\ now - sessions[b].start > maxAge
                      THEN NoSession ELSE sessions[b]]
    /\ UNCHANGED <<processedVotes, voteOn, sawFinal, finalizedBlocks, disk, startup,
                   validatorSet, clock, history>>

\* The sessions CleanupOldVotes takes for old: its two arguments are not used.
IsOld(b) == sessions[b] # NoSession /\ sessions[b].finalized

\* CleanupOldVotes: every finalized session goes, and with it the replay
\* protection of its votes; DeleteVoteFromDB may fail for any of them.
CleanupOldVotes ==
    LET old == {b \in Blocks : IsOld(b)}
        ids == UNION {VotesOf(b, sessions[b]) : b \in old}
    IN  /\ up
        /\ old # {}
        /\ sessions' = [b \in Blocks |-> IF b \in old THEN NoSession ELSE sessions[b]]
        /\ processedVotes' = processedVotes \ ids
        /\ \E kept \in SUBSET ids : db' = db \ (ids \ kept)
        /\ forgotten' = forgotten \cup ids
        /\ UNCHANGED <<voteOn, sawFinal, finalizedBlocks, legacyDb, startup,
                       validatorSet, clock, counted, evidence>>

-----------------------------------------------------------------------------
(* Crash, restart and LoadProcessedVotes.                                  *)

\* The process stops anywhere; what no record protects is forgotten.  The new
\* process opens an iterator over the records on disk.
Crash ==
    /\ crashes < MaxCrashes
    /\ crashes' = crashes + 1
    /\ sessions' = [b \in Blocks |-> NoSession]
    /\ processedVotes' = {}
    /\ finalizedBlocks' = {}
    /\ voteOn' = NoBlock
    /\ sawFinal' = FALSE
    /\ up' = FALSE
    /\ toLoad' = db \cup legacyDb
    /\ migrating' = {}
    /\ forgotten' = forgotten \cup (counted \ (db \cup legacyDb))
    /\ UNCHANGED <<disk, validatorSet, now, counted, evidence>>

\* The id LoadProcessedVotes marks for a record (the deterministic one).
LoadedIDs(id) == {id}

\* A record is visited; a legacy one is deleted under its old key.  The result of
\* Delete is not looked at.
LoadVote(id) ==
    /\ ~up /\ migrating = {} /\ id \in toLoad
    /\ toLoad' = toLoad \ {id}
    /\ processedVotes' = processedVotes \cup LoadedIDs(id)
    /\ IF id \in legacyDb
       THEN /\ migrating' = {id}
            /\ \E deleted \in BOOLEAN :
                  legacyDb' = IF deleted THEN legacyDb \ {id} ELSE legacyDb
       ELSE UNCHANGED <<migrating, legacyDb>>
    /\ UNCHANGED <<sessions, voteOn, sawFinal, finalizedBlocks, db, up, validatorSet,
                   clock, history>>

\* ... and put back under the deterministic id; the result of Put is not looked at.
MigratePut ==
    /\ migrating # {}
    /\ \E stored \in BOOLEAN : db' = IF stored THEN db \cup migrating ELSE db
    /\ migrating' = {}
    /\ UNCHANGED <<volatile, legacyDb, toLoad, up, validatorSet, clock, history>>

\* The iterator is exhausted, or stops with an error that NewVotingManager logs.
LoadDone ==
    /\ ~up /\ migrating = {}
    /\ up' = TRUE
    /\ toLoad' = {}
    /\ forgotten' = forgotten \cup (counted \cap toLoad)
    /\ UNCHANGED <<volatile, disk, migrating, validatorSet, clock, counted, evidence>>

-----------------------------------------------------------------------------
(* The environment: the registry and slashing change State, time passes.   *)

ChangeValidator(v) ==
    /\ \/ /\ active' = IF v \in active THEN active \ {v} ELSE active \cup {v}
          /\ UNCHANGED suspended
       \/ /\ suspended' = IF v \in suspended THEN suspended \ {v} ELSE suspended \cup {v}
          /\ UNCHANGED active
    /\ UNCHANGED <<volatile, disk, startup, clock, history>>

Tick ==
    /\ now < MaxTime
    /\ now' = now + 1
    /\ UNCHANGED <<volatile, disk, startup, validatorSet, crashes, history>>

Init ==
    /\ sessions = [b \in Blocks |-> NoSession]
    /\ processedVotes = {}
    /\ db = {}
    /\ legacyDb = LegacyVotes
    /\ toLoad = LegacyVotes
    /\ migrating = {}
    /\ up = FALSE
    /\ voteOn = NoBlock
    /\ sawFinal = FALSE
    /\ finalizedBlocks = {}
    /\ active \in {S \in SUBSET Validators : Self \in S}
    /\ suspended = {}
    /\ now = 0
    /\ crashes = 0
    /\ counted = LegacyVotes
    /\ forgotten = {}
    /\ evidence = [b \in Blocks |-> [votes |-> {}, total |-> 0]]

Next ==
    \/ \E b \in Blocks :
          \/ StartVotingSession(b)
          \/ VoteOnBlock(b)
          \/ \E v \in Validators : CastRemoteVote(b, v)
    \/ CheckFinality
    \/ FinalizeBlock
    \/ \E id \in VoteIDs : MarkVoteProcessed(id)
    \/ \E maxAge \in MaxAges : CleanupOldSessions(maxAge)
    \/ CleanupOldVotes
    \/ Crash
    \/ \E id \in toLoad : LoadVote(id)
    \/ MigratePut
    \/ LoadDone
    \/ \E v \in Churn : ChangeValidator(v)
    \/ Tick

Spec == Init /\ [][Next]_vars

-----------------------------------------------------------------------------
(* Properties.                                                             *)

\* Every field of VotingManager, VotingSession and the store has its type; a
\* session never asks for zero votes (the clamp of StartVotingSession).
TypeOK ==
    /\ sessions \in [Blocks -> Session \cup {NoSession}]
    /\ processedVotes \subseteq VoteIDs
    /\ db \subseteq VoteIDs
    /\ legacyDb \subseteq VoteIDs
    /\ toLoad \subseteq VoteIDs
    /\ migrating \subseteq VoteIDs
    /\ up \in BOOLEAN
    /\ voteOn \in Blocks \cup {NoBlock}
    /\ sawFinal \in BOOLEAN
    /\ finalizedBlocks \subseteq Blocks
    /\ active \subseteq Validators
    /\ suspended \subseteq Validators
    /\ now \in Nat
    /\ crashes \in Nat
    /\ counted \subseteq VoteIDs
    /\ forgotten \subseteq VoteIDs
    /\ evidence \in [Blocks -> [votes : SUBSET Validators, total : Nat]]

\* The session of block b, if there is one, has counted v's vote.
Counts(b, v) == sessions[b] # NoSession /\ v \in sessions[b].votes

\* Replay protection (CastVote, LoadProcessedVotes): a vote that was ever counted
\* is not counted again, in any later session of its block and across restarts,
\* unless its protection was given up: CleanupOldVotes released it, or the process
\* restarted without a record of it (PersistVote or the migration had failed, or the
\* startup iterator stopped early).
NoReplay ==
    [][\A b \in Blocks, v \in Validators :
         Counts(b, v)' /\ ~Counts(b, v) /\ <<b, v>> \in counted => <<b, v>> \in forgotten]_vars

\* What the replay check rests on: while the manager runs, processedVotes covers
\* every vote counted and not given up, and every vote of a live session; while it
\* starts, what is missing is still ahead of the iterator.
ReplayShield ==
    /\ counted \ forgotten \subseteq processedVotes \cup toLoad
    /\ up => toLoad = {}
    /\ \A b \in Blocks, v \in Validators :
          Counts(b, v) => up /\ <<b, v>> \in processedVotes \cap counted

\* FinalityTracker holds only blocks for which one session really collected the
\* number of distinct votes that RequiredVotes asks for, although VoteOnBlock reads
\* the session and marks the block in three separate critical sections.
MarkedHasQuorum ==
    \A b \in finalizedBlocks :
        Cardinality(evidence[b].votes) >= RequiredVotes(evidence[b].total)

\* CastVote's deadline and finality checks: the votes of a session that is final, or
\* whose VotingDeadline has passed, never change, and finality is never taken back
\* while the session exists.
ClosedSessionsFrozen ==
    [][\A b \in Blocks :
         (/\ sessions[b] # NoSession /\ sessions'[b] # NoSession
          /\ sessions[b].finalized \/ now > sessions[b].start + VotingPhase)
         => sessions'[b] = sessions[b]]_vars
=============================================================================
