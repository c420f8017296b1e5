---------------------------- MODULE VotingProofs ----------------------------
(***************************************************************************)
(* TLAPS proofs about Voting: type correctness, replay protection and      *)
(* quorum-backed finality, for every set of validators and blocks.         *)
(***************************************************************************)
EXTENDS Voting, FiniteSetTheorems, TLAPS

QuorumBacked(b) == Cardinality(evidence[b].votes) >= RequiredVotes(evidence[b].total)

\* A live session asks for what its total implies; a final one, and the block that
\* VoteOnBlock has seen final, left evidence of a quorum behind.
FinalityInv ==
    /\ \A b \in Blocks : sessions[b] # NoSession =>
          /\ sessions[b].required = RequiredVotes(sessions[b].total)
          /\ sessions[b].finalized => QuorumBacked(b)
    /\ sawFinal => voteOn \in Blocks /\ QuorumBacked(voteOn)
    /\ \A b \in finalizedBlocks : QuorumBacked(b)

IInv == TypeOK /\ ReplayShield /\ FinalityInv

-----------------------------------------------------------------------------
(* Lemmas on the operators.                                                *)

\* StartVotingSession's threshold is at least one vote, and never more than the
\* validators there are (as long as there is one).
LEMMA RequiredVotesBounds ==
    ASSUME NEW n \in Nat
    PROVE  /\ RequiredVotes(n) \in Nat \ {0}
           /\ n > 0 => RequiredVotes(n) <= n
BY DEF RequiredVotes

\* Two sets of voters that both satisfy the threshold of the same validator set have
\* a validator in common, except when there are exactly two validators: the
\* truncated threshold is then a single vote.
THEOREM QuorumsMeet ==
    ASSUME NEW V, IsFiniteSet(V), V # {}, Cardinality(V) # 2,
           NEW Q1 \in SUBSET V, Cardinality(Q1) >= RequiredVotes(Cardinality(V)),
           NEW Q2 \in SUBSET V, Cardinality(Q2) >= RequiredVotes(Cardinality(V))
    PROVE  Q1 \cap Q2 # {}
<1> DEFINE n == Cardinality(V)
<1>1. n \in Nat /\ n > 0
  BY FS_CardinalityType, FS_EmptySet
<1>2. 2 * RequiredVotes(n) > n /\ RequiredVotes(n) \in Nat
  BY <1>1 DEF RequiredVotes
<1>3. IsFiniteSet(Q1) /\ IsFiniteSet(Q2)
  BY FS_Subset
<1>4. Cardinality(Q1 \cup Q2) = Cardinality(Q1) + Cardinality(Q2) - Cardinality(Q1 \cap Q2)
  BY <1>3, FS_Union
<1>5. Cardinality(Q1 \cup Q2) <= n
  BY FS_Subset
<1>6. Cardinality(Q1) \in Nat /\ Cardinality(Q2) \in Nat /\ Cardinality(Q1 \cup Q2) \in Nat
  BY <1>3, FS_CardinalityType, FS_Union
<1>7. ASSUME Q1 \cap Q2 = {} PROVE FALSE
  <2>1. Cardinality(Q1 \cap Q2) = 0
    BY <1>7, FS_EmptySet
  <2> HIDE DEF n
  <2>2. Cardinality(Q1) >= RequiredVotes(n) /\ Cardinality(Q2) >= RequiredVotes(n)
    BY DEF n
  <2> QED
    BY <2>1, <2>2, <1>1, <1>2, <1>4, <1>5, <1>6
<1> QED
  BY <1>7

\* Casting adds exactly the voter, keeps the rest of the session, and decides
\* finality by the session's own threshold.
LEMMA WithVoteShape ==
    ASSUME NEW s \in Session, NEW v \in Validators
    PROVE  /\ WithVote(s, v) \in Session
           /\ WithVote(s, v).votes = s.votes \cup {v}
           /\ WithVote(s, v).total = s.total
           /\ WithVote(s, v).required = s.required
           /\ WithVote(s, v).start = s.start
           /\ WithVote(s, v).finalized <=> Cardinality(s.votes \cup {v}) >= s.required
<1>1. WithVote(s, v).votes = s.votes \cup {v}
  BY DEF WithVote, Session
<1>2. WithVote(s, v).total = s.total /\ WithVote(s, v).required = s.required /\ WithVote(s, v).start = s.start
  BY DEF WithVote, Session
<1>3. WithVote(s, v).finalized <=> Cardinality(s.votes \cup {v}) >= s.required
  BY DEF WithVote, Session
<1>4. Cardinality(s.votes \cup {v}) \in Nat
  <2>1. s.votes \cup {v} \in SUBSET Validators
    BY DEF Session
  <2> QED
    BY <2>1, ConstantsAssumption, FS_Subset, FS_CardinalityType
<1>5. (Cardinality(s.votes \cup {v}) >= s.required) \in BOOLEAN
  BY <1>4 DEF Session
<1>6. WithVote(s, v) \in Session
  BY <1>5 DEF WithVote, Session
<1> QED
  BY <1>1, <1>2, <1>3, <1>6

-----------------------------------------------------------------------------
(* The inductive invariant.                                                *)

\* A fresh process, before it has read the store, satisfies the invariant.
LEMMA InitInv == Init => IInv
<1> SUFFICES ASSUME Init PROVE IInv
  OBVIOUS
<1>1. TypeOK
  BY ConstantsAssumption DEF Init, TypeOK, Session
<1>2. ReplayShield
  BY DEF Init, ReplayShield, Counts
<1>3. FinalityInv
  BY DEF Init, FinalityInv, QuorumBacked
<1> QED
  BY <1>1, <1>2, <1>3 DEF IInv

\* Every handler of the manager keeps the types.
LEMMA TypeStep == TypeOK /\ [Next]_vars => TypeOK'
<1> SUFFICES ASSUME TypeOK, [Next]_vars PROVE TypeOK'
  OBVIOUS
<1> USE DEF TypeOK
<1>1. ASSUME NEW b \in Blocks, StartVotingSession(b) PROVE TypeOK'
  <2>1. Cardinality(active) \in Nat
    BY ConstantsAssumption, FS_Subset, FS_CardinalityType
  <2>2. NewSession(Cardinality(active)) \in Session
    BY <2>1, RequiredVotesBounds DEF NewSession, Session
  <2> QED
    BY <1>1, <2>2 DEF StartVotingSession, disk, startup, validatorSet, clock, history
<1>2. ASSUME NEW b \in Blocks, NEW v \in Validators, NEW g \in BOOLEAN, NEW p \in BOOLEAN,
             CastVote(b, v, g, p), voteOn' \in Blocks \cup {NoBlock}, sawFinal' = sawFinal
      PROVE  TypeOK'
  <2>1. sessions[b] \in Session
    BY <1>2 DEF CastVote, MayVote
  <2>2. WithVote(sessions[b], v) \in Session
    BY <2>1, WithVoteShape
  <2>3. WithVote(sessions[b], v).votes \in SUBSET Validators /\ WithVote(sessions[b], v).total \in Nat
    BY <2>2 DEF Session
  <2>4. <<b, v>> \in VoteIDs
    BY DEF VoteIDs
  <2>5. evidence' \in [Blocks -> [votes : SUBSET Validators, total : Nat]]
    BY <1>2, <2>3 DEF CastVote
  <2>6. sessions' \in [Blocks -> Session \cup {NoSession}]
    BY <1>2, <2>2 DEF CastVote
  <2> QED
    BY <1>2, <2>4, <2>5, <2>6 DEF CastVote, startup, validatorSet, clock
<1>3. ASSUME NEW b \in Blocks, NEW v \in Validators, CastRemoteVote(b, v) PROVE TypeOK'
  BY <1>2, <1>3 DEF CastRemoteVote
<1>4. ASSUME NEW b \in Blocks, VoteOnBlock(b) PROVE TypeOK'
  BY <1>2, <1>4, ConstantsAssumption DEF VoteOnBlock
<1>5. ASSUME CheckFinality PROVE TypeOK'
  BY <1>5 DEF CheckFinality, SeesFinal, Session, disk, startup, validatorSet, clock, history
<1>6. ASSUME FinalizeBlock PROVE TypeOK'
  BY <1>6 DEF FinalizeBlock, disk, startup, validatorSet, clock, history
<1>7. ASSUME NEW maxAge \in MaxAges, CleanupOldSessions(maxAge) PROVE TypeOK'
  BY <1>7 DEF CleanupOldSessions, disk, startup, validatorSet, clock, history
<1>8. ASSUME CleanupOldVotes PROVE TypeOK'
  <2> DEFINE old == {b \in Blocks : IsOld(b)}
             ids == UNION {VotesOf(b, sessions[b]) : b \in old}
  <2>1. ids \subseteq VoteIDs
    BY DEF VotesOf, VoteIDs, IsOld, Session
  <2> HIDE DEF old, ids
  <2>2. db' \subseteq VoteIDs /\ processedVotes' \subseteq VoteIDs /\ forgotten' \subseteq VoteIDs
    BY <1>8, <2>1 DEF CleanupOldVotes, old, ids
  <2>3. sessions' \in [Blocks -> Session \cup {NoSession}]
    BY <1>8 DEF CleanupOldVotes, old
  <2>4. UNCHANGED <<voteOn, sawFinal, finalizedBlocks, legacyDb, toLoad, migrating, up,
                     active, suspended, now, crashes, counted, evidence>>
    BY <1>8 DEF CleanupOldVotes, startup, validatorSet, clock
  <2> QED
    BY <2>2, <2>3, <2>4
<1>9. ASSUME Crash PROVE TypeOK'
  <2>1. sessions' \in [Blocks -> Session \cup {NoSession}]
    BY <1>9 DEF Crash
  <2>2. crashes' \in Nat
    BY <1>9, SMT DEF Crash
  <2>3. toLoad' \subseteq VoteIDs /\ forgotten' \subseteq VoteIDs
    BY <1>9 DEF Crash
  <2> QED
    BY <1>9, <2>1, <2>2, <2>3 DEF Crash, disk, validatorSet
<1>10. ASSUME NEW id \in toLoad, LoadVote(id) PROVE TypeOK'
  BY <1>10 DEF LoadVote, LoadedIDs, validatorSet, clock, history
<1>11. ASSUME MigratePut PROVE TypeOK'
  BY <1>11 DEF MigratePut, volatile, validatorSet, clock, history
<1>12. ASSUME LoadDone PROVE TypeOK'
  BY <1>12 DEF LoadDone, volatile, disk, validatorSet, clock
<1>13. ASSUME NEW v \in Churn, ChangeValidator(v) PROVE TypeOK'
  BY <1>13, ConstantsAssumption DEF ChangeValidator, volatile, disk, startup, clock, history
<1>14. ASSUME Tick PROVE TypeOK'
  BY <1>14 DEF Tick, volatile, disk, startup, validatorSet, history
<1>16. ASSUME NEW id \in VoteIDs, MarkVoteProcessed(id) PROVE TypeOK'
  BY <1>16 DEF MarkVoteProcessed, disk, startup, validatorSet, clock, history
<1>15. ASSUME UNCHANGED vars PROVE TypeOK'
  BY <1>15 DEF vars, volatile, disk, startup, validatorSet, clock, history
<1> QED
  BY <1>1, <1>3, <1>4, <1>5, <1>6, <1>7, <1>8, <1>9, <1>10, <1>11, <1>12, <1>13, <1>14,
     <1>15, <1>16 DEF Next

\* Counting, cleaning, crashing and loading keep the replay shield up.
LEMMA ShieldStep == TypeOK /\ ReplayShield /\ [Next]_vars => ReplayShield'
<1> SUFFICES ASSUME TypeOK, ReplayShield, [Next]_vars PROVE ReplayShield'
  OBVIOUS
<1> USE DEF ReplayShield, Counts
<1>1. ASSUME NEW b \in Blocks, StartVotingSession(b) PROVE ReplayShield'
  <2>1. NewSession(Cardinality(active)).votes = {}
    BY DEF NewSession
  <2> QED
    BY <1>1, <2>1 DEF StartVotingSession, startup, history, TypeOK
<1>2. ASSUME NEW b \in Blocks, NEW v \in Validators, NEW g \in BOOLEAN, NEW p \in BOOLEAN,
             CastVote(b, v, g, p)
      PROVE  ReplayShield'
  <2>1. sessions[b] \in Session
    BY <1>2 DEF CastVote, MayVote, TypeOK
  <2>2. WithVote(sessions[b], v).votes = sessions[b].votes \cup {v}
    BY <2>1, WithVoteShape
  <2>3. /\ sessions' = [sessions EXCEPT ![b] = WithVote(sessions[b], v)]
        /\ processedVotes' = processedVotes \cup {<<b, v>>}
        /\ counted' = counted \cup {<<b, v>>}
        /\ forgotten' = forgotten \ {<<b, v>>}
        /\ up /\ up' = up /\ toLoad' = toLoad /\ sessions[b] # NoSession
    BY <1>2 DEF CastVote, MayVote, startup
  <2>4. ASSUME NEW c \in Blocks, NEW w \in Validators, Counts(c, w)'
        PROVE  <<c, w>> \in processedVotes' \cap counted'
    BY <2>2, <2>3, <2>4 DEF TypeOK
  <2> QED
    BY <2>3, <2>4
<1>3. ASSUME NEW b \in Blocks, NEW v \in Validators, CastRemoteVote(b, v) PROVE ReplayShield'
  BY <1>2, <1>3 DEF CastRemoteVote
<1>4. ASSUME NEW b \in Blocks, VoteOnBlock(b) PROVE ReplayShield'
  BY <1>2, <1>4, ConstantsAssumption DEF VoteOnBlock
<1>5. ASSUME CheckFinality PROVE ReplayShield'
  BY <1>5 DEF CheckFinality, startup, history
<1>6. ASSUME FinalizeBlock PROVE ReplayShield'
  BY <1>6 DEF FinalizeBlock, startup, history
<1>7. ASSUME NEW maxAge \in MaxAges, CleanupOldSessions(maxAge) PROVE ReplayShield'
  BY <1>7 DEF CleanupOldSessions, startup, history
<1>8. ASSUME CleanupOldVotes PROVE ReplayShield'
  <2> DEFINE old == {b \in Blocks : IsOld(b)}
             ids == UNION {VotesOf(b, sessions[b]) : b \in old}
  <2>1. /\ sessions' = [b \in Blocks |-> IF b \in old THEN NoSession ELSE sessions[b]]
        /\ processedVotes' = processedVotes \ ids
        /\ forgotten' = forgotten \cup ids
        /\ UNCHANGED <<counted, toLoad, up>>
    BY <1>8 DEF CleanupOldVotes, startup
  <2>2. ASSUME NEW b \in Blocks, NEW v \in Validators, b \notin old PROVE <<b, v>> \notin ids
    BY <2>2 DEF VotesOf
  <2> HIDE DEF old, ids
  <2>3. ASSUME NEW b \in Blocks, NEW v \in Validators, Counts(b, v)'
        PROVE  up' /\ <<b, v>> \in processedVotes' \cap counted'
    <3>1. b \notin old /\ Counts(b, v)
      BY <2>1, <2>3
    <3> QED
      BY <2>1, <2>2, <3>1
  <2> QED
    BY <2>1, <2>3
<1>9. ASSUME Crash PROVE ReplayShield'
  BY <1>9 DEF Crash, disk
<1>10. ASSUME NEW id \in toLoad, LoadVote(id) PROVE ReplayShield'
  BY <1>10 DEF LoadVote, LoadedIDs, history
<1>11. ASSUME MigratePut PROVE ReplayShield'
  BY <1>11 DEF MigratePut, volatile, history
<1>12. ASSUME LoadDone PROVE ReplayShield'
  BY <1>12 DEF LoadDone, volatile
<1>13. ASSUME NEW v \in Churn, ChangeValidator(v) PROVE ReplayShield'
  BY <1>13 DEF ChangeValidator, volatile, startup, history
<1>14. ASSUME Tick PROVE ReplayShield'
  BY <1>14 DEF Tick, volatile, startup, history
<1>16. ASSUME NEW id \in VoteIDs, MarkVoteProcessed(id) PROVE ReplayShield'
  BY <1>16 DEF MarkVoteProcessed, startup, history
<1>15. ASSUME UNCHANGED vars PROVE ReplayShield'
  BY <1>15 DEF vars, volatile, startup, history
<1> QED
  BY <1>1, <1>3, <1>4, <1>5, <1>6, <1>7, <1>8, <1>9, <1>10, <1>11, <1>12, <1>13, <1>14,
     <1>15, <1>16 DEF Next

\* A session becomes final only with a quorum, and the evidence of it outlives the
\* session: it is what CheckFinality, and later MarkFinalized, act on.
LEMMA FinalityStep == TypeOK /\ FinalityInv /\ [Next]_vars => FinalityInv'
<1> SUFFICES ASSUME TypeOK, FinalityInv, [Next]_vars PROVE FinalityInv'
  OBVIOUS
<1> USE DEF FinalityInv, QuorumBacked
<1>1. ASSUME NEW b \in Blocks, StartVotingSession(b) PROVE FinalityInv'
  <2>1. /\ NewSession(Cardinality(active)).required
             = RequiredVotes(NewSession(Cardinality(active)).total)
        /\ ~NewSession(Cardinality(active)).finalized
    BY DEF NewSession
  <2> QED
    BY <1>1, <2>1 DEF StartVotingSession, history, TypeOK
<1>2. ASSUME NEW b \in Blocks, NEW v \in Validators, NEW g \in BOOLEAN, NEW p \in BOOLEAN,
             CastVote(b, v, g, p), sawFinal' = sawFinal,
             sawFinal => voteOn' = voteOn
      PROVE  FinalityInv'
  <2> DEFINE s == WithVote(sessions[b], v)
  <2>1. sessions[b] \in Session /\ sessions[b] # NoSession
    BY <1>2 DEF CastVote, MayVote, TypeOK
  <2>2. /\ s.total = sessions[b].total
        /\ s.required = sessions[b].required
        /\ s.finalized => Cardinality(s.votes) >= s.required
    BY <2>1, WithVoteShape
  <2>3. s.required = RequiredVotes(s.total)
    BY <2>1, <2>2
  <2>4. /\ sessions' = [sessions EXCEPT ![b] = s]
        /\ finalizedBlocks' = finalizedBlocks
        /\ evidence' = IF s.finalized
                       THEN [evidence EXCEPT ![b] = [votes |-> s.votes, total |-> s.total]]
                       ELSE evidence
    BY <1>2 DEF CastVote
  <2> HIDE DEF s
  <2>5. ASSUME NEW c \in Blocks, QuorumBacked(c) PROVE QuorumBacked(c)'
    BY <2>2, <2>3, <2>4, <2>5 DEF TypeOK
  <2>6. s.finalized => QuorumBacked(b)'
    BY <2>2, <2>3, <2>4 DEF TypeOK
  <2>7. ASSUME NEW c \in Blocks, sessions'[c] # NoSession
        PROVE  /\ sessions'[c].required = RequiredVotes(sessions'[c].total)
               /\ sessions'[c].finalized => QuorumBacked(c)'
    <3>1. CASE c = b
      BY <2>3, <2>4, <2>6, <3>1 DEF TypeOK
    <3>2. CASE c # b
      BY <2>4, <2>5, <2>7, <3>2 DEF TypeOK
    <3> QED
      BY <3>1, <3>2
  <2>8. sawFinal' => voteOn' \in Blocks /\ QuorumBacked(voteOn)'
    BY <1>2, <2>5
  <2>9. \A c \in finalizedBlocks' : QuorumBacked(c)'
    BY <2>4, <2>5 DEF TypeOK
  <2> QED
    BY <2>7, <2>8, <2>9
<1>3. ASSUME NEW b \in Blocks, NEW v \in Validators, CastRemoteVote(b, v) PROVE FinalityInv'
  BY <1>2, <1>3 DEF CastRemoteVote
<1>4. ASSUME NEW b \in Blocks, VoteOnBlock(b) PROVE FinalityInv'
  BY <1>2, <1>4, ConstantsAssumption DEF VoteOnBlock
<1>5. ASSUME CheckFinality PROVE FinalityInv'
  BY <1>5 DEF CheckFinality, SeesFinal, history, TypeOK
<1>6. ASSUME FinalizeBlock PROVE FinalityInv'
  BY <1>6 DEF FinalizeBlock, history
<1>7. ASSUME NEW maxAge \in MaxAges, CleanupOldSessions(maxAge) PROVE FinalityInv'
  BY <1>7 DEF CleanupOldSessions, history
<1>8. ASSUME CleanupOldVotes PROVE FinalityInv'
  <2>1. /\ \A b \in Blocks : sessions'[b] = NoSession \/ sessions'[b] = sessions[b]
        /\ UNCHANGED <<voteOn, sawFinal, finalizedBlocks, evidence>>
    BY <1>8 DEF CleanupOldVotes
  <2> QED
    BY <2>1
<1>9. ASSUME Crash PROVE FinalityInv'
  BY <1>9 DEF Crash
<1>10. ASSUME NEW id \in toLoad, LoadVote(id) PROVE FinalityInv'
  BY <1>10 DEF LoadVote, history
<1>11. ASSUME MigratePut PROVE FinalityInv'
  BY <1>11 DEF MigratePut, volatile, history
<1>12. ASSUME LoadDone PROVE FinalityInv'
  BY <1>12 DEF LoadDone, volatile
<1>13. ASSUME NEW v \in Churn, ChangeValidator(v) PROVE FinalityInv'
  BY <1>13 DEF ChangeValidator, volatile, history
<1>14. ASSUME Tick PROVE FinalityInv'
  BY <1>14 DEF Tick, volatile, history
<1>16. ASSUME NEW id \in VoteIDs, MarkVoteProcessed(id) PROVE FinalityInv'
  BY <1>16 DEF MarkVoteProcessed, history
<1>15. ASSUME UNCHANGED vars PROVE FinalityInv'
  BY <1>15 DEF vars, volatile, history
<1> QED
  BY <1>1, <1>3, <1>4, <1>5, <1>6, <1>7, <1>8, <1>9, <1>10, <1>11, <1>12, <1>13, <1>14,
     <1>15, <1>16 DEF Next

-----------------------------------------------------------------------------
(* Theorems of the specification.                                          *)

\* The inductive invariant holds throughout.
LEMMA IInvAlways == Spec => []IInv
<1>1. IInv /\ [Next]_vars => IInv'
  BY TypeStep, ShieldStep, FinalityStep DEF IInv
<1> QED
  BY <1>1, InitInv, PTL DEF Spec

\* Every field of the voting manager and its store keeps its type, and every session
\* asks for at least one vote.
THEOREM TypeCorrect == Spec => []TypeOK
<1>1. IInv => TypeOK
  BY DEF IInv
<1> QED
  BY <1>1, IInvAlways, PTL

\* processedVotes and the records still to be loaded cover every vote whose protection
\* was not given up, at any time, through any number of crashes.
THEOREM ShieldHolds == Spec => []ReplayShield
<1>1. IInv => ReplayShield
  BY DEF IInv
<1> QED
  BY <1>1, IInvAlways, PTL

\* FinalityTracker only ever holds blocks that a quorum of one session voted for.
THEOREM FinalityIsQuorumBacked == Spec => []MarkedHasQuorum
<1>1. IInv => MarkedHasQuorum
  BY DEF IInv, FinalityInv, QuorumBacked, MarkedHasQuorum
<1> QED
  BY <1>1, IInvAlways, PTL

\* The steps that can add a vote to a session are the two forms of CastVote.
LEMMA OnlyCastCounts ==
    ASSUME TypeOK, [Next]_vars, NEW b \in Blocks, NEW v \in Validators,
           Counts(b, v)', ~Counts(b, v)
    PROVE  \E g, p \in BOOLEAN : CastVote(b, v, g, p)
<1> USE DEF Counts
<1>1. ASSUME NEW c \in Blocks, StartVotingSession(c) PROVE FALSE
  BY <1>1 DEF StartVotingSession, NewSession, TypeOK
<1>2. ASSUME NEW c \in Blocks, NEW w \in Validators, NEW g \in BOOLEAN, NEW p \in BOOLEAN,
             CastVote(c, w, g, p)
      PROVE  c = b /\ w = v
  <2>1. sessions[c] \in Session /\ sessions[c] # NoSession
    BY <1>2 DEF CastVote, MayVote, TypeOK
  <2>2. WithVote(sessions[c], w).votes = sessions[c].votes \cup {w}
    BY <2>1, WithVoteShape
  <2>3. sessions' = [sessions EXCEPT ![c] = WithVote(sessions[c], w)]
    BY <1>2 DEF CastVote
  <2> QED
    BY <2>1, <2>2, <2>3 DEF TypeOK
<1>3. ASSUME \A c \in Blocks : sessions'[c] = sessions[c] \/ sessions'[c] = NoSession
      PROVE  FALSE
  BY <1>3
<1>4. ASSUME NEW maxAge \in MaxAges, CleanupOldSessions(maxAge) PROVE FALSE
  BY <1>3, <1>4 DEF CleanupOldSessions
<1>5. ASSUME CleanupOldVotes PROVE FALSE
  BY <1>3, <1>5 DEF CleanupOldVotes
<1>6. ASSUME Crash PROVE FALSE
  BY <1>3, <1>6 DEF Crash
<1>7. ASSUME sessions' = sessions PROVE FALSE
  BY <1>3, <1>7
<1>8. ASSUME \/ CheckFinality \/ FinalizeBlock \/ MigratePut \/ LoadDone \/ Tick
             \/ \E id \in toLoad : LoadVote(id)
             \/ \E w \in Churn : ChangeValidator(w)
             \/ \E id \in VoteIDs : MarkVoteProcessed(id)
             \/ UNCHANGED vars
      PROVE  FALSE
  BY <1>7, <1>8 DEF CheckFinality, FinalizeBlock, MigratePut, LoadDone, Tick, LoadVote,
                    ChangeValidator, MarkVoteProcessed, volatile, vars
<1>9. ASSUME NEW c \in Blocks, NEW w \in Validators, CastRemoteVote(c, w)
      PROVE  \E g, p \in BOOLEAN : CastVote(b, v, g, p)
  BY <1>2, <1>9 DEF CastRemoteVote
<1>10. ASSUME NEW c \in Blocks, VoteOnBlock(c)
       PROVE  \E g, p \in BOOLEAN : CastVote(b, v, g, p)
  BY <1>2, <1>10, ConstantsAssumption DEF VoteOnBlock
<1> QED
  BY <1>1, <1>4, <1>5, <1>6, <1>8, <1>9, <1>10 DEF Next

\* No vote is counted twice unless its protection was given up in between.
THEOREM ReplayPrevented == Spec => NoReplay
<1>1. ASSUME IInv, [Next]_vars, NEW b \in Blocks, NEW v \in Validators,
             Counts(b, v)', ~Counts(b, v), <<b, v>> \in counted
      PROVE  <<b, v>> \in forgotten
  <2>1. \E g, p \in BOOLEAN : CastVote(b, v, g, p)
    BY <1>1, OnlyCastCounts DEF IInv
  <2>2. up /\ <<b, v>> \notin processedVotes
    BY <2>1 DEF CastVote, MayVote
  <2> QED
    BY <1>1, <2>2 DEF IInv, ReplayShield
<1>2. IInv /\ [Next]_vars =>
        [\A b \in Blocks, v \in Validators :
           Counts(b, v)' /\ ~Counts(b, v) /\ <<b, v>> \in counted => <<b, v>> \in forgotten]_vars
  BY <1>1
<1> QED
  BY <1>2, IInvAlways, PTL DEF Spec, NoReplay

\* A session that has reached finality or its deadline is never written again: of the
\* steps that write a session, CastVote refuses a closed one, StartVotingSession an
\* existing one, and the others remove it.
THEOREM ClosedStayClosed == Spec => ClosedSessionsFrozen
<1>1. ASSUME IInv, [Next]_vars, NEW b \in Blocks,
             sessions[b] # NoSession, sessions'[b] # NoSession,
             sessions[b].finalized \/ now > sessions[b].start + VotingPhase
      PROVE  sessions'[b] = sessions[b]
  <2>1. TypeOK
    BY <1>1 DEF IInv
  <2>2. ASSUME NEW c \in Blocks, StartVotingSession(c) PROVE sessions'[b] = sessions[b]
    BY <1>1, <2>2 DEF StartVotingSession
  <2>3. ASSUME NEW c \in Blocks, NEW w \in Validators, NEW g \in BOOLEAN, NEW p \in BOOLEAN,
               CastVote(c, w, g, p)
        PROVE  sessions'[b] = sessions[b]
    <3>1. ~MayVote(b, w)
      <4>1. sessions[b] \in Session
        BY <1>1, <2>1 DEF TypeOK
      <4>2. sessions[b].start \in Nat /\ now \in Nat /\ VotingPhase \in Nat
        BY <4>1, <2>1, ConstantsAssumption DEF TypeOK, Session
      <4> QED
        BY <1>1, <4>2 DEF MayVote
    <3>2. c # b
      BY <2>3, <3>1 DEF CastVote
    <3> QED
      BY <2>3, <3>2 DEF CastVote
  <2>4. ASSUME NEW c \in Blocks, NEW w \in Validators, CastRemoteVote(c, w)
        PROVE  sessions'[b] = sessions[b]
    BY <2>3, <2>4 DEF CastRemoteVote
  <2>5. ASSUME NEW c \in Blocks, VoteOnBlock(c) PROVE sessions'[b] = sessions[b]
    BY <2>3, <2>5, ConstantsAssumption DEF VoteOnBlock
  <2>6. ASSUME NEW maxAge \in MaxAges, CleanupOldSessions(maxAge)
        PROVE  sessions'[b] = sessions[b]
    BY <1>1, <2>6 DEF CleanupOldSessions
  <2>7. ASSUME CleanupOldVotes PROVE sessions'[b] = sessions[b]
    BY <1>1, <2>7 DEF CleanupOldVotes
  <2>8. ASSUME Crash PROVE sessions'[b] = sessions[b]
    BY <1>1, <2>8 DEF Crash
  <2>9. ASSUME \/ CheckFinality \/ FinalizeBlock \/ MigratePut \/ LoadDone \/ Tick
               \/ \E id \in toLoad : LoadVote(id)
               \/ \E w \in Churn : ChangeValidator(w)
               \/ \E id \in VoteIDs : MarkVoteProcessed(id)
               \/ UNCHANGED vars
        PROVE  sessions' = sessions
    BY <2>9 DEF CheckFinality, FinalizeBlock, MigratePut, LoadDone, Tick, LoadVote,
                ChangeValidator, MarkVoteProcessed, volatile, vars
  <2> QED
    BY <1>1, <2>2, <2>4, <2>5, <2>6, <2>7, <2>8, <2>9 DEF Next
<1>2. IInv /\ [Next]_vars =>
        [\A b \in Blocks :
           (/\ sessions[b] # NoSession /\ sessions'[b] # NoSession
            /\ sessions[b].finalized \/ now > sessions[b].start + VotingPhase)
           => sessions'[b] = sessions[b]]_vars
  BY <1>1
<1> QED
  BY <1>2, IInvAlways, PTL DEF Spec, ClosedSessionsFrozen
=============================================================================
