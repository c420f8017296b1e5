-------------------------- MODULE CheckpointProofs --------------------------
(***************************************************************************)
(* TLAPS proofs about Checkpoint: type correctness, pruning only below     *)
(* finality, and what a restart finds on disk, for chains, retention,      *)
(* batches and vote tallies of any size.                                   *)
(***************************************************************************)
EXTENDS Checkpoint, TLAPS

\* What PruneOldBlocks carries between its steps: a threshold taken from a height that
\* was finalized at some time, and keys below it.
PruneInv ==
    /\ finalizedHeight # 0 => finalizedHeight \in everFinal
    /\ diskFinalized # 0 => diskFinalized \in everFinal
    /\ prune # "idle" => \E f \in everFinal : threshold + RetentionBlocks = f
    /\ prune # "scan" => doomed = {}
    /\ \A h \in doomed : h < threshold

IInv == TypeOK /\ PruneInv /\ PrunedIsFinal /\ DiskMirrorsMemory /\ FinalityBacked

-----------------------------------------------------------------------------
\* An empty store satisfies the invariant.
LEMMA InitInv == Init => IInv
<1> SUFFICES ASSUME Init PROVE IInv
  OBVIOUS
<1>1. TypeOK
  <2>1. [h \in Heights |-> NoCheckpoint] \in Map
    BY DEF Map
  <2>2. 0 \in 0 .. MaxHeight
    BY CheckpointAssumption
  <2> QED
    BY <2>1, <2>2 DEF Init, TypeOK
<1>2. PruneInv /\ PrunedIsFinal /\ DiskMirrorsMemory /\ FinalityBacked
  BY DEF Init, PruneInv, PrunedIsFinal, DiskMirrorsMemory, FinalityBacked, Recorded
<1> QED
  BY <1>1, <1>2 DEF IInv

\* Every step of the manager, the pruner and the chain keeps the types; that the
\* pruner's subtraction stays a height is due to its early returns.
LEMMA TypeStep == TypeOK /\ [Next]_vars => TypeOK'
<1> SUFFICES ASSUME TypeOK, [Next]_vars PROVE TypeOK'
  OBVIOUS
<1> USE DEF TypeOK
<1>1. ASSUME NEW h \in Heights, AddBlock(h) PROVE TypeOK'
  BY <1>1 DEF AddBlock, memory, disk, pruner
<1>2. ASSUME NEW h \in Heights, NEW record \in Tallies, CreateCheckpoint(h, record) PROVE TypeOK'
  <2>1. record \in Record
    BY CheckpointAssumption DEF Record
  <2>2. checkpoints' \in Map /\ diskCheckpoints' \in Map
    BY <1>2, <2>1 DEF CreateCheckpoint, Map
  <2>3. faults' \in Nat
    BY <1>2 DEF CreateCheckpoint, Saves, Fails
  <2>6. unsaved' \in BOOLEAN
    BY <1>2, Zenon DEF CreateCheckpoint, Saves, Fails
  <2>4. UNCHANGED <<chain, finalizedHeight, diskFinalized, pruner, everFinal>>
    BY <1>2 DEF CreateCheckpoint
  <2> QED
    BY <2>2, <2>3, <2>4, <2>6 DEF chain, pruner
<1>3. ASSUME NEW h \in Heights, FinalizeCheckpoint(h) PROVE TypeOK'
  <2>1. h \in 0 .. MaxHeight
    BY CheckpointAssumption DEF Heights
  <2>2. finalizedHeight' \in 0 .. MaxHeight /\ diskFinalized' \in 0 .. MaxHeight
    BY <1>3, <2>1 DEF FinalizeCheckpoint
  <2>3. faults' \in Nat
    BY <1>3 DEF FinalizeCheckpoint, Saves, Fails
  <2>6. unsaved' \in BOOLEAN
    BY <1>3, Zenon DEF FinalizeCheckpoint, Saves, Fails
  <2>4. everFinal' \subseteq Heights
    BY <1>3 DEF FinalizeCheckpoint
  <2>5. UNCHANGED <<chain, checkpoints, diskCheckpoints, pruner>>
    BY <1>3 DEF FinalizeCheckpoint
  <2> QED
    BY <2>2, <2>3, <2>4, <2>5, <2>6 DEF chain, pruner
<1>4. ASSUME CleanupOldCheckpoints PROVE TypeOK'
  <2>1. checkpoints' \in Map /\ diskCheckpoints' \in Map
    BY <1>4 DEF CleanupOldCheckpoints, Map
  <2>2. faults' \in Nat
    BY <1>4 DEF CleanupOldCheckpoints
  <2>3. UNCHANGED <<chain, finalizedHeight, diskFinalized, pruner, everFinal, unsaved>>
    BY <1>4 DEF CleanupOldCheckpoints
  <2> QED
    BY <2>1, <2>2, <2>3 DEF chain, pruner
<1>5. ASSUME PruneRead PROVE TypeOK'
  <2>1. threshold' \in 0 .. MaxHeight
    BY <1>5, CheckpointAssumption DEF PruneRead, MayPrune, PruneThreshold
  <2> QED
    BY <1>5, <2>1 DEF PruneRead, chain, memory, disk
<1>6. ASSUME PruneOpen PROVE TypeOK'
  BY <1>6 DEF PruneOpen, chain, memory, disk
<1>7. ASSUME PruneWrite PROVE TypeOK'
  BY <1>7, CheckpointAssumption DEF PruneWrite, memory, disk
<1>8. ASSUME PruneDone PROVE TypeOK'
  BY <1>8, CheckpointAssumption DEF PruneDone, chain, memory, disk
<1>9. ASSUME Restart PROVE TypeOK'
  BY <1>9, CheckpointAssumption DEF Restart, LoadedFinalized, chain, disk
<1>10. ASSUME UNCHANGED vars PROVE TypeOK'
  BY <1>10 DEF vars, chain, memory, disk, pruner
<1> QED
  BY <1>1, <1>2, <1>3, <1>4, <1>5, <1>6, <1>7, <1>8, <1>9, <1>10 DEF Next

\* The pruner's threshold and its list stay justified by finality, whatever happens
\* between its steps.
LEMMA PruneStep ==
    TypeOK /\ PruneInv /\ PrunedIsFinal /\ [Next]_vars => PruneInv' /\ PrunedIsFinal'
<1> SUFFICES ASSUME TypeOK, PruneInv, PrunedIsFinal, [Next]_vars
             PROVE  PruneInv' /\ PrunedIsFinal'
  OBVIOUS
<1> USE DEF PruneInv, PrunedIsFinal
<1>1. ASSUME NEW h \in Heights, AddBlock(h) PROVE PruneInv' /\ PrunedIsFinal'
  BY <1>1 DEF AddBlock, memory, disk, pruner
<1>2. ASSUME NEW h \in Heights, NEW record \in Tallies, CreateCheckpoint(h, record)
      PROVE  PruneInv' /\ PrunedIsFinal'
  BY <1>2 DEF CreateCheckpoint, chain, pruner
<1>3. ASSUME NEW h \in Heights, FinalizeCheckpoint(h) PROVE PruneInv' /\ PrunedIsFinal'
  BY <1>3 DEF FinalizeCheckpoint, chain, pruner
<1>4. ASSUME CleanupOldCheckpoints PROVE PruneInv' /\ PrunedIsFinal'
  BY <1>4 DEF CleanupOldCheckpoints, chain, pruner
<1>5. ASSUME PruneRead PROVE PruneInv' /\ PrunedIsFinal'
  <2>1. finalizedHeight \in everFinal /\ threshold' + RetentionBlocks = finalizedHeight
    BY <1>5, CheckpointAssumption DEF PruneRead, MayPrune, PruneThreshold, TypeOK
  <2> QED
    BY <1>5, <2>1 DEF PruneRead, chain, memory, disk
<1>6. ASSUME PruneOpen PROVE PruneInv' /\ PrunedIsFinal'
  BY <1>6 DEF PruneOpen, chain, memory, disk
<1>7. ASSUME PruneWrite PROVE PruneInv' /\ PrunedIsFinal'
  <2>1. PICK f \in everFinal : threshold + RetentionBlocks = f
    BY <1>7 DEF PruneWrite
  <2>2. Batch \subseteq doomed
    BY DEF Batch
  <2>3. ASSUME NEW h \in doomed PROVE h + RetentionBlocks < f
    BY <2>1, CheckpointAssumption DEF TypeOK, Heights
  <2>4. written' = written /\ everFinal' = everFinal /\ blocks \ doomed \subseteq blocks'
    BY <1>7, <2>2 DEF PruneWrite
  <2>5. PrunedIsFinal'
    BY <2>3, <2>4
  <2>6. PruneInv'
    BY <1>7 DEF PruneWrite, memory, disk
  <2> QED
    BY <2>5, <2>6
<1>8. ASSUME PruneDone PROVE PruneInv' /\ PrunedIsFinal'
  BY <1>8 DEF PruneDone, chain, memory, disk
<1>9. ASSUME Restart PROVE PruneInv' /\ PrunedIsFinal'
  BY <1>9 DEF Restart, LoadedFinalized, chain, disk
<1>10. ASSUME UNCHANGED vars PROVE PruneInv' /\ PrunedIsFinal'
  BY <1>10 DEF vars, chain, memory, disk, pruner
<1> QED
  BY <1>1, <1>2, <1>3, <1>4, <1>5, <1>6, <1>7, <1>8, <1>9, <1>10 DEF Next

\* Memory and disk move together as long as every Put succeeds, and the cleanup spares
\* the checkpoint that finality rests on.
LEMMA DiskStep ==
    TypeOK /\ DiskMirrorsMemory /\ FinalityBacked /\ [Next]_vars
        => DiskMirrorsMemory' /\ FinalityBacked'
<1> SUFFICES ASSUME TypeOK, DiskMirrorsMemory, FinalityBacked, [Next]_vars
             PROVE  DiskMirrorsMemory' /\ FinalityBacked'
  OBVIOUS
<1> USE DEF DiskMirrorsMemory, FinalityBacked, Recorded
<1>1. ASSUME NEW h \in Heights, NEW record \in Tallies, CreateCheckpoint(h, record)
      PROVE  DiskMirrorsMemory' /\ FinalityBacked'
  <2>1. record # NoCheckpoint
    BY CheckpointAssumption
  <2>2. /\ checkpoints' = [checkpoints EXCEPT ![h] = record]
        /\ \/ unsaved' = unsaved /\ diskCheckpoints' = [diskCheckpoints EXCEPT ![h] = record]
           \/ unsaved'
        /\ UNCHANGED <<finalizedHeight, diskFinalized>>
    BY <1>1 DEF CreateCheckpoint, Saves, Fails
  <2> QED
    BY <2>1, <2>2 DEF TypeOK, Map
<1>2. ASSUME NEW h \in Heights, FinalizeCheckpoint(h) PROVE DiskMirrorsMemory' /\ FinalityBacked'
  BY <1>2 DEF FinalizeCheckpoint, HasVotes, Saves, Fails
<1>3. ASSUME CleanupOldCheckpoints PROVE DiskMirrorsMemory' /\ FinalityBacked'
  <2> DEFINE gone == {h \in Recorded(checkpoints) : Expendable(h)}
  <2>1. PICK deleted \in SUBSET gone : diskCheckpoints' =
              [h \in Heights |-> IF h \in deleted THEN NoCheckpoint ELSE diskCheckpoints[h]]
    BY <1>3 DEF CleanupOldCheckpoints
  <2>2. /\ checkpoints' = [h \in Heights |-> IF h \in gone THEN NoCheckpoint ELSE checkpoints[h]]
        /\ UNCHANGED <<finalizedHeight, diskFinalized, unsaved>>
    BY <1>3 DEF CleanupOldCheckpoints
  <2>3. finalizedHeight \notin gone
    BY DEF Expendable, TypeOK
  <2>4. DiskMirrorsMemory'
    BY <2>1, <2>2
  <2>5. finalizedHeight # 0 => finalizedHeight \in Heights
    BY CheckpointAssumption DEF TypeOK, Heights
  <2>6. FinalityBacked'
    BY <2>2, <2>3, <2>5
  <2> QED
    BY <2>4, <2>6
<1>4. ASSUME Restart PROVE DiskMirrorsMemory' /\ FinalityBacked'
  <2>1. finalizedHeight # 0 => finalizedHeight \in Heights
    BY CheckpointAssumption DEF TypeOK, Heights
  <2> QED
    BY <1>4, <2>1 DEF Restart, LoadedFinalized, disk
<1>5. ASSUME UNCHANGED <<memory, disk, unsaved>> PROVE DiskMirrorsMemory' /\ FinalityBacked'
  BY <1>5 DEF memory, disk
<1>6. ASSUME \/ \E h \in Heights : AddBlock(h)
             \/ PruneRead \/ PruneOpen \/ PruneWrite \/ PruneDone
             \/ UNCHANGED vars
      PROVE  UNCHANGED <<memory, disk, unsaved>>
  BY <1>6 DEF AddBlock, PruneRead, PruneOpen, PruneWrite, PruneDone, vars
<1> QED
  BY <1>1, <1>2, <1>3, <1>4, <1>5, <1>6 DEF Next

\* The inductive invariant holds throughout.
LEMMA IInvAlways == Spec => []IInv
<1>1. IInv /\ [Next]_vars => IInv'
  BY TypeStep, PruneStep, DiskStep DEF IInv
<1> QED
  BY <1>1, InitInv, PTL DEF Spec

-----------------------------------------------------------------------------
\* Every field of the manager, the pruner and the store keeps its type.
THEOREM TypeCorrect == Spec => []TypeOK
<1>1. IInv => TypeOK
  BY DEF IInv
<1> QED
  BY <1>1, IInvAlways, PTL

\* PruneOldBlocks only ever removes blocks more than RetentionBlocks below a height that
\* was finalized, for every interleaving and every number of restarts.
THEOREM PruningRespectsFinality == Spec => []PrunedIsFinal
<1>1. IInv => PrunedIsFinal
  BY DEF IInv
<1> QED
  BY <1>1, IInvAlways, PTL

\* Without a failed Put, loadCheckpoints finds what the process knew when it stopped.
THEOREM RestartFindsMemory == Spec => []DiskMirrorsMemory
<1>1. IInv => DiskMirrorsMemory
  BY DEF IInv
<1> QED
  BY <1>1, IInvAlways, PTL

\* Without a failed Put, the finalized height always names a checkpoint of the map.
THEOREM FinalityKeepsItsCheckpoint == Spec => []FinalityBacked
<1>1. IInv => FinalityBacked
  BY DEF IInv
<1> QED
  BY <1>1, IInvAlways, PTL
=============================================================================
