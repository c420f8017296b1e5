------------------------------ MODULE Checkpoint ------------------------------
(***************************************************************************)
(* The checkpoint manager (pkg/consensus/checkpoint.go) and the state      *)
(* pruner that asks it how far finality has come                           *)
(* (pkg/blockchain/state_pruner.go), on one LevelDB.                       *)
(*                                                                         *)
(* Every method of CheckpointManager holds cm.mu, so it is one action; its *)
(* Put may fail after memory was changed.  PruneOldBlocks takes no lock of *)
(* its own: it reads the finalized height, opens an iterator (a snapshot   *)
(* of the block keys) and writes its deletions batch by batch, while       *)
(* blocks are added and checkpoints are created and finalized.             *)
(*                                                                         *)
(* cmd/rnr/main.go runs CleanupOldCheckpoints and PerformMaintenance from  *)
(* tickers; it never calls CreateCheckpoint or FinalizeCheckpoint, so      *)
(* their callers here are any that pass a stored block and its votes.      *)
(***************************************************************************)
EXTENDS Integers, FiniteSets

CONSTANTS
    MaxHeight,      \* bound on block heights
    Interval,       \* cm.checkpointInterval
    RetentionBlocks,\* sp.retentionBlocks
    BatchSize,      \* deletions per leveldb.Batch (100)
    KeepLast,       \* argument of CleanupOldCheckpoints (10)
    Tallies,        \* votes and validator counts checkpoints are created with
    Radix,          \* of the digits in "block_<height>" (10)
    MaxFaults,      \* bound on crashes and failed writes, together
    NoCheckpoint    \* the map has no entry

Heights == 1 .. MaxHeight

ASSUME CheckpointAssumption ==
    /\ MaxHeight \in Nat \ {0}
    /\ Interval \in Nat \ {0}
    /\ RetentionBlocks \in Nat
    /\ BatchSize \in Nat \ {0}
    /\ KeepLast \in Nat
    /\ Tallies \subseteq [votes : Nat, total : Nat]
    /\ Radix \in Nat \ {0} /\ MaxHeight < Radix * Radix
    /\ MaxFaults \in Nat
    /\ NoCheckpoint \notin [votes : Nat, total : Nat]

VARIABLES
    blocks,           \* heights with a "block_<h>" key
    checkpoints,      \* cm.checkpoints
    finalizedHeight,  \* cm.finalizedHeight
    diskCheckpoints,  \* "checkpoint_<h>" keys
    diskFinalized,    \* "finalized_height" key, 0 when missing
    prune,            \* PruneOldBlocks: "idle", "read" or "scan"
    threshold,        \* its pruneThreshold
    doomed,           \* keys its iterator has yet to pass to a batch
    faults,           \* crashes and failed writes so far
    written,          \* history: heights ever stored
    everFinal,        \* history: heights ever finalized
    unsaved           \* history: a Put of checkpoint or finalized height failed

chain == <<blocks, written>>
memory == <<checkpoints, finalizedHeight>>
disk == <<diskCheckpoints, diskFinalized>>
pruner == <<prune, threshold, doomed>>
vars == <<chain, memory, disk, pruner, faults, everFinal, unsaved>>

Record == [votes : Nat, total : Nat]
Map == [Heights -> Record \cup {NoCheckpoint}]
Recorded(m) == {h \in Heights : m[h] # NoCheckpoint}

-----------------------------------------------------------------------------
(* Mutants.                                                                *)

PruneThresholdAfter == finalizedHeight + RetentionBlocks

ExpendableByCount(h) ==
    Cardinality({k \in Recorded(checkpoints) : k > h}) >= KeepLast

LoadedLatest ==
    IF Recorded(diskCheckpoints) = {} THEN 0
    ELSE CHOOSE h \in Recorded(diskCheckpoints) : \A k \in Recorded(diskCheckpoints) : k <= h

MayPruneEarly == finalizedHeight # 0

-----------------------------------------------------------------------------
(* The checkpoint manager.                                                 *)

ShouldCreateCheckpoint(h) == h % Interval = 0

\* int(float64(total) * 0.67): zero for a single validator.
RequiredVotes(total) == (67 * total) \div 100

\* A write that succeeds, and one that fails.
Saves == UNCHANGED <<faults, unsaved>>
Fails == faults < MaxFaults /\ faults' = faults + 1 /\ unsaved' = TRUE

\* The map is changed first; an error of Put leaves it so.
CreateCheckpoint(h, record) ==
    /\ h \in blocks /\ ShouldCreateCheckpoint(h)
    /\ checkpoints' = [checkpoints EXCEPT ![h] = record]
    /\ \/ Saves /\ diskCheckpoints' = [diskCheckpoints EXCEPT ![h] = record]
       \/ Fails /\ UNCHANGED diskCheckpoints
    /\ UNCHANGED <<chain, finalizedHeight, diskFinalized, pruner, everFinal>>

\* FinalizeCheckpoint's early returns.
HasVotes(h) ==
    /\ checkpoints[h] # NoCheckpoint
    /\ checkpoints[h].votes >= RequiredVotes(checkpoints[h].total)

\* The height is not compared with the one finalized before: it may go down.
FinalizeCheckpoint(h) ==
    /\ HasVotes(h)
    /\ finalizedHeight' = h
    /\ everFinal' = everFinal \cup {h}
    /\ \/ Saves /\ diskFinalized' = h
       \/ Fails /\ UNCHANGED diskFinalized
    /\ UNCHANGED <<chain, checkpoints, diskCheckpoints, pruner>>

\* Beyond the KeepLast highest, and above the finalized height.
Expendable(h) ==
    /\ Cardinality({k \in Recorded(checkpoints) : k > h}) >= KeepLast
    /\ h > finalizedHeight

\* The result of each Delete is ignored: any of the records may stay on disk.
CleanupOldCheckpoints ==
    LET gone == {h \in Recorded(checkpoints) : Expendable(h)} IN
    /\ gone # {}
    /\ checkpoints' = [h \in Heights |-> IF h \in gone THEN NoCheckpoint ELSE checkpoints[h]]
    /\ \E deleted \in SUBSET gone :
         /\ diskCheckpoints' =
              [h \in Heights |-> IF h \in deleted THEN NoCheckpoint ELSE diskCheckpoints[h]]
         /\ faults' = IF deleted = gone THEN faults ELSE faults + 1
         /\ faults' <= MaxFaults
    /\ UNCHANGED <<chain, finalizedHeight, diskFinalized, pruner, everFinal, unsaved>>

-----------------------------------------------------------------------------
(* PruneOldBlocks, called by PerformMaintenance.                           *)

\* LevelDB visits keys in byte order: "block_10" comes before "block_9".  The rank
\* of a height of one or two digits.
KeyRank(h) == IF h < Radix THEN 2 * h * Radix ELSE 2 * h + 1

PruneThreshold == finalizedHeight - RetentionBlocks

\* Nothing finalized, or not enough of it, ends the call; so the uint64 subtraction
\* cannot wrap.
MayPrune == finalizedHeight # 0 /\ finalizedHeight > RetentionBlocks

\* The finalized height is read under cm.mu and used after the unlock.
PruneRead ==
    /\ prune = "idle"
    /\ MayPrune
    /\ prune' = "read"
    /\ threshold' = PruneThreshold
    /\ UNCHANGED <<chain, memory, disk, doomed, faults, everFinal, unsaved>>

\* The iterator sees the keys as they are now.
PruneOpen ==
    /\ prune = "read"
    /\ prune' = "scan"
    /\ doomed' = {h \in blocks : h < threshold}
    /\ UNCHANGED <<chain, memory, disk, threshold, faults, everFinal, unsaved>>

\* The next BatchSize deletions, or what is left of them.
Batch ==
    {h \in doomed : Cardinality({k \in doomed : KeyRank(k) < KeyRank(h)}) < BatchSize}

\* A batch is written; an error ends the call with the earlier batches gone.
PruneWrite ==
    /\ prune = "scan" /\ doomed # {}
    /\ \/ /\ blocks' = blocks \ Batch
          /\ doomed' = doomed \ Batch
          /\ UNCHANGED <<prune, threshold, faults>>
       \/ /\ faults < MaxFaults /\ faults' = faults + 1
          /\ prune' = "idle" /\ threshold' = 0 /\ doomed' = {}
          /\ UNCHANGED blocks
    /\ UNCHANGED <<written, memory, disk, everFinal, unsaved>>

PruneDone ==
    /\ prune = "scan" /\ doomed = {}
    /\ prune' = "idle" /\ threshold' = 0
    /\ UNCHANGED <<chain, memory, disk, doomed, faults, everFinal, unsaved>>

-----------------------------------------------------------------------------
(* The chain, the process.                                                 *)

\* AddBlock as the rest of the node calls it: the height after the tip, or one that
\* was stored before (a stale own block, see Chain), pruned or not.
AddBlock(h) ==
    /\ h = 1 \/ h \in written \/ h - 1 \in written
    /\ blocks' = blocks \cup {h}
    /\ written' = written \cup {h}
    /\ UNCHANGED <<memory, disk, pruner, faults, everFinal, unsaved>>

LoadedFinalized == diskFinalized

\* The process stops and starts again: loadCheckpoints.
Restart ==
    /\ faults < MaxFaults /\ faults' = faults + 1
    /\ checkpoints' = diskCheckpoints
    /\ finalizedHeight' = LoadedFinalized
    /\ prune' = "idle" /\ threshold' = 0 /\ doomed' = {}
    /\ UNCHANGED <<chain, disk, everFinal, unsaved>>

Init ==
    /\ blocks = {} /\ written = {}
    /\ checkpoints = [h \in Heights |-> NoCheckpoint]
    /\ finalizedHeight = 0
    /\ diskCheckpoints = [h \in Heights |-> NoCheckpoint]
    /\ diskFinalized = 0
    /\ prune = "idle" /\ threshold = 0 /\ doomed = {}
    /\ faults = 0
    /\ everFinal = {}
    /\ unsaved = FALSE

Next ==
    \/ \E h \in Heights :
          \/ AddBlock(h)
          \/ \E record \in Tallies : CreateCheckpoint(h, record)
          \/ FinalizeCheckpoint(h)
    \/ CleanupOldCheckpoints
    \/ PruneRead \/ PruneOpen \/ PruneWrite \/ PruneDone
    \/ Restart

Spec == Init /\ [][Next]_vars

-----------------------------------------------------------------------------
(* Properties.                                                             *)

\* Every field of the manager, the pruner and the store has its type.
TypeOK ==
    /\ blocks \subseteq Heights /\ written \subseteq Heights
    /\ checkpoints \in Map /\ diskCheckpoints \in Map
    /\ finalizedHeight \in 0 .. MaxHeight /\ diskFinalized \in 0 .. MaxHeight
    /\ prune \in {"idle", "read", "scan"}
    /\ threshold \in 0 .. MaxHeight
    /\ doomed \subseteq Heights
    /\ faults \in Nat
    /\ everFinal \subseteq Heights
    /\ unsaved \in BOOLEAN

\* Pruning never takes a block that finality does not cover: a height once stored and
\* now missing lies more than RetentionBlocks below a checkpoint that really was
\* finalized, whatever was added, finalized or restarted between PruneOldBlocks'
\* reading the finalized height, opening its iterator and writing its batches.
PrunedIsFinal ==
    \A h \in written \ blocks : \E f \in everFinal : h + RetentionBlocks < f

\* A restart resumes with the checkpoints and the finality the process had: as long
\* as no Put failed, loadCheckpoints would read back every record of the map and the
\* finalized height, although CleanupOldCheckpoints' deletions may fail.
DiskMirrorsMemory ==
    ~unsaved =>
        /\ finalizedHeight = diskFinalized
        /\ \A h \in Recorded(checkpoints) : diskCheckpoints[h] = checkpoints[h]

\* Cleanup never drops the checkpoint that finality rests on: the finalized height
\* names a checkpoint of the map, as long as no Put failed.
FinalityBacked ==
    ~unsaved /\ finalizedHeight # 0 => checkpoints[finalizedHeight] # NoCheckpoint
=============================================================================
