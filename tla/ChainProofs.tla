----------------------------- MODULE ChainProofs -----------------------------
(***************************************************************************)
(* TLAPS proofs about Chain, for every tree of blocks: the stored chain is *)
(* linked, applied blocks stay on it, and the tip never leaves it, with    *)
(* peers' blocks arriving between the steps of the validator's pipeline.   *)
(***************************************************************************)
EXTENDS Chain, TLAPS

USE DEF history

\* The number one block has below another on a chain whose heights follow each other.
LinkedBelow(b) == Parent[b] = IF Height[b] = 1 THEN Genesis ELSE store[Height[b] - 1]

\* What the pipeline knows about its block between VerifyBlock and AddBlock (peers may
\* have moved the tip since) and between AddBlock and the application to State.
PipeInv ==
    /\ ~up => stage = "idle" /\ incoming = None
    /\ stage # "idle" => own \in OwnBlocks
    /\ ~misnumbered /\ ~overtaken /\ stage = "verified" =>
          /\ Height[own] <= Height[tip] + 1
          /\ \A b \in applied : Height[b] < Height[own]
          /\ ~torn => LinkedBelow(own)
    /\ ~misnumbered /\ ~overtaken /\ stage = "added" =>
          store[Height[own]] = own /\ Height[own] <= Height[diskTip]

\* Both check-then-add handlers write right above heights that are in use, and heights
\* stay in use, however stale the check is by then.
FillInv ==
    /\ incoming # None => mainTip \in Blocks
    /\ ~misnumbered /\ incoming # None =>
          \A k \in Heights \ {0} : k <= Height[mainTip] => store[k] # None
    /\ ~misnumbered /\ stage = "verified" =>
          \A k \in Heights \ {0} : k < Height[own] => store[k] # None

\* Only genesis is a tip at height zero.
RootInv ==
    ~misnumbered =>
        \A b \in {tip, diskTip, mainTip} : b \in Blocks /\ Height[b] = 0 => b = Genesis

IInv == TypeOK /\ ChainLinked /\ AppliedStays /\ PipeInv /\ FillInv /\ RootInv

-----------------------------------------------------------------------------
\* Heights: those in use and all below, and an own block is one above its parent.
LEMMA HeightFacts ==
    /\ \A b \in Blocks : Height[b] \in Nat /\ Height[b] \in Heights
    /\ \A b \in OwnBlocks :
          /\ b \in Blocks \ {Genesis} /\ Parent[b] \in Blocks
          /\ Height[b] = Height[Parent[b]] + 1
          /\ Height[b] > 0
    /\ Heights \subseteq Nat
    /\ \A k \in Heights \ {0} : k - 1 \in Heights
<1>1. \A b \in Blocks : Height[b] \in Nat
  BY TreeAssumption
<1>2. \A b \in Blocks : Height[b] \in 0..Height[b]
  BY <1>1
<1>3. \A b \in Blocks : Height[b] \in Heights
  BY <1>2 DEF Heights
<1>4. ASSUME NEW b \in OwnBlocks
      PROVE  /\ b \in Blocks \ {Genesis} /\ Parent[b] \in Blocks
             /\ Height[b] = Height[Parent[b]] + 1
             /\ Height[b] > 0
  <2>1. b \in Blocks \ {Genesis} /\ Parent[b] \in Blocks /\ Height[b] = Height[Parent[b]] + 1
    BY TreeAssumption
  <2> QED
    BY <1>1, <2>1
<1>5. Heights \subseteq Nat
  BY <1>1 DEF Heights
<1>6. ASSUME NEW k \in Heights \ {0} PROVE k - 1 \in Heights
  <2>1. PICK b \in Blocks : k \in 0..Height[b]
    BY DEF Heights
  <2>2. k - 1 \in 0..Height[b]
    BY <1>1, <2>1
  <2> QED
    BY <2>2 DEF Heights
<1> QED
  BY <1>1, <1>3, <1>4, <1>5, <1>6

\* AddBlock's first Put changes one height.
LEMMA StoredAt ==
    ASSUME TypeOK, NEW b \in Blocks, NEW k \in Heights
    PROVE  Stored(b)[k] = IF k = Height[b] THEN b ELSE store[k]
BY HeightFacts DEF Stored, TypeOK

\* A complete AddBlock of a block whose parent is on the stored chain keeps the chain
\* linked; this is all VerifyBlock's earlier answer is needed for.
LEMMA AddKeepsLinks ==
    ASSUME TypeOK, ChainLinked, up, NEW b \in Blocks \ {Genesis}, AddBlockOk(b),
           ~misnumbered' =>
               /\ ~misnumbered
               /\ \A k \in Heights \ {0} : k < Height[b] => store[k] # None,
           ~misnumbered' /\ ~torn /\ ~overtaken' =>
               ~overtaken /\ Height[b] <= Height[tip] + 1 /\ LinkedBelow(b)
    PROVE  ChainLinked'
<1>1. store' = Stored(b) /\ diskTip' = b /\ tip' = b /\ torn' = torn /\ tip = diskTip
  BY DEF AddBlockOk, ChainLinked
<1>2. diskTip \in Blocks /\ Height[diskTip] \in Nat /\ Height[b] \in Nat /\ Height[b] \in Heights
  BY HeightFacts DEF TypeOK
<1>3. b # None
  BY TreeAssumption
<1>4. ASSUME ~misnumbered', NEW k \in Heights \ {0}, k <= Height[b] PROVE store'[k] # None
  <2>1. CASE k = Height[b]
    BY <1>1, <1>3, <2>1, StoredAt
  <2>2. CASE k # Height[b]
    <3>1. k < Height[b]
      BY <1>2, <1>4, <2>2, HeightFacts
    <3> QED
      BY <1>1, <1>4, <2>2, <3>1, StoredAt
  <2> QED
    BY <2>1, <2>2
<1>5. ASSUME ~misnumbered', ~torn, ~overtaken', NEW k \in Heights \ {0}, k <= Height[b]
      PROVE  /\ k = Height[b] => store'[k] = b
             /\ Parent[store'[k]] = IF k = 1 THEN Genesis ELSE store'[k - 1]
  <2>0. k - 1 \in Heights /\ k \in Nat
    BY HeightFacts
  <2>1. k - 1 # Height[b]
    BY <1>2, <1>5, <2>0
  <2>2. store'[k - 1] = store[k - 1]
    BY <1>1, <2>0, <2>1, StoredAt
  <2>3. CASE k = Height[b]
    <3>1. store'[k] = b
      BY <1>1, <2>3, StoredAt
    <3> QED
      BY <1>5, <2>2, <2>3, <3>1 DEF LinkedBelow
  <2>4. CASE k # Height[b]
    <3>1. k <= Height[diskTip]
      BY <1>1, <1>2, <1>5, <2>0, <2>4
    <3>2. store'[k] = store[k]
      BY <1>1, <2>4, StoredAt
    <3> QED
      BY <1>5, <2>2, <2>4, <3>1, <3>2 DEF ChainLinked
  <2> QED
    BY <2>3, <2>4
<1> QED
  BY <1>1, <1>4, <1>5 DEF ChainLinked

\* An AddBlock whose second Put is missing leaves the chain below current_block as it
\* was, or has overwritten one of its heights and is recorded as torn.
LEMMA CutKeepsLinks ==
    ASSUME TypeOK, ChainLinked, NEW b \in Blocks, AddBlockSecondPutFails(b), up' => up,
           ~overtaken' => ~overtaken, ~misnumbered' => ~misnumbered
    PROVE  ChainLinked'
<1>1. /\ store' = Stored(b) /\ diskTip' = diskTip /\ tip' = tip
      /\ torn' <=> (torn \/ Height[b] <= Height[diskTip])
  BY DEF AddBlockSecondPutFails
<1>2. b # None /\ Height[b] \in Nat /\ Height[diskTip] \in Nat
  BY TreeAssumption, HeightFacts DEF TypeOK
<1>3. ASSUME ~misnumbered', NEW k \in Heights \ {0}, k <= Height[diskTip]
      PROVE  store'[k] # None
  BY <1>1, <1>2, <1>3, StoredAt DEF ChainLinked
<1>4. ASSUME ~misnumbered', ~torn', ~overtaken', NEW k \in Heights \ {0}, k <= Height[diskTip]
      PROVE  store'[k] = store[k] /\ (k # 1 => store'[k - 1] = store[k - 1]) /\ ~torn
  <2>1. Height[b] > Height[diskTip] /\ ~torn
    BY <1>1, <1>2, <1>4
  <2>2. k - 1 \in Heights /\ k \in Nat
    BY HeightFacts
  <2>3. k # Height[b] /\ k - 1 # Height[b]
    BY <1>2, <1>4, <2>1, <2>2
  <2> QED
    BY <1>1, <2>1, <2>2, <2>3, StoredAt
<1>5. ASSUME ~misnumbered', ~torn', ~overtaken', NEW k \in Heights \ {0}, k <= Height[diskTip]
      PROVE  /\ k = Height[diskTip] => store'[k] = diskTip
             /\ Parent[store'[k]] = IF k = 1 THEN Genesis ELSE store'[k - 1]
  BY <1>4, <1>5 DEF ChainLinked
<1>6. up' => tip' = diskTip'
  BY <1>1 DEF ChainLinked
<1> QED
  BY <1>1, <1>3, <1>5, <1>6 DEF ChainLinked

\* A block that follows the tip by parent hash and number sits right above current_block.
LEMMA ExtensionFacts ==
    ASSUME TypeOK, ChainLinked, RootInv, up, NEW b \in Blocks, b # Genesis, Parent[b] = tip,
           Height[b] = Height[tip] + 1
    PROVE  /\ tip = diskTip /\ tip \in Blocks /\ Height[tip] \in Nat
           /\ ~misnumbered /\ ~torn /\ ~overtaken => LinkedBelow(b)
<1>1. tip = diskTip /\ tip \in Blocks
  BY DEF ChainLinked, TypeOK
<1>2. Height[tip] \in Nat /\ Height[tip] \in Heights
  BY <1>1, HeightFacts
<1>3. Height[b] - 1 = Height[tip] /\ (Height[b] = 1 <=> Height[tip] = 0)
  BY <1>2
<1>4. ASSUME ~misnumbered, ~torn, ~overtaken, Height[tip] # 0 PROVE store[Height[tip]] = tip
  BY <1>1, <1>2, <1>4 DEF ChainLinked
<1>5. ASSUME ~misnumbered, Height[tip] = 0 PROVE tip = Genesis
  BY <1>1, <1>5 DEF RootInv
<1> QED
  BY <1>1, <1>2, <1>3, <1>4, <1>5 DEF LinkedBelow

\* A peer's block that is added and not misnumbered sits right above heights in use; unless
\* the tip has been replaced since it was read, it follows the tip.
LEMMA PeerFacts ==
    ASSUME IInv, PeerBlockExtends
    PROVE  /\ up /\ incoming \in Blocks \ {Genesis}
           /\ ~misnumbered' =>
                /\ ~misnumbered /\ Height[incoming] > 0
                /\ \A k \in Heights \ {0} : k < Height[incoming] => store[k] # None
           /\ ~misnumbered' /\ ~overtaken' =>
                /\ ~overtaken
                /\ Parent[incoming] = tip /\ Height[incoming] = Height[tip] + 1
<1>1. TypeOK /\ FillInv
  BY DEF IInv
<1>2. up /\ incoming # None /\ Extends(incoming, mainTip)
  BY DEF PeerBlockExtends
<1>3. incoming \in Blocks \ {Genesis} /\ mainTip \in Blocks /\ Parent[incoming] = mainTip
  BY <1>1, <1>2 DEF TypeOK, FillInv, Extends
<1>4. Height[mainTip] \in Nat
  BY <1>3, HeightFacts
<1>5. ~misnumbered' => ~misnumbered /\ Height[incoming] = Height[mainTip] + 1
  BY Zenon DEF PeerBlockExtends
<1>6. ASSUME ~misnumbered', NEW k \in Heights \ {0}, k < Height[incoming] PROVE store[k] # None
  <2>1. k <= Height[mainTip]
    BY <1>4, <1>5, <1>6, HeightFacts
  <2> QED
    BY <1>1, <1>2, <1>5, <1>6, <2>1 DEF FillInv
<1>7. ASSUME ~overtaken' PROVE ~overtaken /\ mainTip = tip
  BY <1>7, Zenon DEF PeerBlockExtends
<1>8. ~misnumbered' => Height[incoming] > 0
  BY <1>4, <1>5
<1> QED
  BY <1>2, <1>3, <1>5, <1>6, <1>7, <1>8

-----------------------------------------------------------------------------
(* The inductive invariant.                                                *)

\* A new database with only the genesis block satisfies the invariant.
LEMMA InitInv == Init => IInv
<1> SUFFICES ASSUME Init PROVE IInv
  OBVIOUS
<1>1. TypeOK
  BY TreeAssumption DEF Init, TypeOK, Stages
<1>2. ChainLinked
  <2>1. ASSUME NEW k \in Heights \ {0} PROVE ~(k <= Height[diskTip])
    BY HeightFacts, TreeAssumption DEF Init
  <2> QED
    BY <2>1 DEF Init, ChainLinked
<1>3. AppliedStays /\ PipeInv /\ FillInv
  BY DEF Init, AppliedStays, PipeInv, FillInv
<1>4. RootInv
  BY TreeAssumption DEF Init, RootInv
<1> QED
  BY <1>1, <1>2, <1>3, <1>4 DEF IInv

\* The first Put keeps the store's type: a block is filed under its own height.
LEMMA StoredType ==
    ASSUME TypeOK, NEW b \in Blocks
    PROVE  /\ Stored(b) \in [Heights -> Blocks \cup {None}]
           /\ \A k \in Heights : Stored(b)[k] # None => Height[Stored(b)[k]] = k
<1>1. Stored(b) \in [Heights -> Blocks \cup {None}]
  BY DEF Stored, TypeOK
<1>2. ASSUME NEW k \in Heights, Stored(b)[k] # None PROVE Height[Stored(b)[k]] = k
  BY <1>2, StoredAt DEF TypeOK
<1> QED
  BY <1>1, <1>2

\* The outcomes of AddBlock keep the types of what they write.
LEMMA AddTypes ==
    ASSUME TypeOK, NEW b \in Blocks,
           AddBlockOk(b) \/ AddBlockFirstPutFails \/ AddBlockSecondPutFails(b)
    PROVE  /\ store' \in [Heights -> Blocks \cup {None}]
           /\ \A k \in Heights : store'[k] # None => Height[store'[k]] = k
           /\ diskTip' \in Blocks /\ tip' \in Blocks
           /\ faults' \in Nat /\ torn' \in BOOLEAN
<1>1. CASE AddBlockOk(b)
  BY <1>1, StoredType DEF AddBlockOk, TypeOK
<1>2. CASE AddBlockFirstPutFails
  BY <1>2 DEF AddBlockFirstPutFails, TypeOK
<1>3. CASE AddBlockSecondPutFails(b)
  <2>1. torn' \in BOOLEAN
    BY <1>3, Zenon DEF AddBlockSecondPutFails, TypeOK
  <2>2. faults' \in Nat
    BY <1>3 DEF AddBlockSecondPutFails, TypeOK
  <2> QED
    BY <1>3, <2>1, <2>2, StoredType DEF AddBlockSecondPutFails, TypeOK
<1> QED
  BY <1>1, <1>2, <1>3

\* Every handler keeps the types; a stored block is found under its own height.
LEMMA TypeStep == IInv /\ [Next]_vars => TypeOK'
<1> SUFFICES ASSUME IInv, [Next]_vars PROVE TypeOK'
  OBVIOUS
<1>0. TypeOK /\ PipeInv
  BY DEF IInv
<1>1. ASSUME PeerBlockExtends PROVE TypeOK'
  <2>0. incoming \in Blocks
    BY <1>1, PeerFacts
  <2>1. AddBlockOk(incoming) \/ AddBlockFirstPutFails \/ AddBlockSecondPutFails(incoming)
    BY <1>1 DEF PeerBlockExtends, AddBlockCut
  <2>2. /\ orphans' = orphans /\ applied' = applied /\ proposed' = proposed
        /\ up' = up \/ up' = FALSE
        /\ stage' = stage \/ stage' = "idle"
        /\ own' = own \/ own' = None
        /\ incoming' = None /\ mainTip' = None
    BY <1>1, Zenon DEF PeerBlockExtends, AddBlockCut, ProcessStops, HandlerDone, pipeline
  <2>3. up' \in BOOLEAN /\ overtaken' \in BOOLEAN /\ misnumbered' \in BOOLEAN
    BY <1>0, <1>1, <2>2, Zenon DEF TypeOK, PeerBlockExtends
  <2>4. stage' \in Stages /\ own' \in OwnBlocks \cup {None}
    BY <1>0, <2>2 DEF TypeOK, Stages
  <2> QED
    BY <1>0, <2>0, <2>1, <2>2, <2>3, <2>4, AddTypes DEF TypeOK
<1>2. ASSUME PeerBlockForks PROVE TypeOK'
  BY <1>0, <1>2 DEF PeerBlockForks, ProcessStops, disk, TypeOK, Stages
<1>3. ASSUME PeerBlockOrphan PROVE TypeOK'
  BY <1>0, <1>3 DEF PeerBlockOrphan, HandlerDone, pipeline, TypeOK
<1>11. ASSUME NEW b \in Blocks, PeerBlockArrives(b) PROVE TypeOK'
  BY <1>0, <1>11 DEF PeerBlockArrives, disk, pipeline, TypeOK
<1>4. ASSUME NEW b \in OwnBlocks, ProposeBlock(b) PROVE TypeOK'
  BY <1>0, <1>4 DEF ProposeBlock, disk, handler, TypeOK, Stages
<1>5. ASSUME VoteOnBlock PROVE TypeOK'
  BY <1>0, <1>5 DEF VoteOnBlock, disk, handler, TypeOK, Stages
<1>6. ASSUME FinalizeAdd PROVE TypeOK'
  <2>0. own \in OwnBlocks /\ own \in Blocks
    BY <1>0, <1>6, TreeAssumption DEF FinalizeAdd, PipeInv
  <2>1. AddBlockOk(own) \/ AddBlockFirstPutFails \/ AddBlockSecondPutFails(own)
    BY <1>6 DEF FinalizeAdd, AddBlockCut
  <2>2. /\ orphans' = orphans /\ applied' = applied /\ proposed' = proposed
        /\ up' = up \/ up' = FALSE
        /\ stage' = "added" \/ stage' = "idle"
        /\ own' = own \/ own' = None
        /\ incoming' = incoming \/ incoming' = None
        /\ mainTip' = mainTip \/ mainTip' = None
        /\ overtaken' = overtaken /\ misnumbered' = misnumbered
    BY <1>6, Zenon DEF FinalizeAdd, AddBlockCut, ProcessStops, handler
  <2>3. up' \in BOOLEAN /\ overtaken' \in BOOLEAN /\ misnumbered' \in BOOLEAN
    BY <1>0, <2>2, Zenon DEF TypeOK
  <2>4. /\ stage' \in Stages /\ own' \in OwnBlocks \cup {None}
        /\ incoming' \in (Blocks \ {Genesis}) \cup {None} /\ mainTip' \in Blocks \cup {None}
    BY <1>0, <2>2 DEF TypeOK, Stages
  <2> QED
    BY <1>0, <2>0, <2>1, <2>2, <2>3, <2>4, AddTypes DEF TypeOK
<1>7. ASSUME FinalizeApply PROVE TypeOK'
  BY <1>0, <1>7 DEF FinalizeApply, handler, PipeInv, TypeOK, Stages
<1>8. ASSUME Crash PROVE TypeOK'
  <2>1. faults' \in Nat
    BY <1>0, <1>8 DEF Crash, TypeOK
  <2> QED
    BY <1>0, <1>8, <2>1 DEF Crash, ProcessStops, disk, TypeOK, Stages
<1>9. ASSUME Restart PROVE TypeOK'
  BY <1>0, <1>9 DEF Restart, disk, pipeline, handler, TypeOK
<1>10. ASSUME UNCHANGED vars PROVE TypeOK'
  BY <1>0, <1>10 DEF vars, disk, pipeline, handler, TypeOK
<1> QED
  BY <1>1, <1>2, <1>3, <1>4, <1>5, <1>6, <1>7, <1>8, <1>9, <1>10, <1>11 DEF Next, Sendable

\* Every handler keeps the stored chain linked.
LEMMA LinkStep == IInv /\ [Next]_vars => ChainLinked'
<1> SUFFICES ASSUME IInv, [Next]_vars PROVE ChainLinked'
  OBVIOUS
<1>0. TypeOK /\ ChainLinked /\ PipeInv /\ FillInv /\ RootInv
  BY DEF IInv
<1>1. ASSUME UNCHANGED <<store, diskTip, tip, torn>>, up' => up, ~overtaken' => ~overtaken,
             ~misnumbered' => ~misnumbered
      PROVE  ChainLinked'
  BY <1>0, <1>1 DEF ChainLinked
<1>2. ASSUME PeerBlockExtends PROVE ChainLinked'
  <2>0. /\ up /\ incoming \in Blocks \ {Genesis}
        /\ ~misnumbered' =>
             /\ ~misnumbered
             /\ \A k \in Heights \ {0} : k < Height[incoming] => store[k] # None
        /\ ~misnumbered' /\ ~overtaken' =>
             ~overtaken /\ Parent[incoming] = tip /\ Height[incoming] = Height[tip] + 1
    BY <1>2, PeerFacts
  <2>4. ~overtaken' => ~overtaken
    BY <1>2, Zenon DEF PeerBlockExtends
  <2>1. CASE AddBlockOk(incoming)
    <3>1. ASSUME ~misnumbered', ~torn, ~overtaken'
          PROVE  ~overtaken /\ Height[incoming] <= Height[tip] + 1 /\ LinkedBelow(incoming)
      <4>1. Height[tip] \in Nat /\ LinkedBelow(incoming)
        BY <1>0, <2>0, <3>1, ExtensionFacts
      <4> QED
        BY <2>0, <3>1, <4>1
    <3> QED
      BY <1>0, <2>0, <2>1, <3>1, AddKeepsLinks
  <2>2. CASE AddBlockFirstPutFails
    BY <1>1, <2>0, <2>2, <2>4 DEF AddBlockFirstPutFails
  <2>3. CASE AddBlockSecondPutFails(incoming)
    BY <1>0, <2>0, <2>3, <2>4, CutKeepsLinks
  <2> QED
    BY <1>2, <2>1, <2>2, <2>3 DEF PeerBlockExtends, AddBlockCut
<1>3. ASSUME FinalizeAdd PROVE ChainLinked'
  <2>0. /\ up /\ stage = "verified" /\ own \in Blocks \ {Genesis}
        /\ overtaken' = overtaken /\ misnumbered' = misnumbered
    BY <1>0, <1>3, HeightFacts DEF FinalizeAdd, PipeInv
  <2>1. CASE AddBlockOk(own)
    <3>1. ~misnumbered' =>
             ~misnumbered /\ \A k \in Heights \ {0} : k < Height[own] => store[k] # None
      BY <1>0, <2>0 DEF FillInv
    <3>2. ~misnumbered' /\ ~torn /\ ~overtaken' =>
             ~overtaken /\ Height[own] <= Height[tip] + 1 /\ LinkedBelow(own)
      BY <1>0, <2>0 DEF PipeInv
    <3> QED
      BY <1>0, <2>0, <2>1, <3>1, <3>2, AddKeepsLinks
  <2>2. CASE AddBlockFirstPutFails
    BY <1>1, <2>0, <2>2 DEF AddBlockFirstPutFails
  <2>3. CASE AddBlockSecondPutFails(own)
    BY <1>0, <2>0, <2>3, CutKeepsLinks
  <2> QED
    BY <1>3, <2>1, <2>2, <2>3 DEF FinalizeAdd, AddBlockCut
<1>4. ASSUME Restart PROVE ChainLinked'
  BY <1>0, <1>4 DEF Restart, disk, ChainLinked
<1>5. ASSUME PeerBlockForks PROVE ChainLinked'
  BY <1>1, <1>5 DEF PeerBlockForks, ProcessStops, disk
<1>6. ASSUME PeerBlockOrphan PROVE ChainLinked'
  BY <1>1, <1>6 DEF PeerBlockOrphan
<1>12. ASSUME NEW b \in Blocks, PeerBlockArrives(b) PROVE ChainLinked'
  BY <1>1, <1>12 DEF PeerBlockArrives, disk
<1>7. ASSUME NEW b \in OwnBlocks, ProposeBlock(b) PROVE ChainLinked'
  BY <1>1, <1>7 DEF ProposeBlock, disk
<1>8. ASSUME VoteOnBlock PROVE ChainLinked'
  BY <1>1, <1>8 DEF VoteOnBlock, disk
<1>9. ASSUME FinalizeApply PROVE ChainLinked'
  BY <1>1, <1>9 DEF FinalizeApply
<1>10. ASSUME Crash PROVE ChainLinked'
  BY <1>1, <1>10 DEF Crash, ProcessStops, disk
<1>11. ASSUME UNCHANGED vars PROVE ChainLinked'
  BY <1>1, <1>11 DEF vars, disk
<1> QED
  BY <1>2, <1>3, <1>4, <1>5, <1>6, <1>7, <1>8, <1>9, <1>10, <1>11, <1>12 DEF Next, Sendable

\* Writing a block above every applied one leaves the applied ones where they are.
LEMMA AppliedKept ==
    ASSUME TypeOK, AppliedStays, ~overtaken, ~misnumbered, NEW b \in Blocks,
           \A a \in applied : Height[a] < Height[b],
           store' = Stored(b), diskTip' \in {b, diskTip}
    PROVE  \A a \in applied : store'[Height[a]] = a /\ Height[a] <= Height[diskTip']
<1> SUFFICES ASSUME NEW a \in applied
             PROVE  store'[Height[a]] = a /\ Height[a] <= Height[diskTip']
  OBVIOUS
<1>1. a \in Blocks
  BY TreeAssumption DEF TypeOK
<1>2. Height[a] \in Heights /\ Height[a] \in Nat /\ Height[b] \in Nat /\ Height[a] < Height[b]
  BY <1>1, HeightFacts
<1>3. Height[a] # Height[b]
  BY <1>2
<1>4. store'[Height[a]] = store[Height[a]]
  BY <1>2, <1>3, StoredAt
<1>5. Height[a] <= Height[diskTip']
  BY <1>2 DEF AppliedStays
<1> QED
  BY <1>4, <1>5 DEF AppliedStays

\* An applied block is never overwritten: a peer's block goes above the tip, and an own
\* block was verified on a tip at or above every block applied by then.
LEMMA AppliedStep == IInv /\ [Next]_vars => AppliedStays'
<1> SUFFICES ASSUME IInv, [Next]_vars, ~overtaken', ~misnumbered' PROVE AppliedStays'
  BY DEF AppliedStays
<1>0. TypeOK /\ ChainLinked /\ AppliedStays /\ PipeInv /\ RootInv
  BY DEF IInv
<1>1. ASSUME UNCHANGED <<store, diskTip, applied, overtaken, misnumbered>> PROVE AppliedStays'
  BY <1>0, <1>1 DEF AppliedStays
<1>2. ASSUME ~overtaken, ~misnumbered, NEW b \in Blocks, \A a \in applied : Height[a] < Height[b],
             applied' = applied,
             AddBlockOk(b) \/ AddBlockFirstPutFails \/ AddBlockSecondPutFails(b)
      PROVE  AppliedStays'
  <2>1. CASE AddBlockOk(b)
    BY <1>0, <1>2, <2>1, AppliedKept DEF AddBlockOk, AppliedStays
  <2>2. CASE AddBlockFirstPutFails
    BY <1>0, <1>2, <2>2 DEF AddBlockFirstPutFails, AppliedStays
  <2>3. CASE AddBlockSecondPutFails(b)
    BY <1>0, <1>2, <2>3, AppliedKept DEF AddBlockSecondPutFails, AppliedStays
  <2> QED
    BY <1>2, <2>1, <2>2, <2>3
<1>3. ASSUME PeerBlockExtends PROVE AppliedStays'
  <2>0. /\ up /\ incoming \in Blocks \ {Genesis} /\ ~overtaken /\ ~misnumbered
        /\ Parent[incoming] = tip /\ Height[incoming] = Height[tip] + 1
    BY <1>3, PeerFacts
  <2>1. Height[incoming] = Height[diskTip] + 1 /\ Height[diskTip] \in Nat
    BY <1>0, <2>0, ExtensionFacts
  <2>2. ASSUME NEW a \in applied PROVE Height[a] < Height[incoming]
    <3>1. a \in Blocks
      BY <1>0, TreeAssumption DEF TypeOK
    <3>2. Height[a] \in Nat /\ Height[a] <= Height[diskTip]
      BY <1>0, <2>0, <3>1, HeightFacts DEF AppliedStays
    <3> QED
      BY <2>1, <3>2
  <2> QED
    BY <1>2, <1>3, <2>0, <2>2 DEF PeerBlockExtends, AddBlockCut
<1>4. ASSUME FinalizeAdd PROVE AppliedStays'
  <2>1. ~overtaken /\ ~misnumbered /\ own \in Blocks /\ \A a \in applied : Height[a] < Height[own]
    BY <1>0, <1>4, HeightFacts DEF FinalizeAdd, PipeInv
  <2> QED
    BY <1>2, <1>4, <2>1 DEF FinalizeAdd, AddBlockCut
<1>5. ASSUME FinalizeApply PROVE AppliedStays'
  BY <1>0, <1>5 DEF FinalizeApply, PipeInv, AppliedStays
<1>6. ASSUME \/ \E b \in Blocks : PeerBlockArrives(b)
             \/ PeerBlockForks \/ PeerBlockOrphan
             \/ \E b \in OwnBlocks : ProposeBlock(b)
             \/ VoteOnBlock \/ Crash \/ Restart \/ UNCHANGED vars
      PROVE  AppliedStays'
  BY <1>1, <1>6 DEF PeerBlockArrives, PeerBlockForks, PeerBlockOrphan, ProposeBlock,
                    VoteOnBlock, Crash, Restart, vars, disk
<1> QED
  BY <1>3, <1>4, <1>5, <1>6 DEF Next, Sendable

\* What the pipeline relies on survives a peer's block that is added on the tip: it is
\* written above the tip, so neither the parent of a verified block nor an added block
\* is overwritten.
LEMMA PipeSurvivesPeer ==
    ASSUME TypeOK, ChainLinked, PipeInv, RootInv, up, ~overtaken, ~misnumbered,
           NEW b \in Blocks \ {Genesis}, Parent[b] = tip, Height[b] = Height[tip] + 1,
           up' = up, applied' = applied, UNCHANGED pipeline, ~torn' => ~torn,
           store' = Stored(b),
           \/ tip' = b /\ diskTip' = b
           \/ tip' = tip /\ diskTip' = diskTip
    PROVE  PipeInv'
<1>0. up' = up /\ stage' = stage /\ own' = own
  BY DEF pipeline
<1>1. /\ tip = diskTip /\ Height[b] = Height[tip] + 1 /\ Height[tip] \in Nat
      /\ Height[b] \in Nat /\ Height[b] \in Heights
  BY ExtensionFacts, HeightFacts
<1>2. Height[tip] <= Height[tip'] /\ Height[diskTip] <= Height[diskTip'] /\ Height[tip'] \in Nat
  BY <1>1
<1>3. CASE stage = "verified"
  <2>1. own \in OwnBlocks /\ Height[own] <= Height[tip] + 1
    BY <1>3 DEF PipeInv
  <2>2. Height[own] \in Nat /\ Height[own] \in Heights /\ Height[own] > 0
    BY <2>1, HeightFacts
  <2>6. Height[own] - 1 \in Heights
    BY <2>2, HeightFacts
  <2>3. Height[own] - 1 # Height[b] /\ Height[own] <= Height[tip'] + 1
    BY <1>1, <1>2, <2>1, <2>2
  <2>4. store'[Height[own] - 1] = store[Height[own] - 1]
    BY <2>3, <2>6, StoredAt
  <2>5. ~torn' => Parent[own] = IF Height[own] = 1 THEN Genesis ELSE store'[Height[own] - 1]
    <3>1. ~torn => LinkedBelow(own)
      BY <1>3 DEF PipeInv
    <3> QED
      BY <2>4, <3>1 DEF LinkedBelow
  <2> QED
    BY <1>0, <1>3, <2>3, <2>5 DEF PipeInv, LinkedBelow
<1>4. CASE stage = "added"
  <2>1. own \in Blocks /\ store[Height[own]] = own /\ Height[own] <= Height[diskTip]
    BY <1>4, HeightFacts DEF PipeInv
  <2>2. Height[own] \in Nat /\ Height[own] \in Heights /\ Height[diskTip'] \in Nat
    BY <1>1, <2>1, HeightFacts
  <2>3. Height[own] # Height[b] /\ Height[own] <= Height[diskTip']
    BY <1>1, <1>2, <2>1, <2>2
  <2>4. store'[Height[own]] = own
    BY <2>1, <2>2, <2>3, StoredAt
  <2> QED
    BY <1>0, <1>4, <2>3, <2>4 DEF PipeInv
<1>5. CASE stage \notin {"verified", "added"}
  BY <1>0, <1>5 DEF PipeInv
<1> QED
  BY <1>3, <1>4, <1>5

\* Every step keeps what the pipeline relies on.
LEMMA PipeStep == IInv /\ [Next]_vars => PipeInv'
<1> SUFFICES ASSUME IInv, [Next]_vars PROVE PipeInv'
  OBVIOUS
<1>0. TypeOK /\ ChainLinked /\ AppliedStays /\ PipeInv /\ RootInv
  BY DEF IInv
<1>1. ASSUME UNCHANGED <<store, diskTip, tip, torn, applied, stage, own, overtaken>>,
             up' = up, up, ~misnumbered' => ~misnumbered
      PROVE  PipeInv'
  BY <1>0, <1>1 DEF PipeInv, LinkedBelow
<1>2. ASSUME stage' = "idle", up' \/ incoming' = None PROVE PipeInv'
  BY <1>2 DEF PipeInv
<1>3. ASSUME PeerBlockExtends PROVE PipeInv'
  <2>0. /\ up /\ incoming \in Blocks \ {Genesis} /\ applied' = applied
        /\ ~misnumbered' => ~misnumbered
        /\ ~misnumbered' /\ ~overtaken' =>
             ~overtaken /\ Parent[incoming] = tip /\ Height[incoming] = Height[tip] + 1
    BY <1>3, PeerFacts DEF PeerBlockExtends
  <2>1. CASE AddBlockCut(incoming)
    BY <1>2, <2>1 DEF AddBlockCut, ProcessStops
  <2>2. ASSUME overtaken' \/ misnumbered', UNCHANGED <<up, pipeline>> PROVE PipeInv'
    BY <1>0, <2>0, <2>2 DEF PipeInv, pipeline
  <2>3. ASSUME ~overtaken', ~misnumbered', AddBlockOk(incoming), UNCHANGED <<up, pipeline>>
        PROVE  PipeInv'
    BY <1>0, <2>0, <2>3, PipeSurvivesPeer DEF AddBlockOk
  <2>4. ASSUME ~overtaken', ~misnumbered', AddBlockFirstPutFails, UNCHANGED <<up, pipeline>>
        PROVE  PipeInv'
    <3>1. overtaken' = overtaken
      BY <1>0, <1>3, <2>0, <2>4, Zenon DEF PeerBlockExtends, TypeOK
    <3> QED
      BY <1>1, <2>0, <2>4, <3>1 DEF AddBlockFirstPutFails, pipeline
  <2>5. ASSUME ~overtaken', ~misnumbered', AddBlockSecondPutFails(incoming),
               UNCHANGED <<up, pipeline>>
        PROVE  PipeInv'
    <3>1. ~torn' => ~torn
      BY <2>5, Zenon DEF AddBlockSecondPutFails
    <3> QED
      BY <1>0, <2>0, <2>5, <3>1, PipeSurvivesPeer DEF AddBlockSecondPutFails
  <2> QED
    BY <1>3, <2>1, <2>2, <2>3, <2>4, <2>5 DEF PeerBlockExtends
<1>4. ASSUME PeerBlockForks PROVE PipeInv'
  BY <1>2, <1>4 DEF PeerBlockForks, ProcessStops
<1>5. ASSUME PeerBlockOrphan PROVE PipeInv'
  BY <1>1, <1>5 DEF PeerBlockOrphan, pipeline
<1>13. ASSUME NEW b \in Blocks, PeerBlockArrives(b) PROVE PipeInv'
  BY <1>1, <1>13 DEF PeerBlockArrives, pipeline, disk
<1>6. ASSUME NEW b \in OwnBlocks, ProposeBlock(b) PROVE PipeInv'
  BY <1>0, <1>6 DEF ProposeBlock, disk, PipeInv
<1>7. ASSUME VoteOnBlock PROVE PipeInv'
  <2>1. CASE stage' = "idle"
    BY <1>2, <1>7, <2>1 DEF VoteOnBlock
  <2>2. CASE stage' # "idle"
    <3>1. /\ up /\ up' /\ stage' = "verified" /\ own' = own /\ Verifies(own, tip)
          /\ own \in OwnBlocks /\ own \in Blocks \ {Genesis}
          /\ UNCHANGED <<store, diskTip, tip, applied, torn, overtaken, misnumbered>>
      BY <1>0, <1>7, <2>2, HeightFacts DEF VoteOnBlock, disk, PipeInv
    <3>2. /\ tip = diskTip /\ Height[own] = Height[tip] + 1 /\ Height[tip] \in Nat
          /\ ~misnumbered /\ ~torn /\ ~overtaken => LinkedBelow(own)
      BY <1>0, <3>1, ExtensionFacts DEF Verifies
    <3>4. ASSUME ~overtaken, ~misnumbered, NEW a \in applied PROVE Height[a] < Height[own]
      <4>1. a \in Blocks
        BY <1>0, TreeAssumption DEF TypeOK
      <4>2. Height[a] \in Nat /\ Height[a] <= Height[diskTip]
        BY <1>0, <3>4, <4>1, HeightFacts DEF AppliedStays
      <4> QED
        BY <3>2, <4>2
    <3>5. Height[own] <= Height[tip] + 1
      BY <3>2
    <3> QED
      BY <3>1, <3>2, <3>4, <3>5 DEF PipeInv, LinkedBelow
  <2> QED
    BY <2>1, <2>2
<1>8. ASSUME FinalizeAdd PROVE PipeInv'
  <2>0. up /\ own \in OwnBlocks /\ own \in Blocks
    BY <1>0, <1>8, HeightFacts DEF FinalizeAdd, PipeInv
  <2>1. CASE AddBlockOk(own) /\ stage' = "added" /\ UNCHANGED <<up, own, proposed, handler>>
    <3>1. Height[own] \in Nat /\ Height[own] \in Heights
      BY <2>0, HeightFacts
    <3>2. store'[Height[own]] = own /\ diskTip' = own
      BY <1>0, <2>0, <2>1, <3>1, StoredAt DEF AddBlockOk
    <3> QED
      BY <2>0, <2>1, <3>1, <3>2 DEF PipeInv
  <2>2. CASE stage' = "idle" /\ (up' = up \/ incoming' = None)
    BY <1>2, <2>0, <2>2
  <2> QED
    BY <1>8, <2>1, <2>2 DEF FinalizeAdd, AddBlockCut, ProcessStops
<1>9. ASSUME FinalizeApply PROVE PipeInv'
  BY <1>2, <1>9 DEF FinalizeApply
<1>10. ASSUME Crash PROVE PipeInv'
  BY <1>2, <1>10 DEF Crash, ProcessStops
<1>11. ASSUME Restart PROVE PipeInv'
  BY <1>0, <1>2, <1>11 DEF Restart, pipeline, PipeInv
<1>12. ASSUME UNCHANGED vars PROVE PipeInv'
  BY <1>0, <1>12 DEF vars, disk, pipeline, handler, PipeInv, LinkedBelow
<1> QED
  BY <1>3, <1>4, <1>5, <1>6, <1>7, <1>8, <1>9, <1>10, <1>11, <1>12, <1>13 DEF Next, Sendable

\* A height in use stays in use: AddBlock only ever replaces a block by another.
LEMMA StoreGrows ==
    ASSUME IInv, [Next]_vars, NEW k \in Heights, store[k] # None PROVE store'[k] # None
<1>0. TypeOK /\ PipeInv
  BY DEF IInv
<1>1. ASSUME NEW b \in Blocks,
             AddBlockOk(b) \/ AddBlockFirstPutFails \/ AddBlockSecondPutFails(b)
      PROVE  store'[k] # None
  <2>1. b # None
    BY TreeAssumption
  <2> QED
    BY <1>0, <1>1, <2>1, StoredAt DEF AddBlockOk, AddBlockFirstPutFails, AddBlockSecondPutFails
<1>2. ASSUME PeerBlockExtends PROVE store'[k] # None
  <2>1. incoming \in Blocks
    BY <1>2, PeerFacts
  <2> QED
    BY <1>1, <1>2, <2>1 DEF PeerBlockExtends, AddBlockCut
<1>3. ASSUME FinalizeAdd PROVE store'[k] # None
  <2>1. own \in Blocks
    BY <1>0, <1>3, TreeAssumption DEF FinalizeAdd, PipeInv
  <2> QED
    BY <1>1, <1>3, <2>1 DEF FinalizeAdd, AddBlockCut
<1>4. ASSUME \/ \E b \in Blocks : PeerBlockArrives(b)
             \/ PeerBlockForks \/ PeerBlockOrphan
             \/ \E b \in OwnBlocks : ProposeBlock(b)
             \/ VoteOnBlock \/ FinalizeApply \/ Crash \/ Restart \/ UNCHANGED vars
      PROVE  store'[k] # None
  BY <1>4 DEF PeerBlockArrives, PeerBlockForks, PeerBlockOrphan, ProposeBlock,
              VoteOnBlock, FinalizeApply, Crash, Restart, vars, disk
<1> QED
  BY <1>2, <1>3, <1>4 DEF Next, Sendable

\* Every step keeps the heights below a checked block in use.
LEMMA FillStep == IInv /\ [Next]_vars => FillInv'
<1> SUFFICES ASSUME IInv, [Next]_vars PROVE FillInv'
  OBVIOUS
<1>0. TypeOK /\ ChainLinked /\ PipeInv /\ FillInv
  BY DEF IInv
<1>1. ASSUME incoming' = None \/ UNCHANGED <<incoming, mainTip>>,
             stage' # "verified" \/ UNCHANGED <<stage, own>>,
             ~misnumbered' => ~misnumbered
      PROVE  FillInv'
  BY <1>0, <1>1, StoreGrows DEF FillInv
<1>2. up /\ ~misnumbered => \A k \in Heights \ {0} : k <= Height[tip] => store[k] # None
  BY <1>0 DEF ChainLinked
<1>3. ASSUME NEW b \in Blocks, PeerBlockArrives(b) PROVE FillInv'
  <2>1. up /\ mainTip' = tip /\ tip \in Blocks /\ UNCHANGED <<store, stage, own, misnumbered>>
    BY <1>0, <1>3 DEF PeerBlockArrives, disk, pipeline, TypeOK
  <2> QED
    BY <1>0, <1>2, <2>1 DEF FillInv
<1>4. ASSUME VoteOnBlock PROVE FillInv'
  <2>1. UNCHANGED <<incoming, mainTip, store, misnumbered>> /\ own' \in {own, None} /\ up
    BY <1>4 DEF VoteOnBlock, handler, disk
  <2>2. CASE stage' # "verified"
    BY <1>1, <2>1, <2>2
  <2>3. CASE stage' = "verified"
    <3>1. own' = own /\ Height[own] = Height[tip] + 1
      BY <1>4, <2>3 DEF VoteOnBlock, Verifies
    <3>2. Height[own] = Height[tip] + 1 /\ Height[tip] \in Nat
      BY <1>0, <3>1, HeightFacts DEF TypeOK
    <3>3. ASSUME ~misnumbered, NEW k \in Heights \ {0}, k < Height[own] PROVE store'[k] # None
      <4>1. k <= Height[tip]
        BY <3>2, <3>3, HeightFacts
      <4> QED
        BY <1>2, <2>1, <3>3, <4>1
    <3> QED
      BY <1>0, <2>1, <3>1, <3>3 DEF FillInv
  <2> QED
    BY <2>2, <2>3
<1>5. ASSUME PeerBlockExtends \/ PeerBlockForks \/ PeerBlockOrphan PROVE FillInv'
  BY <1>1, <1>5 DEF PeerBlockExtends, PeerBlockForks, PeerBlockOrphan, HandlerDone,
                    AddBlockCut, ProcessStops, pipeline
<1>6. ASSUME \/ \E b \in OwnBlocks : ProposeBlock(b)
             \/ FinalizeAdd \/ FinalizeApply \/ Crash \/ Restart \/ UNCHANGED vars
      PROVE  FillInv'
  BY <1>1, <1>6 DEF ProposeBlock, FinalizeAdd, FinalizeApply, Crash, Restart, AddBlockCut,
                    ProcessStops, vars, pipeline, handler
<1> QED
  BY <1>3, <1>4, <1>5, <1>6 DEF Next, Sendable

\* Every step keeps the tip above height zero once it has left genesis.
LEMMA RootStep == IInv /\ [Next]_vars => RootInv'
<1> SUFFICES ASSUME IInv, [Next]_vars PROVE RootInv'
  OBVIOUS
<1>0. TypeOK /\ ChainLinked /\ PipeInv /\ RootInv /\ None \notin Blocks
  BY TreeAssumption DEF IInv
<1>1. ASSUME ~misnumbered' => ~misnumbered, tip' \in {tip, diskTip}, diskTip' = diskTip,
             mainTip' \in {mainTip, tip, None}
      PROVE  RootInv'
  BY <1>0, <1>1 DEF RootInv
<1>2. ASSUME ~misnumbered' => ~misnumbered, NEW b \in Blocks, ~misnumbered' => Height[b] > 0,
             AddBlockOk(b) \/ AddBlockFirstPutFails \/ AddBlockSecondPutFails(b),
             mainTip' \in {mainTip, None}
      PROVE  RootInv'
  <2>1. tip' \in {tip, b} /\ diskTip' \in {diskTip, b}
    BY <1>2 DEF AddBlockOk, AddBlockFirstPutFails, AddBlockSecondPutFails
  <2> QED
    BY <1>0, <1>2, <2>1 DEF RootInv
<1>3. ASSUME PeerBlockExtends PROVE RootInv'
  <2>1. /\ incoming \in Blocks /\ mainTip' = None
        /\ ~misnumbered' => ~misnumbered /\ Height[incoming] > 0
    BY <1>3, PeerFacts DEF PeerBlockExtends, HandlerDone, AddBlockCut, ProcessStops
  <2> QED
    BY <1>2, <1>3, <2>1 DEF PeerBlockExtends, AddBlockCut
<1>4. ASSUME FinalizeAdd PROVE RootInv'
  <2>1. /\ own \in Blocks /\ mainTip' \in {mainTip, None} /\ Height[own] > 0
        /\ misnumbered' = misnumbered
    BY <1>0, <1>4, HeightFacts DEF FinalizeAdd, PipeInv, handler, AddBlockCut, ProcessStops
  <2>2. AddBlockOk(own) \/ AddBlockFirstPutFails \/ AddBlockSecondPutFails(own)
    BY <1>4 DEF FinalizeAdd, AddBlockCut
  <2>3. /\ ~misnumbered' => ~misnumbered
        /\ ~misnumbered' => Height[own] > 0
    BY <2>1
  <2> QED
    BY ONLY <1>2, <2>1, <2>2, <2>3
<1>5. ASSUME \/ \E b \in Blocks : PeerBlockArrives(b)
             \/ PeerBlockForks \/ PeerBlockOrphan
             \/ \E b \in OwnBlocks : ProposeBlock(b)
             \/ VoteOnBlock \/ FinalizeApply \/ Crash \/ Restart \/ UNCHANGED vars
      PROVE  RootInv'
  BY <1>1, <1>5 DEF PeerBlockArrives, PeerBlockForks, PeerBlockOrphan, HandlerDone,
                    ProposeBlock, VoteOnBlock, FinalizeApply, Crash, Restart, ProcessStops,
                    vars, disk, handler
<1> QED
  BY <1>3, <1>4, <1>5 DEF Next, Sendable

\* The inductive invariant holds throughout.
LEMMA IInvAlways == Spec => []IInv
<1>1. IInv /\ [Next]_vars => IInv'
  BY TypeStep, LinkStep, AppliedStep, PipeStep, FillStep, RootStep DEF IInv
<1> QED
  BY <1>1, InitInv, PTL DEF Spec

-----------------------------------------------------------------------------
\* Every stored and volatile field keeps its type, and a block is found under its own
\* height.
THEOREM TypeCorrect == Spec => []TypeOK
<1>1. IInv => TypeOK
  BY DEF IInv
<1> QED
  BY <1>1, IInvAlways, PTL

\* As long as no peer's block was added whose number does not follow the tip's, the stored
\* chain has no gap and, unless an AddBlock was torn or HandleCompetingBlock overtaken, is
\* linked by parent hashes down to genesis, although AddBlock itself checks nothing.
THEOREM StoredChainLinked == Spec => []ChainLinked
<1>1. IInv => ChainLinked
  BY DEF IInv
<1> QED
  BY <1>1, IInvAlways, PTL

\* A block applied to State is not replaced on the stored chain, as long as no peer's
\* block was misnumbered or added on a tip that had been replaced meanwhile.
THEOREM AppliedBlocksStay == Spec => []AppliedStays
<1>1. IInv => AppliedStays
  BY DEF IInv
<1> QED
  BY <1>1, IInvAlways, PTL

\* With the same exceptions as the linking, the stored tip moves only to children of
\* blocks of the stored chain.
THEOREM TipStaysOnChain == Spec => TipMovesOnChain
<1>1. ASSUME IInv, [Next]_vars, ~torn, ~overtaken', ~misnumbered', diskTip' # diskTip
      PROVE  Parent[diskTip'] \in {Genesis, diskTip} \cup
                 {store[k] : k \in {k \in Heights : k <= Height[diskTip]}}
  <2>0. TypeOK /\ ChainLinked /\ PipeInv /\ RootInv
    BY <1>1 DEF IInv
  <2>1. ASSUME PeerBlockExtends PROVE Parent[diskTip'] = diskTip
    <3>1. diskTip' = incoming
      BY <1>1, <2>1 DEF PeerBlockExtends, AddBlockOk, AddBlockFirstPutFails,
                        AddBlockSecondPutFails, AddBlockCut
    <3>2. up /\ Parent[incoming] = tip
      BY <1>1, <2>1, PeerFacts
    <3> QED
      BY <2>0, <3>1, <3>2 DEF ChainLinked
  <2>2. ASSUME FinalizeAdd
        PROVE  Parent[diskTip'] \in {Genesis, diskTip} \cup
                   {store[k] : k \in {k \in Heights : k <= Height[diskTip]}}
    <3>1. diskTip' = own
      BY <1>1, <2>2 DEF FinalizeAdd, AddBlockOk, AddBlockFirstPutFails,
                        AddBlockSecondPutFails, AddBlockCut
    <3>2. /\ own \in OwnBlocks /\ Height[own] <= Height[tip] + 1 /\ tip = diskTip
          /\ LinkedBelow(own)
      BY <1>1, <2>0, <2>2 DEF FinalizeAdd, PipeInv, ChainLinked
    <3>3. Height[own] \in Nat /\ Height[own] > 0 /\ Height[own] \in Heights
      BY <3>2, HeightFacts
    <3>4. Height[own] - 1 \in Heights /\ Height[diskTip] \in Nat
      BY <2>0, <3>3, HeightFacts DEF TypeOK
    <3>5. Height[own] - 1 <= Height[diskTip]
      BY <3>2, <3>3, <3>4
    <3> QED
      BY <3>1, <3>2, <3>4, <3>5 DEF LinkedBelow
  <2>3. ASSUME \/ \E b \in Blocks : PeerBlockArrives(b)
               \/ PeerBlockForks \/ PeerBlockOrphan
               \/ \E b \in OwnBlocks : ProposeBlock(b)
               \/ VoteOnBlock \/ FinalizeApply \/ Crash \/ Restart \/ UNCHANGED vars
        PROVE  FALSE
    BY <1>1, <2>3 DEF PeerBlockArrives, PeerBlockForks, PeerBlockOrphan, ProposeBlock,
                      VoteOnBlock, FinalizeApply, Crash, Restart, vars, disk
  <2> QED
    BY <1>1, <2>1, <2>2, <2>3 DEF Next, Sendable
<1>2. IInv /\ [Next]_vars =>
        [~torn /\ ~overtaken' /\ ~misnumbered' /\ diskTip' # diskTip =>
           Parent[diskTip'] \in {Genesis, diskTip} \cup
               {store[k] : k \in {k \in Heights : k <= Height[diskTip]}}]_vars
  BY <1>1
<1> QED
  BY <1>2, IInvAlways, PTL DEF Spec, TipMovesOnChain
=============================================================================
