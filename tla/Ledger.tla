-------------------------------- MODULE Ledger --------------------------------
(***************************************************************************)
(* What happens to transactions: the mempool (pkg/blockchain/mempool.go),  *)
(* their selection into a block, and their application and the rewards     *)
(* when the block is final (validator_service.go).                         *)
(*                                                                         *)
(* One goroutine runs ProposeBlock, VoteOnBlock and finalizeBlock, one     *)
(* after the other; API and P2P handlers add transactions at any time.     *)
(* Transactions are checked against State when they are selected and       *)
(* applied, unchecked, when the block is final.  Each account is written   *)
(* by an UpdateAccount call of its own, the two of a transaction and those *)
(* of the rewards, so a crash can come between any two of them.  Nothing   *)
(* tests the sign of an amount or of a fee.                                *)
(*                                                                         *)
(* State itself is not in the repository.  Its callers show that           *)
(* UpdateAccount stores and GetAccount returns an account for any address; *)
(* whether two calls of GetAccount for one address return one object or    *)
(* two copies is left open (variable shared).                              *)
(***************************************************************************)
EXTENDS Integers, Sequences, FiniteSets, FiniteSetsExt, Functions

CONSTANTS
    Accounts,        \* addresses
    Txs,             \* transaction ids
    Tx,              \* their contents
    Genesis,         \* balances State starts with, for the other addresses it knows
    Self,            \* vs.validatorID, the proposer
    Networks,        \* ASN or /24 of each validator (GroupValidatorsByNetwork)
    Rewarded,        \* sets of validators that may be active and not suspended
    Capacity,        \* calculateDynamicBlockCapacity of the proposer
    MaxNewAddressesPerBlock,
    InitialBlockReward, MinBlockReward, BlockRewardReduction, BlockReductionInterval,
    MaxHeight,       \* heights from here on all have the minimal reward
    MaxSubmissions, MaxCrashes,   \* bounds
    NoAccount

Validators == DOMAIN Networks

Account == [balance : Int, nonce : Nat]

\* A transaction that is debited, and the account that its credit will store.
Pending == [tx : Txs, account : Account]

TxRecord == [from : Accounts, to : Accounts, amount : Int, fee : Int, nonce : Nat,
             size : Nat, sigOk : BOOLEAN]

calculateBlockReward(h) ==
    LET reward == InitialBlockReward - (h \div BlockReductionInterval) * BlockRewardReduction
    IN  IF reward < MinBlockReward THEN MinBlockReward ELSE reward

ASSUME LedgerAssumption ==
    /\ Tx \in [Txs -> TxRecord]
    /\ IsFiniteSet(Accounts) /\ Self \in Accounts /\ Validators \subseteq Accounts
    /\ Rewarded \subseteq SUBSET Validators
    /\ Genesis \in [DOMAIN Genesis -> Nat] /\ DOMAIN Genesis \subseteq Accounts \ {Self}
    /\ Capacity \in Nat /\ MaxNewAddressesPerBlock \in Nat
    /\ InitialBlockReward \in Nat /\ MinBlockReward \in Nat
    /\ BlockRewardReduction \in Nat /\ BlockReductionInterval \in Nat \ {0}
    /\ MaxHeight \in Nat /\ calculateBlockReward(MaxHeight) = MinBlockReward
    /\ MaxSubmissions \in Nat /\ MaxCrashes \in Nat
    /\ NoAccount \notin Account /\ NoAccount \notin Pending

VARIABLES
    pool,          \* mempool: priorityTx; transactions holds the same ids
    accounts,      \* what UpdateAccount has stored
    height,        \* of the latest block, MaxHeight for every later one
    pc,            \* what the block production goroutine is doing
    block,         \* the transactions of the block it has proposed
    todo,          \* those finalizeBlock has yet to apply
    credited,      \* the recipient's account applyTransaction has yet to store
    owed,          \* the PoB rewards distributeBlockRewards has yet to pay
    shared,        \* GetAccount hands out the stored object, not a copy
    submissions, crashes,
    applied,       \* history: how often each transaction was debited
    siblings,      \* history: senders with two transactions in one final block
    minted, burned, lost   \* history: rewards, fees, what restarts destroy

history == <<applied, siblings, minted, burned, lost>>
vars == <<pool, accounts, height, pc, block, todo, credited, owed, shared,
          submissions, crashes, history>>

Exists(a) == accounts[a] # NoAccount

\* GetAccount
Get(a) == IF Exists(a) THEN accounts[a] ELSE [balance |-> 0, nonce |-> 0]

Cost(t) == Tx[t].amount + Tx[t].fee
SelfTransfer(t) == Tx[t].from = Tx[t].to

-----------------------------------------------------------------------------
(* Mutants.                                                                *)

UnpricedTransaction(t) ==
    /\ Get(Tx[t].from).nonce = Tx[t].nonce
    /\ Get(Tx[t].from).balance >= Tx[t].amount
    /\ Tx[t].sigOk

OldNonceTransaction(t) ==
    /\ Get(Tx[t].from).nonce >= Tx[t].nonce
    /\ Get(Tx[t].from).balance >= Cost(t)
    /\ Tx[t].sigOk

FeeCredited(t) ==
    [balance |-> Get(Tx[t].to).balance + Cost(t), nonce |-> Get(Tx[t].to).nonce]

AnyOfBlock(t) == t \in block

StrictlyFits(s) ==
    LET size[i \in 0 .. Len(s)] == IF i = 0 THEN 0 ELSE size[i - 1] + Tx[s[i]].size
    IN  {s[i] : i \in {j \in 1 .. Len(s) : size[j] < Capacity}}

-----------------------------------------------------------------------------
(* The mempool.                                                            *)

InPool(t) == \E i \in 1 .. Len(pool) : pool[i] = t

AddTransaction(t) ==
    /\ submissions < MaxSubmissions
    /\ ~InPool(t)
    /\ pool' = Append(pool, t)
    /\ submissions' = submissions + 1
    /\ UNCHANGED <<accounts, height, pc, block, todo, credited, owed, shared, crashes, history>>

RemoveTransaction(s, t) ==
    LET Without(i) == SubSeq(s, 1, i - 1) \o SubSeq(s, i + 1, Len(s))
    IN  IF \E i \in 1 .. Len(s) : s[i] = t
        THEN Without(CHOOSE i \in 1 .. Len(s) : s[i] = t)
        ELSE s

\* The longest prefix that fits: the first transaction that does not ends the search.
GetTransactionsBySize(s) ==
    LET size[i \in 0 .. Len(s)] == IF i = 0 THEN 0 ELSE size[i - 1] + Tx[s[i]].size
    IN  {s[i] : i \in {j \in 1 .. Len(s) : size[j] <= Capacity}}

-----------------------------------------------------------------------------
(* From the mempool into a block.                                          *)

\* sigOk: unsigned, or signed with the key State has for the sender, ID included.  Of what
\* handleSubmitTx accepts it is FALSE: that is signed before the ID is set.
validateTransaction(t) ==
    /\ Get(Tx[t].from).nonce = Tx[t].nonce
    /\ Get(Tx[t].from).balance >= Cost(t)
    /\ Tx[t].sigOk

\* Each transaction is checked alone, against what State holds now.
selectAndValidateTransactions(S) == {t \in S : validateTransaction(t)}

ProposeBlock ==
    /\ pc = "idle"
    /\ block' = selectAndValidateTransactions(GetTransactionsBySize(pool))
    /\ pc' = "proposed"
    /\ UNCHANGED <<pool, accounts, height, todo, credited, owed, shared,
                   submissions, crashes, history>>

NewAddresses(S) == {a \in UNION {{Tx[t].from, Tx[t].to} : t \in S} : ~Exists(a)}

TooManyNew(S) == Cardinality(NewAddresses(S)) > MaxNewAddressesPerBlock

\* validateBlock refuses the block, for its new addresses or because a block of a peer
\* has moved the tip or the VRF value selects another proposer; or CheckFinality sees no
\* quorum right after the own vote; or AddBlock fails.  Nothing looks at the block again.
VoteInVain ==
    /\ pc = "proposed"
    /\ pc' = "idle" /\ block' = {}
    /\ UNCHANGED <<pool, accounts, height, todo, credited, owed, shared,
                   submissions, crashes, history>>

SiblingsOf(S) == {Tx[t].from : t \in {u \in S : \E w \in S \ {u} : Tx[w].from = Tx[u].from}}

\* validateBlock accepts, VoteOnBlock sees the quorum, finalizeBlock has stored the block.
VoteAndFinalize ==
    /\ pc = "proposed"
    /\ ~TooManyNew(block)
    /\ height' = IF height < MaxHeight THEN height + 1 ELSE height
    /\ todo' = block
    /\ siblings' = siblings \cup SiblingsOf(block)
    /\ pc' = "applying"
    /\ UNCHANGED <<pool, accounts, block, credited, owed, shared,
                   submissions, crashes, applied, minted, burned, lost>>

-----------------------------------------------------------------------------
(* Application of a final block.                                           *)

\* sort.Slice by falling fee, which is not stable: any of the best paid is next.
IsNext(t) == t \in todo /\ \A u \in todo : Tx[u].fee <= Tx[t].fee

\* The account stored first: of one object, the credit is already in it.
Debited(t) ==
    [balance |-> Get(Tx[t].from).balance - Cost(t)
                    + (IF shared /\ SelfTransfer(t) THEN Tx[t].amount ELSE 0),
     nonce |-> Get(Tx[t].from).nonce + 1]

Credited(t) ==
    [balance |-> Get(Tx[t].to).balance + Tx[t].amount, nonce |-> Get(Tx[t].to).nonce]

\* The account stored second.  Of a self-transfer it is the same object, or a copy
\* made before the debit.
StoredSecond(t) == IF shared /\ SelfTransfer(t) THEN Debited(t) ELSE Credited(t)

ApplyFirst(t) ==
    /\ pc = "applying" /\ credited = NoAccount
    /\ IsNext(t)
    /\ pool' = RemoveTransaction(pool, t)
    /\ accounts' = [accounts EXCEPT ![Tx[t].from] = Debited(t)]
    /\ credited' = [tx |-> t, account |-> StoredSecond(t)]
    /\ applied' = [applied EXCEPT ![t] = @ + 1]
    /\ burned' = burned + Tx[t].fee
    /\ UNCHANGED <<height, pc, block, todo, owed, shared, submissions, crashes,
                   siblings, minted, lost>>

ApplySecond ==
    /\ credited # NoAccount
    /\ accounts' = [accounts EXCEPT ![Tx[credited.tx].to] = credited.account]
    /\ todo' = todo \ {credited.tx}
    /\ credited' = NoAccount
    /\ UNCHANGED <<pool, height, pc, block, owed, shared, submissions, crashes, history>>

GroupValidatorsByNetwork(V) == {{v \in V : Networks[v] = n} : n \in {Networks[v] : v \in V}}

Share(share, n) == share \div n

\* What each validator of V gets of the PoB part: an equal share per network group,
\* divided equally in the group.
DistributePoBRewardFairly(amount, V) ==
    LET groups == GroupValidatorsByNetwork(V)
    IN  [v \in V |-> Share(amount \div Cardinality(groups),
                           Cardinality(CHOOSE g \in groups : v \in g))]

ProposerReward == (calculateBlockReward(height) * 80) \div 100
PoBReward == (calculateBlockReward(height) * 20) \div 100

NothingOwed == [v \in Validators |-> 0]

Paid(a, amount) ==
    /\ accounts' = [accounts EXCEPT ![a] = [Get(a) EXCEPT !.balance = @ + amount]]
    /\ minted' = minted + amount

\* distributeBlockRewards pays the proposer first.  V: the active validators that State
\* then says are not suspended.
RewardProposer ==
    \E V \in Rewarded :
        /\ pc = "applying" /\ todo = {} /\ credited = NoAccount
        /\ Paid(Self, ProposerReward)
        /\ owed' = [v \in Validators |->
                      IF v \in V THEN DistributePoBRewardFairly(PoBReward, V)[v] ELSE 0]
        /\ pc' = "rewarding"
        /\ UNCHANGED <<pool, height, block, todo, credited, shared, submissions,
                       crashes, applied, siblings, burned, lost>>

\* The others follow in any order; one that was suspended meanwhile is left out.
RewardContributor(v) ==
    /\ pc = "rewarding" /\ owed[v] > 0
    /\ Paid(v, owed[v]) \/ UNCHANGED <<accounts, minted>>
    /\ owed' = [owed EXCEPT ![v] = 0]
    /\ UNCHANGED <<pool, height, pc, block, todo, credited, shared, submissions,
                   crashes, applied, siblings, burned, lost>>

\* finalizeBlock returns, and the goroutine waits for the ticker.
FinishBlock ==
    /\ pc = "rewarding" /\ owed = NothingOwed
    /\ pc' = "idle" /\ block' = {}
    /\ UNCHANGED <<pool, accounts, height, todo, credited, owed, shared, submissions,
                   crashes, history>>

-----------------------------------------------------------------------------
\* Debited, but not yet credited.
InFlight ==
    IF credited # NoAccount /\ ~SelfTransfer(credited.tx) THEN Tx[credited.tx].amount ELSE 0

NewAccount == [balance |-> 0, nonce |-> 0]

\* The mempool and the position in finalizeBlock are not stored, and main stores a new
\* account for the validator at every start.
Restart ==
    /\ crashes < MaxCrashes
    /\ crashes' = crashes + 1
    /\ pool' = <<>> /\ pc' = "idle" /\ block' = {} /\ todo' = {}
    /\ credited' = NoAccount /\ owed' = NothingOwed
    /\ lost' = lost + InFlight + Get(Self).balance
    /\ accounts' = [accounts EXCEPT ![Self] = NewAccount]
    /\ UNCHANGED <<height, shared, submissions, applied, siblings, minted, burned>>

Init ==
    /\ pool = <<>>
    /\ accounts = [a \in Accounts |->
                     IF a \in DOMAIN Genesis THEN [NewAccount EXCEPT !.balance = Genesis[a]]
                     ELSE IF a = Self THEN NewAccount ELSE NoAccount]
    /\ height = 0
    /\ pc = "idle" /\ block = {} /\ todo = {} /\ credited = NoAccount
    /\ owed = NothingOwed /\ shared \in BOOLEAN
    /\ submissions = 0 /\ crashes = 0
    /\ applied = [t \in Txs |-> 0] /\ siblings = {}
    /\ minted = 0 /\ burned = 0 /\ lost = 0

\* What follows a proposal in the same run of the goroutine.
HandleProposal ==
    \/ VoteInVain \/ VoteAndFinalize
    \/ (\E t \in Txs : ApplyFirst(t)) \/ ApplySecond
    \/ RewardProposer \/ (\E v \in Validators : RewardContributor(v)) \/ FinishBlock

Next ==
    \/ \E t \in Txs : AddTransaction(t)
    \/ ProposeBlock \/ HandleProposal
    \/ Restart

Spec == Init /\ [][Next]_vars

\* The goroutine goes on; when this node is the proposer again is up to the others.
FairSpec == Spec /\ WF_vars(HandleProposal)

-----------------------------------------------------------------------------
(* Properties.                                                             *)

\* Types; the goroutine applies only transactions of the block it has finalized.
TypeOK ==
    /\ pool \in Seq(Txs)
    /\ accounts \in [Accounts -> Account \cup {NoAccount}]
    /\ height \in 0 .. MaxHeight
    /\ pc \in {"idle", "proposed", "applying", "rewarding"}
    /\ block \subseteq Txs /\ todo \subseteq block
    /\ credited \in Pending \cup {NoAccount}
    /\ (credited # NoAccount) => credited.tx \in todo
    /\ owed \in [Validators -> Nat] /\ shared \in BOOLEAN
    /\ submissions \in 0 .. MaxSubmissions /\ crashes \in 0 .. MaxCrashes
    /\ applied \in [Txs -> Nat] /\ siblings \subseteq Accounts
    /\ burned \in Int /\ lost \in Int

\* No transaction is applied twice, however often peers and clients send it again, in
\* whatever blocks it is selected and wherever the node crashes.  Two kinds are exempt:
\* a self-transfer if GetAccount makes copies, because the second store then puts the
\* old nonce back, and the validator's own, because a restart resets its nonce.
AppliedOnce ==
    \A t \in Txs : Tx[t].from # Self /\ (shared \/ ~SelfTransfer(t)) => applied[t] <= 1

\* The recipients of negative amounts that were applied.
Drained == {a \in Accounts : \E t \in Txs :
                Tx[t].to = a /\ Tx[t].amount < 0 /\ applied[t] > 0}

\* applyTransaction does not look at the balance again.  An account still goes below
\* zero only in two ways: a final block held two transactions of its owner, which
\* selectAndValidateTransactions checks one by one against the same balance, or a
\* transaction to it had a negative amount, which nothing refuses.
OverdraftExplained ==
    \A a \in Accounts : Get(a).balance < 0 => a \in siblings \cup Drained

\* Value is neither made nor destroyed but by rewards, by fees, all of which leave the
\* sender and reach nobody, and by a restart: the credit it cuts off and the balance of
\* the validator.
ValueConserved ==
    (shared \/ \A t \in Txs : SelfTransfer(t) => applied[t] = 0) =>
        SumFunction([a \in Accounts |-> Get(a).balance]) + InFlight + burned + lost
            = SumFunction(Genesis) + minted

\* What keeps a valid transaction out of every block: it lies behind transactions that
\* fill the capacity, or the block selected with it has too many new addresses.
WithinCapacity ==
    {pool[i] : i \in {j \in 1 .. Len(pool) :
                       MapThenSumSet(LAMBDA k : Tx[pool[k]].size, 1 .. j) <= Capacity}}

Blocked(t) ==
    \/ t \notin WithinCapacity
    \/ TooManyNew(selectAndValidateTransactions(WithinCapacity))

\* This node is the proposer again and again, and not all of its blocks with few enough
\* new addresses are voted on in vain.  Nothing in the code guarantees either.
Served ==
    /\ []<>(pc = "proposed")
    /\ []<>(pc = "proposed" /\ ~TooManyNew(block)) => []<>(pc = "applying")

\* A node that is served applies a pending transaction, unless it becomes invalid or the
\* head of the queue, which nothing evicts, blocks it for ever.
PendingResolved ==
    Served => \A t \in Txs :
        [](InPool(t) => <>(~InPool(t) \/ ~validateTransaction(t) \/ []Blocked(t)))
=============================================================================
