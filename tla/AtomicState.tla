----------------------------- MODULE AtomicState -----------------------------
(***************************************************************************)
(* State transactions (pkg/blockchain/atomic_state.go): several goroutines *)
(* in ApplyTransactionAtomic, LevelDB writes that fail, crashes.           *)
(*                                                                         *)
(* A call reads the two accounts without a lock, computes the new ones,    *)
(* stages them, writes the batch to LevelDB and then, under State.mu, puts *)
(* them into the maps of State.  Commit holds only the lock of its own     *)
(* StateTransaction until then, so other calls run between all these steps.*)
(*                                                                         *)
(* Nothing tests the sign of an amount, whether a transfer is to its own  *)
(* sender, or whether another call works on the same accounts.  Nothing in *)
(* the repository calls ApplyTransactionAtomic, and State has no source    *)
(* here: that GetAccount returns copies is assumed.                        *)
(***************************************************************************)
EXTENDS Integers

CONSTANTS
    Clients,      \* goroutines in ApplyTransactionAtomic
    Accounts, Txs, Tx, Genesis,
    MaxBalance,   \* bound on balances, above and below zero
    None

Account == [balance : Int, nonce : Nat]
TxRecord == [from : Accounts, to : Accounts, amount : Int, nonce : Nat]

ASSUME AtomicAssumption ==
    /\ Tx \in [Txs -> TxRecord]
    /\ Genesis \in [Accounts -> Account] /\ \A a \in Accounts : Genesis[a].balance >= 0
    /\ MaxBalance \in Nat
    /\ None \notin Account /\ None \notin Txs

VARIABLES
    db,       \* accounts in LevelDB
    accounts, \* State.accounts
    pc,       \* of each client
    tx,       \* the transaction it applies
    sender, recipient,  \* its copies of the two accounts
    contended \* history: accounts that two calls were at work on at once, since the start

local == <<pc, tx, sender, recipient>>
vars == <<db, accounts, local, contended>>

Touches(t) == {Tx[t].from, Tx[t].to}

-----------------------------------------------------------------------------
(* Mutants.                                                                *)

SenderBatch(c) == [a \in {Tx[tx[c]].from} |-> sender[c]]

BalanceUnchecked(t) == accounts[Tx[t].from].nonce = Tx[t].nonce

\* The maps of State before LevelDB.
RememberedFirst(c) ==
    /\ pc[c] = "staged"
    /\ accounts' = [a \in Accounts |-> IF a = Tx[tx[c]].to THEN recipient[c]
                                       ELSE IF a = Tx[tx[c]].from THEN sender[c]
                                       ELSE accounts[a]]
    /\ pc' = [pc EXCEPT ![c] = "idle"]
    /\ tx' = [tx EXCEPT ![c] = None]
    /\ sender' = [sender EXCEPT ![c] = None]
    /\ recipient' = [recipient EXCEPT ![c] = None]
    /\ UNCHANGED <<db, contended>>

-----------------------------------------------------------------------------
(* One call of ApplyTransactionAtomic.                                     *)

\* The accounts of t that other calls are at work on.
Shared(c, t) ==
    {a \in Touches(t) : \E d \in Clients \ {c} : pc[d] # "idle" /\ a \in Touches(tx[d])}

Valid(t) ==
    /\ accounts[Tx[t].from].balance >= Tx[t].amount
    /\ accounts[Tx[t].from].nonce = Tx[t].nonce

\* The bound on balances.
WithinBounds(t) ==
    /\ accounts[Tx[t].from].balance - Tx[t].amount \in -MaxBalance .. MaxBalance
    /\ accounts[Tx[t].to].balance + Tx[t].amount \in -MaxBalance .. MaxBalance

\* BeginTransaction, and GetAccount of the sender with the two checks.
ReadSender(c, t) ==
    /\ pc[c] = "idle"
    /\ Valid(t) /\ WithinBounds(t)
    /\ pc' = [pc EXCEPT ![c] = "read"]
    /\ tx' = [tx EXCEPT ![c] = t]
    /\ sender' = [sender EXCEPT ![c] = accounts[Tx[t].from]]
    /\ contended' = contended \cup Shared(c, t)
    /\ UNCHANGED <<db, accounts, recipient>>

\* GetAccount of the recipient, the new balances, both UpdateAccountAtomic.
StageUpdates(c) ==
    LET t == tx[c] IN
    /\ pc[c] = "read"
    /\ sender' = [sender EXCEPT ![c] = [balance |-> @.balance - Tx[t].amount,
                                        nonce |-> @.nonce + 1]]
    /\ recipient' = [recipient EXCEPT
                       ![c] = [balance |-> accounts[Tx[t].to].balance + Tx[t].amount,
                               nonce |-> accounts[Tx[t].to].nonce]]
    /\ pc' = [pc EXCEPT ![c] = "staged"]
    /\ UNCHANGED <<db, accounts, tx, contended>>

\* The recipient is staged last: of a transfer to its sender, that copy is the one kept.
Batch(c) == [a \in Touches(tx[c]) |-> IF a = Tx[tx[c]].to THEN recipient[c] ELSE sender[c]]

Updated(f, g) == [a \in Accounts |-> IF a \in DOMAIN g THEN g[a] ELSE f[a]]

\* db.Write of the batch.
CommitWrite(c) ==
    /\ pc[c] = "staged"
    /\ db' = Updated(db, Batch(c))
    /\ pc' = [pc EXCEPT ![c] = "written"]
    /\ UNCHANGED <<accounts, tx, sender, recipient, contended>>

Left(c) ==
    /\ pc' = [pc EXCEPT ![c] = "idle"]
    /\ tx' = [tx EXCEPT ![c] = None]
    /\ sender' = [sender EXCEPT ![c] = None]
    /\ recipient' = [recipient EXCEPT ![c] = None]

\* db.Write fails: Rollback drops the staged accounts.
CommitFails(c) ==
    /\ pc[c] = "staged"
    /\ Left(c)
    /\ UNCHANGED <<db, accounts, contended>>

\* The maps of State, under State.mu.
CommitMemory(c) ==
    /\ pc[c] = "written"
    /\ accounts' = Updated(accounts, Batch(c))
    /\ Left(c)
    /\ UNCHANGED <<db, contended>>

\* NewState reads the accounts from LevelDB.
Restart ==
    /\ accounts' = db
    /\ pc' = [c \in Clients |-> "idle"]
    /\ tx' = [c \in Clients |-> None]
    /\ sender' = [c \in Clients |-> None]
    /\ recipient' = [c \in Clients |-> None]
    /\ contended' = {}
    /\ UNCHANGED db

Init ==
    /\ db = Genesis /\ accounts = Genesis
    /\ pc = [c \in Clients |-> "idle"]
    /\ tx = [c \in Clients |-> None]
    /\ sender = [c \in Clients |-> None]
    /\ recipient = [c \in Clients |-> None]
    /\ contended = {}

ApplyTransactionAtomic(c) ==
    \/ \E t \in Txs : ReadSender(c, t)
    \/ StageUpdates(c) \/ CommitWrite(c) \/ CommitFails(c) \/ CommitMemory(c)

Next == (\E c \in Clients : ApplyTransactionAtomic(c)) \/ Restart

Spec == Init /\ [][Next]_vars

-----------------------------------------------------------------------------
(* Properties.                                                             *)

\* The recipients of negative amounts.
Drained == {a \in Accounts : \E t \in Txs : Tx[t].to = a /\ Tx[t].amount < 0}

\* Types; a client at work has the copies its step needs.  However calls overlap and lose
\* updates, no other account than the recipient of a negative amount falls below zero.
TypeOK ==
    /\ db \in [Accounts -> Account] /\ accounts \in [Accounts -> Account]
    /\ \A a \in Accounts \ Drained : db[a].balance >= 0 /\ accounts[a].balance >= 0
    /\ contended \subseteq Accounts
    /\ pc \in [Clients -> {"idle", "read", "staged", "written"}]
    /\ tx \in [Clients -> Txs \cup {None}]
    /\ sender \in [Clients -> Account \cup {None}]
    /\ recipient \in [Clients -> Account \cup {None}]
    /\ \A c \in Clients : /\ pc[c] # "idle" => tx[c] # None /\ sender[c] # None
                          /\ pc[c] \in {"staged", "written"} => recipient[c] # None

\* Since the start of the node, memory and disk differ only in accounts that a call has
\* written to disk and is about to put into memory, and in those that two calls worked on
\* at once: neither a failed write nor a restart leaves them apart.
MemoryFollowsDisk ==
    \A a \in Accounts \ contended : accounts[a] # db[a] =>
        \E c \in Clients : pc[c] = "written" /\ a \in Touches(tx[c])

\* What is on disk changes by whole transfers only, as far as the accounts of each were
\* left to one call.
Abstract == INSTANCE Transfers WITH book <- db, loose <- contended

Atomicity == Abstract!Spec
=============================================================================
