-------------------------- MODULE AtomicStateProofs --------------------------
(***************************************************************************)
(* AtomicState implements Transfers, for any number of clients, accounts   *)
(* and transactions.                                                       *)
(***************************************************************************)
EXTENDS AtomicState, TLAPS

\* What a client knows of an account that it alone works on: until its write, memory and
\* disk agree on it, and its copy is what the call is to make of it.
CopyCurrent(c, a) == LET t == tx[c] IN
    /\ pc[c] \in {"read", "staged"} =>
          /\ accounts[a] = db[a]
          /\ a = Tx[t].from => db[a].balance >= Tx[t].amount /\ db[a].nonce = Tx[t].nonce
    /\ pc[c] = "read" /\ a = Tx[t].from => sender[c] = db[a]
    /\ pc[c] = "staged" /\ a = Tx[t].from =>
          sender[c] = [balance |-> db[a].balance - Tx[t].amount, nonce |-> db[a].nonce + 1]
    /\ pc[c] = "staged" /\ a = Tx[t].to =>
          recipient[c] = [balance |-> db[a].balance + Tx[t].amount, nonce |-> db[a].nonce]
    /\ pc[c] = "written" => db[a] = Batch(c)[a]

CopiesCurrent ==
    \A c \in Clients : pc[c] # "idle" => \A a \in Touches(tx[c]) \ contended : CopyCurrent(c, a)

\* What two clients are both at work on is contended.
Disjoint ==
    \A c, d \in Clients : c # d /\ pc[c] # "idle" /\ pc[d] # "idle"
                             => Touches(tx[c]) \cap Touches(tx[d]) \subseteq contended

\* No copy takes an account below zero that no negative amount drains, be it current or not.
CopiesFunded == \A c \in Clients :
    /\ pc[c] = "read" => sender[c].balance >= Tx[tx[c]].amount
    /\ pc[c] \in {"staged", "written"} =>
          /\ sender[c].balance >= 0
          /\ Tx[tx[c]].to \notin Drained => recipient[c].balance >= 0

IInv == TypeOK /\ Disjoint /\ CopiesCurrent /\ CopiesFunded /\ MemoryFollowsDisk

LEMMA TxType == ASSUME NEW t \in Txs
                PROVE  /\ Tx[t].from \in Accounts /\ Tx[t].to \in Accounts
                       /\ Tx[t].amount \in Int /\ Tx[t].nonce \in Nat
                       /\ Tx[t].to \notin Drained => Tx[t].amount >= 0
                       /\ Touches(t) \subseteq Accounts
  BY AtomicAssumption DEF TxRecord, Drained, Touches

LEMMA InitIInv == Init => IInv
<1> SUFFICES ASSUME Init PROVE IInv
  OBVIOUS
<1> USE AtomicAssumption DEF Init
<1>1. TypeOK
  BY DEF TypeOK
<1>2. Disjoint /\ CopiesCurrent /\ CopiesFunded /\ MemoryFollowsDisk
  BY DEF Disjoint, CopiesCurrent, CopiesFunded, MemoryFollowsDisk
<1> QED
  BY <1>1, <1>2 DEF IInv

\* The records a client stages are accounts, and its batch holds one for each of the two.
LEMMA BatchType ==
  ASSUME IInv, NEW c \in Clients, pc[c] \in {"staged", "written"}
  PROVE  /\ tx[c] \in Txs
         /\ Batch(c) \in [Touches(tx[c]) -> Account]
         /\ \A a \in Touches(tx[c]) :
               Batch(c)[a] = IF a = Tx[tx[c]].to THEN recipient[c] ELSE sender[c]
         /\ \A a \in Touches(tx[c]) \ Drained : Batch(c)[a].balance >= 0
         /\ Touches(tx[c]) \subseteq Accounts
<1>1. tx[c] \in Txs /\ sender[c] \in Account /\ recipient[c] \in Account
  BY DEF IInv, TypeOK
<1>2. sender[c].balance >= 0 /\ (Tx[tx[c]].to \notin Drained => recipient[c].balance >= 0)
  BY DEF IInv, CopiesFunded
<1>3. \A a \in Touches(tx[c]) :
        Batch(c)[a] = IF a = Tx[tx[c]].to THEN recipient[c] ELSE sender[c]
  BY DEF Batch
<1>4. Batch(c) \in [Touches(tx[c]) -> Account]
  BY <1>1 DEF Batch
<1> QED
  BY <1>1, <1>2, <1>3, <1>4, TxType

\* A client keeps what it knows of an account while another one works on others.
LEMMA OthersUndisturbed ==
  ASSUME IInv, NEW d \in Clients,
         pc'[d] = pc[d], tx'[d] = tx[d], sender'[d] = sender[d], recipient'[d] = recipient[d],
         pc[d] # "idle", NEW a \in Touches(tx[d]) \ contended,
         db'[a] = db[a], accounts'[a] = accounts[a]
  PROVE  CopyCurrent(d, a)'
<1>1. Batch(d)' = Batch(d)
  BY DEF Batch, Touches
<1>2. CopyCurrent(d, a)
  BY DEF IInv, CopiesCurrent
<1> QED
  BY <1>1, <1>2 DEF CopyCurrent

LEMMA ReadSenderStep ==
  ASSUME IInv, NEW c \in Clients, NEW t \in Txs, ReadSender(c, t)
  PROVE  IInv'
<1> USE AtomicAssumption
<1>1. /\ pc[c] = "idle"
      /\ pc' = [pc EXCEPT ![c] = "read"] /\ tx' = [tx EXCEPT ![c] = t]
      /\ sender' = [sender EXCEPT ![c] = accounts[Tx[t].from]]
      /\ contended' = contended \cup Shared(c, t)
      /\ UNCHANGED <<db, accounts, recipient>>
      /\ accounts[Tx[t].from].balance >= Tx[t].amount
      /\ accounts[Tx[t].from].nonce = Tx[t].nonce
  BY DEF ReadSender, Valid
<1>2. Tx[t].from \in Accounts /\ Touches(t) \subseteq Accounts /\ t # None
  BY TxType
<1>3. /\ pc'[c] = "read" /\ tx'[c] = t /\ sender'[c] = accounts[Tx[t].from]
      /\ \A d \in Clients \ {c} : /\ pc'[d] = pc[d] /\ tx'[d] = tx[d]
                                  /\ sender'[d] = sender[d] /\ recipient'[d] = recipient[d]
  BY <1>1 DEF IInv, TypeOK
<1>4. TypeOK'
  BY <1>1, <1>2 DEF IInv, TypeOK, Shared
<1>5. Disjoint'
  BY <1>1, <1>3 DEF IInv, Disjoint, Shared, Touches
<1>6. \A a \in Touches(t) \ contended' : accounts[a] = db[a]
  <2>1. ASSUME NEW a \in Touches(t) \ contended', accounts[a] # db[a] PROVE FALSE
    <3>1. PICK d \in Clients : pc[d] = "written" /\ a \in Touches(tx[d])
      BY <1>1, <1>2, <2>1 DEF IInv, MemoryFollowsDisk
    <3> QED
      BY <1>1, <2>1, <3>1 DEF Shared
  <2> QED
    BY <2>1
<1>7. CopiesCurrent'
  <2>1. ASSUME NEW a \in Touches(t) \ contended' PROVE CopyCurrent(c, a)'
    <3>1. accounts[a] = db[a]
      BY <1>6
    <3> QED
      BY <1>1, <1>3, <3>1 DEF CopyCurrent
  <2>2. ASSUME NEW d \in Clients, d # c, pc[d] # "idle", NEW a \in Touches(tx[d]) \ contended'
        PROVE  CopyCurrent(d, a)'
    BY <1>1, <1>3, <2>2, OthersUndisturbed
  <2>3. ASSUME NEW d \in Clients, pc'[d] # "idle", NEW a \in Touches(tx'[d]) \ contended'
        PROVE  CopyCurrent(d, a)'
    BY <1>3, <2>1, <2>2, <2>3
  <2> QED
    BY <2>3 DEF CopiesCurrent, Touches
<1>8. CopiesFunded'
  BY <1>1, <1>3 DEF IInv, CopiesFunded
<1>9. MemoryFollowsDisk'
  <2> SUFFICES ASSUME NEW a \in Accounts \ contended', accounts'[a] # db'[a]
               PROVE  \E d \in Clients : pc'[d] = "written" /\ a \in Touches(tx'[d])
    BY DEF MemoryFollowsDisk, Touches
  <2>1. PICK d \in Clients : pc[d] = "written" /\ a \in Touches(tx[d])
    BY <1>1 DEF IInv, MemoryFollowsDisk
  <2> QED
    BY <1>1, <1>3, <2>1
<1> QED
  BY <1>4, <1>5, <1>7, <1>8, <1>9 DEF IInv

LEMMA StageStep ==
  ASSUME IInv, NEW c \in Clients, StageUpdates(c)
  PROVE  IInv'
<1> USE AtomicAssumption
<1> DEFINE u == tx[c]
<1>1. /\ pc[c] = "read"
      /\ pc' = [pc EXCEPT ![c] = "staged"]
      /\ sender' = [sender EXCEPT ![c] = [balance |-> @.balance - Tx[u].amount,
                                          nonce |-> @.nonce + 1]]
      /\ recipient' = [recipient EXCEPT
                         ![c] = [balance |-> accounts[Tx[u].to].balance + Tx[u].amount,
                                 nonce |-> accounts[Tx[u].to].nonce]]
      /\ UNCHANGED <<db, accounts, tx, contended>>
  BY DEF StageUpdates
<1>2. /\ u \in Txs /\ sender[c] \in Account /\ Touches(u) \subseteq Accounts
      /\ Tx[u].from \in Accounts /\ Tx[u].to \in Accounts
      /\ Tx[u].amount \in Int /\ Tx[u].nonce \in Nat
      /\ Tx[u].to \notin Drained => Tx[u].amount >= 0
  BY <1>1, TxType DEF IInv, TypeOK
<1>3. /\ accounts[Tx[u].to] \in Account
      /\ Tx[u].to \notin Drained => accounts[Tx[u].to].balance >= 0
  BY <1>2 DEF IInv, TypeOK
<1>4. /\ pc'[c] = "staged"
      /\ sender'[c] = [balance |-> sender[c].balance - Tx[u].amount,
                       nonce |-> sender[c].nonce + 1]
      /\ recipient'[c] = [balance |-> accounts[Tx[u].to].balance + Tx[u].amount,
                          nonce |-> accounts[Tx[u].to].nonce]
      /\ \A d \in Clients \ {c} : /\ pc'[d] = pc[d] /\ tx'[d] = tx[d]
                                  /\ sender'[d] = sender[d] /\ recipient'[d] = recipient[d]
  BY <1>1 DEF IInv, TypeOK
<1>5. sender'[c] \in Account /\ recipient'[c] \in Account
  BY <1>2, <1>3, <1>4 DEF Account
<1>6. TypeOK'
  <2>1. sender' \in [Clients -> Account \cup {None}] /\ recipient' \in [Clients -> Account \cup {None}]
    BY <1>1, <1>4, <1>5 DEF IInv, TypeOK
  <2>2. \A d \in Clients : /\ pc'[d] # "idle" => tx'[d] # None /\ sender'[d] # None
                           /\ pc'[d] \in {"staged", "written"} => recipient'[d] # None
    BY <1>1, <1>4, <1>5 DEF IInv, TypeOK
  <2> QED
    BY <1>1, <2>1, <2>2 DEF IInv, TypeOK
<1>7. Disjoint'
  BY <1>1, <1>4 DEF IInv, Disjoint, Touches
<1>8. CopiesCurrent'
  <2>1. ASSUME NEW a \in Touches(u) \ contended PROVE CopyCurrent(c, a)'
    <3>1. CopyCurrent(c, a)
      BY <1>1 DEF IInv, CopiesCurrent
    <3>2. /\ accounts[a] = db[a]
          /\ a = Tx[u].from => /\ db[a].balance >= Tx[u].amount /\ db[a].nonce = Tx[u].nonce
                               /\ sender[c] = db[a]
      BY <1>1, <3>1 DEF CopyCurrent
    <3> QED
      BY <1>1, <1>4, <3>2 DEF CopyCurrent
  <2>2. ASSUME NEW d \in Clients, d # c, pc[d] # "idle", NEW a \in Touches(tx[d]) \ contended
        PROVE  CopyCurrent(d, a)'
    BY <1>1, <1>4, <2>2, OthersUndisturbed
  <2>3. ASSUME NEW d \in Clients, pc'[d] # "idle", NEW a \in Touches(tx[d]) \ contended
        PROVE  CopyCurrent(d, a)'
    BY <1>4, <2>1, <2>2, <2>3
  <2> QED
    BY <1>1, <2>3 DEF CopiesCurrent, Touches
<1>9. CopiesFunded'
  <2>1. sender[c].balance >= Tx[u].amount
    BY <1>1 DEF IInv, CopiesFunded
  <2>2. sender'[c].balance >= 0 /\ (Tx[u].to \notin Drained => recipient'[c].balance >= 0)
    BY <1>2, <1>3, <1>4, <2>1 DEF Account
  <2> QED
    BY <1>1, <1>4, <2>2 DEF IInv, CopiesFunded
<1>10. MemoryFollowsDisk'
  <2> SUFFICES ASSUME NEW a \in Accounts \ contended, accounts[a] # db[a]
               PROVE  \E d \in Clients : pc'[d] = "written" /\ a \in Touches(tx[d])
    BY <1>1 DEF MemoryFollowsDisk, Touches
  <2>1. PICK d \in Clients : pc[d] = "written" /\ a \in Touches(tx[d])
    BY DEF IInv, MemoryFollowsDisk
  <2> QED
    BY <1>1, <1>4, <2>1
<1> QED
  BY <1>6, <1>7, <1>8, <1>9, <1>10 DEF IInv

LEMMA WriteStep ==
  ASSUME IInv, NEW c \in Clients, CommitWrite(c)
  PROVE  IInv'
<1> USE AtomicAssumption
<1>1. /\ pc[c] = "staged" /\ db' = Updated(db, Batch(c))
      /\ pc' = [pc EXCEPT ![c] = "written"]
      /\ UNCHANGED <<accounts, tx, sender, recipient, contended>>
  BY DEF CommitWrite
<1>2. /\ tx[c] \in Txs /\ Batch(c) \in [Touches(tx[c]) -> Account]
      /\ \A a \in Touches(tx[c]) \ Drained : Batch(c)[a].balance >= 0
      /\ Touches(tx[c]) \subseteq Accounts
  BY <1>1, BatchType
<1>3. /\ db' \in [Accounts -> Account]
      /\ \A a \in Accounts \ Touches(tx[c]) : db'[a] = db[a]
      /\ \A a \in Touches(tx[c]) : db'[a] = Batch(c)[a]
  BY <1>1, <1>2 DEF IInv, TypeOK, Updated
<1>4. pc'[c] = "written" /\ \A d \in Clients \ {c} : pc'[d] = pc[d]
  BY <1>1 DEF IInv, TypeOK
<1>5. TypeOK'
  <2>1. \A a \in Accounts \ Drained : db'[a].balance >= 0
    BY <1>2, <1>3 DEF IInv, TypeOK
  <2> QED
    BY <1>1, <1>3, <2>1 DEF IInv, TypeOK
<1>6. Disjoint'
  BY <1>1, <1>4 DEF IInv, Disjoint, Touches
<1>7. CopiesCurrent'
  <2>1. Batch(c)' = Batch(c)
    BY <1>1 DEF Batch, Touches
  <2>2. ASSUME NEW a \in Touches(tx[c]) \ contended PROVE CopyCurrent(c, a)'
    BY <1>1, <1>3, <1>4, <2>1 DEF CopyCurrent
  <2>3. ASSUME NEW d \in Clients, d # c, pc[d] # "idle", NEW a \in Touches(tx[d]) \ contended
        PROVE  CopyCurrent(d, a)'
    <3>1. a \notin Touches(tx[c])
      BY <1>1, <2>3 DEF IInv, Disjoint
    <3>2. a \in Accounts
      BY <2>3, TxType DEF IInv, TypeOK
    <3> QED
      BY <1>1, <1>3, <1>4, <2>3, <3>1, <3>2, OthersUndisturbed
  <2>4. ASSUME NEW d \in Clients, pc'[d] # "idle", NEW a \in Touches(tx[d]) \ contended
        PROVE  CopyCurrent(d, a)'
    BY <1>4, <2>2, <2>3, <2>4
  <2> QED
    BY <1>1, <2>4 DEF CopiesCurrent, Touches
<1>8. CopiesFunded'
  BY <1>1, <1>4 DEF IInv, CopiesFunded
<1>9. MemoryFollowsDisk'
  <2> SUFFICES ASSUME NEW a \in Accounts \ contended, accounts[a] # db'[a]
               PROVE  \E d \in Clients : pc'[d] = "written" /\ a \in Touches(tx[d])
    BY <1>1 DEF MemoryFollowsDisk, Touches
  <2>1. CASE a \in Touches(tx[c])
    BY <1>4, <2>1
  <2>2. CASE a \notin Touches(tx[c])
    <3>1. PICK d \in Clients : pc[d] = "written" /\ a \in Touches(tx[d])
      BY <1>3, <2>2 DEF IInv, MemoryFollowsDisk
    <3> QED
      BY <1>1, <1>4, <3>1
  <2> QED
    BY <2>1, <2>2
<1> QED
  BY <1>5, <1>6, <1>7, <1>8, <1>9 DEF IInv

LEMMA FailStep ==
  ASSUME IInv, NEW c \in Clients, CommitFails(c)
  PROVE  IInv'
<1>1. /\ pc[c] = "staged" /\ pc'[c] = "idle" /\ UNCHANGED <<db, accounts, contended>>
      /\ \A d \in Clients \ {c} : /\ pc'[d] = pc[d] /\ tx'[d] = tx[d]
                                  /\ sender'[d] = sender[d] /\ recipient'[d] = recipient[d]
  BY DEF IInv, TypeOK, CommitFails, Left
<1>2. TypeOK'
  BY DEF IInv, TypeOK, CommitFails, Left
<1>3. Disjoint' /\ CopiesFunded'
  BY <1>1 DEF IInv, Disjoint, CopiesFunded, Touches
<1>4. CopiesCurrent'
  <2>1. ASSUME NEW d \in Clients, pc'[d] # "idle", NEW a \in Touches(tx'[d]) \ contended
        PROVE  CopyCurrent(d, a)'
    BY <1>1, <2>1, OthersUndisturbed
  <2> QED
    BY <1>1, <2>1 DEF CopiesCurrent, Touches
<1>5. MemoryFollowsDisk'
  <2> SUFFICES ASSUME NEW a \in Accounts \ contended, accounts[a] # db[a]
               PROVE  \E d \in Clients : pc'[d] = "written" /\ a \in Touches(tx'[d])
    BY <1>1 DEF MemoryFollowsDisk, Touches
  <2>1. PICK d \in Clients : pc[d] = "written" /\ a \in Touches(tx[d])
    BY DEF IInv, MemoryFollowsDisk
  <2> QED
    BY <1>1, <2>1
<1> QED
  BY <1>2, <1>3, <1>4, <1>5 DEF IInv

LEMMA MemoryStep ==
  ASSUME IInv, NEW c \in Clients, CommitMemory(c)
  PROVE  IInv'
<1>1. /\ pc[c] = "written" /\ pc'[c] = "idle"
      /\ accounts' = Updated(accounts, Batch(c)) /\ UNCHANGED <<db, contended>>
      /\ \A d \in Clients \ {c} : /\ pc'[d] = pc[d] /\ tx'[d] = tx[d]
                                  /\ sender'[d] = sender[d] /\ recipient'[d] = recipient[d]
  BY DEF IInv, TypeOK, CommitMemory, Left
<1>2. /\ tx[c] \in Txs /\ Batch(c) \in [Touches(tx[c]) -> Account]
      /\ \A a \in Touches(tx[c]) \ Drained : Batch(c)[a].balance >= 0
      /\ Touches(tx[c]) \subseteq Accounts
  BY <1>1, BatchType
<1>3. /\ accounts' \in [Accounts -> Account]
      /\ \A a \in Accounts \ Touches(tx[c]) : accounts'[a] = accounts[a]
      /\ \A a \in Touches(tx[c]) : accounts'[a] = Batch(c)[a]
  BY <1>1, <1>2 DEF IInv, TypeOK, Updated
<1>4. TypeOK'
  <2>1. \A a \in Accounts \ Drained : accounts'[a].balance >= 0
    BY <1>2, <1>3 DEF IInv, TypeOK
  <2> QED
    BY <1>3, <2>1 DEF IInv, TypeOK, CommitMemory, Left
<1>5. Disjoint' /\ CopiesFunded'
  BY <1>1 DEF IInv, Disjoint, CopiesFunded, Touches
<1>6. CopiesCurrent'
  <2>1. ASSUME NEW d \in Clients, pc'[d] # "idle", NEW a \in Touches(tx'[d]) \ contended
        PROVE  CopyCurrent(d, a)'
    <3>1. d # c /\ pc[d] # "idle" /\ tx'[d] = tx[d]
      BY <1>1, <2>1
    <3>2. a \notin Touches(tx[c])
      BY <1>1, <2>1, <3>1 DEF IInv, Disjoint
    <3>3. a \in Accounts
      BY <2>1, <3>1, TxType DEF IInv, TypeOK
    <3> QED
      BY <1>1, <1>3, <2>1, <3>1, <3>2, <3>3, OthersUndisturbed
  <2> QED
    BY <1>1, <2>1 DEF CopiesCurrent, Touches
<1>7. MemoryFollowsDisk'
  <2> SUFFICES ASSUME NEW a \in Accounts \ contended, accounts'[a] # db[a]
               PROVE  \E d \in Clients : pc'[d] = "written" /\ a \in Touches(tx'[d])
    BY <1>1 DEF MemoryFollowsDisk, Touches
  <2>1. a \in Touches(tx[c]) => db[a] = Batch(c)[a]
    BY <1>1 DEF IInv, CopiesCurrent, CopyCurrent
  <2>2. a \notin Touches(tx[c])
    BY <1>3, <2>1
  <2>3. PICK d \in Clients : pc[d] = "written" /\ a \in Touches(tx[d])
    BY <1>3, <2>2 DEF IInv, MemoryFollowsDisk
  <2> QED
    BY <1>1, <2>2, <2>3
<1> QED
  BY <1>4, <1>5, <1>6, <1>7 DEF IInv

LEMMA RestartStep == ASSUME IInv, Restart PROVE IInv'
  BY DEF IInv, TypeOK, Disjoint, CopiesCurrent, CopiesFunded, MemoryFollowsDisk, Restart

LEMMA Inductive == IInv /\ [Next]_vars => IInv'
<1> SUFFICES ASSUME IInv, [Next]_vars PROVE IInv'
  OBVIOUS
<1>1. ASSUME NEW c \in Clients, ApplyTransactionAtomic(c) PROVE IInv'
  BY <1>1, ReadSenderStep, StageStep, WriteStep, FailStep, MemoryStep
  DEF ApplyTransactionAtomic
<1>2. CASE Restart
  BY <1>2, RestartStep
<1>3. CASE UNCHANGED vars
  <2> USE DEF vars, local, Touches
  <2>1. (TypeOK /\ Disjoint)' /\ MemoryFollowsDisk'
    BY <1>3 DEF IInv, TypeOK, Disjoint, MemoryFollowsDisk
  <2>2. CopiesCurrent' /\ CopiesFunded'
    BY <1>3 DEF IInv, CopiesCurrent, CopyCurrent, CopiesFunded, Batch
  <2> QED
    BY <2>1, <2>2 DEF IInv
<1> QED
  BY <1>1, <1>2, <1>3 DEF Next

LEMMA Invariance == Spec => []IInv
<1>1. Init => IInv
  BY InitIInv
<1>2. IInv /\ [Next]_vars => IInv'
  BY Inductive
<1> QED
  BY <1>1, <1>2, PTL DEF Spec

\* Whatever the calls overlap in, no account falls below zero on disk or in memory but
\* the recipients of negative amounts; every client has the copies its step works with.
THEOREM TypeCorrect == Spec => []TypeOK
  BY Invariance, PTL DEF IInv

\* Memory and disk differ only in accounts some call has written and will remember, and
\* in those two calls worked on at once.
THEOREM MemoryFollows == Spec => []MemoryFollowsDisk
  BY Invariance, PTL DEF IInv

-----------------------------------------------------------------------------

\* Of all steps only the batch write changes the disk: on what its call alone works on it
\* is the step of one valid transaction.
LEMMA WriteSimulates ==
  ASSUME IInv, NEW c \in Clients, CommitWrite(c)
  PROVE  Abstract!Next
<1> DEFINE t == tx[c]
           from == Tx[t].from
           to == Tx[t].to
<1>1. /\ pc[c] = "staged" /\ t \in Txs /\ db' = Updated(db, Batch(c))
      /\ \A a \in Touches(t) : Batch(c)[a] = IF a = to THEN recipient[c] ELSE sender[c]
      /\ Batch(c) \in [Touches(t) -> Account] /\ Touches(t) \subseteq Accounts
  BY BatchType DEF CommitWrite
<1>2. from \in Accounts /\ to \in Accounts /\ Touches(t) = {from, to}
  BY <1>1, TxType DEF Touches
<1>3. /\ db'[to] = recipient[c]
      /\ from # to => db'[from] = sender[c]
      /\ \A a \in Accounts \ {from, to} : db'[a] = db[a]
  BY <1>1, <1>2 DEF Updated
<1>4. from \notin contended =>
        /\ Abstract!Valid(t)
        /\ sender[c] = Abstract!Debited(from, t)
  BY <1>1, <1>2 DEF IInv, CopiesCurrent, CopyCurrent, Abstract!Valid, Abstract!Debited
<1>5. to \notin contended => recipient[c] = Abstract!Credited(to, t)
  BY <1>1, <1>2 DEF IInv, CopiesCurrent, CopyCurrent, Abstract!Credited
<1>6. CASE from # to
  BY <1>1, <1>3, <1>4, <1>5, <1>6 DEF Abstract!Next, Abstract!Transfer
<1>7. CASE from = to
  BY <1>1, <1>3, <1>4, <1>5, <1>7 DEF Abstract!Next, Abstract!SelfTransfer
<1> QED
  BY <1>6, <1>7

LEMMA StepSimulates ==
  ASSUME IInv, [Next]_vars
  PROVE  [Abstract!Next]_db
<1>1. ASSUME NEW c \in Clients, ApplyTransactionAtomic(c) PROVE Abstract!Next \/ db' = db
  BY <1>1, WriteSimulates
  DEF ApplyTransactionAtomic, ReadSender, StageUpdates, CommitFails, CommitMemory
<1>2. Restart \/ UNCHANGED vars => db' = db
  BY DEF Restart, vars
<1> QED
  BY <1>1, <1>2 DEF Next

\* The stored accounts implement Transfers: a crash at any point, a failed write and any
\* interleaving of calls leave nothing but whole transfers on the accounts that each call
\* has to itself.
THEOREM Implements == Spec => Atomicity
<1>1. Init => Abstract!Init
  BY DEF Init, Abstract!Init
<1>2. IInv /\ [Next]_vars => [Abstract!Next]_db
  BY StepSimulates
<1> QED
  BY <1>1, <1>2, Invariance, PTL DEF Spec, Atomicity, Abstract!Spec
=============================================================================
