------------------------------ MODULE LedgerProofs ------------------------------
(***************************************************************************)
(* Proofs about Ledger, for any accounts, transactions, capacities and     *)
(* rewards.  The argument is about one account at a time: the nonce and    *)
(* the balance that it will have once the credit under way is stored.      *)
(***************************************************************************)
EXTENDS Ledger, FiniteSetTheorems, SequenceTheorems, WellFoundedInduction, TLAPS

\* The account as the second store of applyTransaction will leave it.
Due(a) ==
    IF credited # NoAccount /\ Tx[credited.tx].to = a THEN credited.account ELSE Get(a)

\* Still to be debited.
Waiting == {t \in todo : credited # NoAccount => credited.tx # t}

\* The transactions that AppliedOnce is about.
OnceOnly(t) == Tx[t].from # Self /\ (shared \/ ~SelfTransfer(t))

\* The second store may put an older nonce back, but one that is past every transaction
\* that was applied.
NonceInv ==
    /\ \A a \in Accounts : Due(a).nonce <= Get(a).nonce
    /\ \A t \in Txs : OnceOnly(t) /\ applied[t] >= 1
                        => Tx[t].nonce < Due(Tx[t].from).nonce

BalanceInv ==
    \A a \in Accounts \ (siblings \cup Drained) : Get(a).balance >= 0 /\ Due(a).balance >= 0

\* What selection has found stays true until the block is final: only the goroutine
\* itself, and a restart, change accounts.
PipeInv ==
    /\ pc # "applying" => credited = NoAccount /\ todo = {}
    /\ pc = "proposed" => \A t \in block : /\ Get(Tx[t].from).nonce = Tx[t].nonce
                                           /\ Get(Tx[t].from).balance >= Cost(t)
    /\ pc = "applying" => SiblingsOf(block) \subseteq siblings

\* And for a transaction without siblings until it is applied itself, unless another one
\* takes from its sender.
WaitInv ==
    \A t \in Waiting :
        /\ Tx[t].nonce <= Due(Tx[t].from).nonce
        /\ Tx[t].from \notin siblings \cup Drained => Due(Tx[t].from).balance >= Cost(t)
        /\ OnceOnly(t) => applied[t] = 0

IInv == TypeOK /\ NonceInv /\ BalanceInv /\ PipeInv /\ WaitInv /\ AppliedOnce

-----------------------------------------------------------------------------
(* Operators.                                                              *)

LEMMA TxType ==
  ASSUME NEW t \in Txs
  PROVE  /\ Tx[t].from \in Accounts /\ Tx[t].to \in Accounts
         /\ Tx[t].amount \in Int /\ Tx[t].fee \in Int /\ Tx[t].nonce \in Nat
         /\ Cost(t) \in Int
  BY LedgerAssumption DEF TxRecord, Cost

LEMMA GetType == ASSUME TypeOK, NEW a \in Accounts PROVE Get(a) \in Account
<1>1. accounts[a] \in Account \cup {NoAccount}
  BY DEF TypeOK
<1> QED
  BY <1>1 DEF Get, Exists, Account

LEMMA DueType == ASSUME TypeOK, NEW a \in Accounts PROVE Due(a) \in Account
  BY GetType DEF Due, TypeOK, Pending

LEMMA AccountsKept ==
  ASSUME UNCHANGED <<accounts, credited>>
  PROVE  \A a \in Accounts : Get(a)' = Get(a) /\ Due(a)' = Due(a)
  BY DEF Get, Exists, Due

LEMMA RemoveType ==
  ASSUME NEW s \in Seq(Txs), NEW t PROVE RemoveTransaction(s, t) \in Seq(Txs)
<1> DEFINE k == CHOOSE i \in 1 .. Len(s) : s[i] = t
           before == SubSeq(s, 1, k - 1)
           after == SubSeq(s, k + 1, Len(s))
<1>1. CASE \E i \in 1 .. Len(s) : s[i] = t
  <2>1. k \in 1 .. Len(s)
    BY <1>1
  <2>2. before \in Seq(Txs) /\ after \in Seq(Txs)
    <3> HIDE DEF k
    <3>1. \A i \in 1 .. Len(s) : s[i] \in Txs
      OBVIOUS
    <3>2. before \in Seq(Txs)
      BY <2>1, <3>1, SubSeqProperties
    <3>3. after \in Seq(Txs)
      BY <2>1, <3>1, SubSeqProperties
    <3> QED
      BY <3>2, <3>3
  <2>3. before \o after \in Seq(Txs)
    BY <2>2, ConcatProperties
  <2> QED
    BY <1>1, <2>3 DEF RemoveTransaction
<1>2. CASE ~ \E i \in 1 .. Len(s) : s[i] = t
  BY <1>2 DEF RemoveTransaction
<1> QED
  BY <1>1, <1>2

\* Rewards are natural numbers: the groups of a set of validators are finitely many and
\* none is empty.
LEMMA RewardsType ==
  ASSUME TypeOK, NEW V \in Rewarded
  PROVE  /\ ProposerReward \in Nat
         /\ \A a \in V : DistributePoBRewardFairly(PoBReward, V)[a] \in Nat
<1> USE LedgerAssumption
<1> DEFINE reward == calculateBlockReward(height)
           groups == GroupValidatorsByNetwork(V)
           group(a) == CHOOSE g \in groups : a \in g
<1>1. reward \in Nat
  <2>1. height \in Nat
    BY DEF TypeOK
  <2>2. height \div BlockReductionInterval \in Int
    BY <2>1
  <2> DEFINE r == InitialBlockReward - (height \div BlockReductionInterval) * BlockRewardReduction
  <2>3. r \in Int
    BY <2>2
  <2> HIDE DEF r
  <2>4. reward = IF r < MinBlockReward THEN MinBlockReward ELSE r
    BY DEF calculateBlockReward, r
  <2> QED
    BY <2>3, <2>4
<1> HIDE DEF reward
<1>2. V \subseteq Accounts /\ IsFiniteSet(V)
  BY FS_Subset
<1>3. ASSUME NEW a \in V
      PROVE  Cardinality(groups) \in Nat \ {0} /\ Cardinality(group(a)) \in Nat \ {0}
  <2>1. groups \subseteq SUBSET V
    BY DEF GroupValidatorsByNetwork
  <2>2. IsFiniteSet(groups)
    BY <1>2, <2>1, FS_SUBSET, FS_Subset
  <2>3. \E g \in groups : a \in g
    <3> DEFINE own == {v \in V : Networks[v] = Networks[a]}
    <3>1. own \in groups
      BY DEF GroupValidatorsByNetwork
    <3>2. a \in own
      OBVIOUS
    <3> QED
      BY <3>1, <3>2
  <2>4. group(a) \in groups /\ a \in group(a)
    BY <2>3
  <2>5. IsFiniteSet(group(a))
    BY <1>2, <2>1, <2>4, FS_Subset
  <2> QED
    BY <2>2, <2>4, <2>5, FS_CardinalityType, FS_EmptySet
<1>4. ProposerReward \in Nat /\ PoBReward \in Nat
  <2>1. (reward * 80) \div 100 \in Nat /\ (reward * 20) \div 100 \in Nat
    BY <1>1
  <2> QED
    BY <2>1 DEF ProposerReward, PoBReward, reward
<1>5. ASSUME NEW a \in V PROVE DistributePoBRewardFairly(PoBReward, V)[a] \in Nat
  <2> DEFINE c == Cardinality(groups)
             d == Cardinality(group(a))
  <2>1. Share(PoBReward \div c, d) \in Nat
    <3>1. c \in Nat \ {0} /\ d \in Nat \ {0}
      BY <1>3
    <3> HIDE DEF c, d
    <3>2. \A m \in Nat, n \in Nat \ {0} : m \div n \in Nat
      OBVIOUS
    <3> QED
      BY <1>4, <3>1, <3>2 DEF Share
  <2>2. DistributePoBRewardFairly(PoBReward, V)[a] = Share(PoBReward \div c, d)
    BY DEF DistributePoBRewardFairly
  <2> QED
    BY <2>1, <2>2
<1> QED
  BY <1>4, <1>5

-----------------------------------------------------------------------------
(* Induction, without an operator as a parameter.                          *)

\* Every non-empty set of natural numbers has a least element.
LEMMA LeastNat ==
  ASSUME NEW T, T \subseteq Nat, T # {}
  PROVE  \E n \in T : \A m \in T : n <= m
<1>1. PICK n \in T : \A m \in T : <<m, n>> \notin OpToRel(<, Nat)
  BY NatLessThanWellFounded, WFMin, Zenon
<1>2. ASSUME NEW m \in T, m < n PROVE FALSE
  <2>1. <<m, n>> \in {ss \in Nat \X Nat : ss[1] < ss[2]}
    BY <1>2
  <2> QED
    BY <1>1, <2>1, Zenon DEF OpToRel
<1>3. n \in Nat /\ \A m \in T : m \in Nat /\ ~(m < n)
  BY <1>2, Zenon
<1> HIDE <1>1
<1> QED
  BY <1>3

\* A finite set belongs to every collection that holds the empty set and, with a set,
\* the set with one more element of it.
LEMMA FiniteInduction ==
  ASSUME NEW S, IsFiniteSet(S), NEW P, {} \in P,
         \A T \in SUBSET S : \A x \in S \ T : T \in P => T \cup {x} \in P
  PROVE  S \in P
<1> SUFFICES ASSUME S \notin P PROVE FALSE
  OBVIOUS
<1> DEFINE Out == {T \in SUBSET S : T \notin P}
           Sizes == {Cardinality(T) : T \in Out}
<1>1. \A T \in SUBSET S : IsFiniteSet(T) /\ Cardinality(T) \in Nat
  BY FS_Subset, FS_CardinalityType
<1>2. Sizes \subseteq Nat /\ Sizes # {}
  BY <1>1
<1>3. PICK T \in Out : \A U \in Out : Cardinality(T) <= Cardinality(U)
  <2> HIDE DEF Sizes
  <2>1. PICK n \in Sizes : \A m \in Sizes : n <= m
    BY <1>2, LeastNat
  <2> QED
    BY <2>1 DEF Sizes
<1>4. PICK x : x \in T
  BY <1>3
<1>5. Cardinality(T \ {x}) < Cardinality(T)
  BY <1>1, <1>3, <1>4, FS_RemoveElement
<1>6. T \ {x} \in SUBSET S /\ T \ {x} \in P
  <2>1. T \ {x} \in SUBSET S
    OBVIOUS
  <2>2. T \ {x} \notin Out
    BY <1>1, <1>3, <1>5, <2>1
  <2> QED
    BY <2>1, <2>2
<1>7. T = (T \ {x}) \cup {x} /\ x \in S \ (T \ {x})
  BY <1>4
<1> QED
  BY <1>3, <1>6, <1>7

-----------------------------------------------------------------------------
(* Sums.                                                                   *)

First(s) == CHOOSE x \in s : TRUE

\* it is a running sum of f over the sets of D.
Sums(f, it, D) ==
    \A s \in D : it[s] = IF s = {} THEN 0 ELSE f[First(s)] + it[s \ {First(s)}]

LEMMA SumsExist ==
  ASSUME NEW S, IsFiniteSet(S), NEW f, \A x \in S : f[x] \in Int
  PROVE  \E it \in [SUBSET S -> Int] : Sums(f, it, SUBSET S)
<1> DEFINE Upto(n) == {s \in SUBSET S : Cardinality(s) <= n}
           Lacking == {n \in Nat : ~ \E it \in [SUBSET S -> Int] : Sums(f, it, Upto(n))}
<1>1. \A s \in SUBSET S : /\ IsFiniteSet(s) /\ Cardinality(s) \in Nat
                          /\ Cardinality(s) <= Cardinality(S)
                          /\ Cardinality(s) = 0 => s = {}
  BY FS_Subset, FS_CardinalityType, FS_EmptySet
<1>2. \A s \in SUBSET S : s # {} =>
        /\ First(s) \in s /\ s \ {First(s)} \in SUBSET S
        /\ Cardinality(s \ {First(s)}) = Cardinality(s) - 1
  BY <1>1, FS_RemoveElement DEF First
<1>3. Lacking = {}
  <2> SUFFICES ASSUME Lacking # {} PROVE FALSE
    OBVIOUS
  <2>1. PICK n \in Lacking : \A m \in Lacking : n <= m
    <3> HIDE DEF Lacking
    <3>1. Lacking \subseteq Nat
      BY DEF Lacking
    <3> QED
      BY <3>1, LeastNat
  <2>2. n # 0
    <3> SUFFICES ASSUME n = 0 PROVE FALSE
      OBVIOUS
    <3> DEFINE zero == [s \in SUBSET S |-> 0]
    <3>1. zero \in [SUBSET S -> Int] /\ Sums(f, zero, Upto(0))
      BY <1>1 DEF Sums
    <3> QED
      BY <2>1, <3>1
  <2>3. PICK g \in [SUBSET S -> Int] : Sums(f, g, Upto(n - 1))
    <3>1. n - 1 \in Nat /\ ~(n <= n - 1)
      BY <2>1, <2>2
    <3> QED
      BY <2>1, <3>1
  <2> DEFINE h == [s \in SUBSET S |-> IF s = {} THEN 0 ELSE f[First(s)] + g[s \ {First(s)}]]
  <2>4. h \in [SUBSET S -> Int]
    BY <1>2
  <2>5. \A s \in Upto(n - 1) : h[s] = g[s]
    BY <2>3 DEF Sums
  <2>6. Sums(f, h, Upto(n))
    <3> SUFFICES ASSUME NEW s \in Upto(n), s # {}
                 PROVE  h[s] = f[First(s)] + h[s \ {First(s)}]
      BY DEF Sums
    <3>1. s \ {First(s)} \in Upto(n - 1)
      BY <1>1, <1>2, <2>1
    <3> QED
      BY <2>5, <3>1
  <2> QED
    BY <2>1, <2>4, <2>6
<1>4. Cardinality(S) \in Nat /\ Upto(Cardinality(S)) = SUBSET S
  BY <1>1
<1> QED
  BY <1>3, <1>4

\* Any two of them agree.
LEMMA SumsAgree ==
  ASSUME NEW S, IsFiniteSet(S), NEW f, NEW it, NEW jt,
         Sums(f, it, SUBSET S), Sums(f, jt, SUBSET S)
  PROVE  \A s \in SUBSET S : it[s] = jt[s]
<1> DEFINE Bad == {s \in SUBSET S : it[s] # jt[s]}
           Sizes == {Cardinality(s) : s \in Bad}
<1> SUFFICES ASSUME Bad # {} PROVE FALSE
  OBVIOUS
<1>1. \A s \in SUBSET S : IsFiniteSet(s) /\ Cardinality(s) \in Nat
  BY FS_Subset, FS_CardinalityType
<1>2. PICK s \in Bad : \A u \in Bad : Cardinality(s) <= Cardinality(u)
  <2>1. Sizes \subseteq Nat /\ Sizes # {}
    BY <1>1
  <2> HIDE DEF Sizes
  <2>2. PICK n \in Sizes : \A m \in Sizes : n <= m
    BY <2>1, LeastNat
  <2> QED
    BY <2>2 DEF Sizes
<1>3. s # {}
  BY <1>2 DEF Sums
<1>4. First(s) \in s /\ s \ {First(s)} \in SUBSET S
  BY <1>3 DEF First
<1>5. Cardinality(s \ {First(s)}) < Cardinality(s)
  BY <1>1, <1>2, <1>4, FS_RemoveElement
<1>6. it[s \ {First(s)}] = jt[s \ {First(s)}]
  BY <1>1, <1>2, <1>4, <1>5
<1> QED
  BY <1>2, <1>3, <1>6 DEF Sums

LEMMA SumIsSums ==
  ASSUME NEW S, IsFiniteSet(S), NEW f, \A x \in S : f[x] \in Int,
         NEW it \in [SUBSET S -> Int], Sums(f, it, SUBSET S)
  PROVE  \A T \in SUBSET S : SumFunctionOnSet(f, T) = it[T]
<1> SUFFICES ASSUME NEW T \in SUBSET S PROVE SumFunctionOnSet(f, T) = it[T]
  OBVIOUS
<1> DEFINE Body(g) == [s \in SUBSET T |-> IF s = {} THEN 0 ELSE f[First(s)] + g[s \ {First(s)}]]
           jt == CHOOSE g : g = Body(g)
<1>1. SumFunctionOnSet(f, T) = jt[T]
  BY DEF SumFunctionOnSet, FoldFunctionOnSet, MapThenFoldSet, First
<1>2. \E g : g = Body(g)
  <2> DEFINE g == [s \in SUBSET T |-> it[s]]
  <2>1. ASSUME NEW s \in SUBSET T
        PROVE  g[s] = IF s = {} THEN 0 ELSE f[First(s)] + g[s \ {First(s)}]
    BY DEF Sums
  <2>2. g = Body(g)
    BY <2>1
  <2> QED
    BY <2>2
<1>3. jt = Body(jt)
  <2> HIDE DEF Body
  <2> QED
    BY <1>2
<1>4. Sums(f, jt, SUBSET T)
  <2> HIDE DEF jt
  <2> QED
    BY <1>3 DEF Sums
<1>5. Sums(f, it, SUBSET T) /\ IsFiniteSet(T)
  BY FS_Subset DEF Sums
<1> QED
  BY <1>1, <1>4, <1>5, SumsAgree

LEMMA SumEmpty == ASSUME NEW f PROVE SumFunctionOnSet(f, {}) = 0
<1>1. IsFiniteSet({}) /\ \A x \in {} : f[x] \in Int
  BY FS_EmptySet
<1>2. PICK it \in [SUBSET {} -> Int] : Sums(f, it, SUBSET {})
  BY <1>1, SumsExist
<1>3. SumFunctionOnSet(f, {}) = it[{}]
  BY <1>1, <1>2, SumIsSums
<1> QED
  BY <1>2, <1>3 DEF Sums

\* A sum is an integer, and any element can be taken out of it.
LEMMA SumRemove ==
  ASSUME NEW S, IsFiniteSet(S), NEW f, \A x \in S : f[x] \in Int
  PROVE  /\ SumFunctionOnSet(f, S) \in Int
         /\ \A x \in S : SumFunctionOnSet(f, S) = f[x] + SumFunctionOnSet(f, S \ {x})
<1>1. PICK it \in [SUBSET S -> Int] : Sums(f, it, SUBSET S)
  BY SumsExist
<1>2. \A T \in SUBSET S : SumFunctionOnSet(f, T) = it[T]
  BY <1>1, SumIsSums
<1> DEFINE Bad == {s \in SUBSET S : \E x \in s : it[s] # f[x] + it[s \ {x}]}
           Sizes == {Cardinality(s) : s \in Bad}
<1>3. Bad = {}
  <2> SUFFICES ASSUME Bad # {} PROVE FALSE
    OBVIOUS
  <2>1. \A s \in SUBSET S : IsFiniteSet(s) /\ Cardinality(s) \in Nat
    BY FS_Subset, FS_CardinalityType
  <2>2. PICK s \in Bad : \A u \in Bad : Cardinality(s) <= Cardinality(u)
    <3>1. Sizes \subseteq Nat /\ Sizes # {}
      BY <2>1
    <3> HIDE DEF Sizes
    <3>2. PICK n \in Sizes : \A m \in Sizes : n <= m
      BY <3>1, LeastNat
    <3> QED
      BY <3>2 DEF Sizes
  <2>3. PICK x \in s : it[s] # f[x] + it[s \ {x}]
    BY <2>2
  <2> DEFINE c == First(s)
  <2>4. c \in s /\ it[s] = f[c] + it[s \ {c}]
    BY <1>1, <2>2, <2>3 DEF First, Sums
  <2>5. x # c
    BY <2>3, <2>4
  <2>6. \A y \in s : s \ {y} \in SUBSET S /\ s \ {y} \notin Bad
    <3> SUFFICES ASSUME NEW y \in s PROVE s \ {y} \in SUBSET S /\ s \ {y} \notin Bad
      OBVIOUS
    <3>1. s \ {y} \in SUBSET S /\ Cardinality(s \ {y}) = Cardinality(s) - 1
      BY <2>1, <2>2, FS_RemoveElement
    <3> QED
      BY <2>1, <2>2, <3>1
  <2> HIDE DEF c
  <2>7. /\ it[s \ {c}] = f[x] + it[(s \ {c}) \ {x}]
        /\ it[s \ {x}] = f[c] + it[(s \ {x}) \ {c}]
    BY <2>3, <2>4, <2>5, <2>6
  <2>8. (s \ {c}) \ {x} = (s \ {x}) \ {c} /\ (s \ {c}) \ {x} \in SUBSET S
    BY <2>2
  <2>9. f[x] \in Int /\ f[c] \in Int /\ it[(s \ {c}) \ {x}] \in Int
    BY <2>2, <2>3, <2>4, <2>8
  <2> DEFINE r == it[(s \ {c}) \ {x}]
  <2>10. it[s] = f[c] + (f[x] + r)
    BY <2>4, <2>7
  <2>11. it[s \ {x}] = f[c] + r
    BY <2>7, <2>8
  <2>12. r \in Int
    BY <2>9
  <2> HIDE DEF r
  <2>13. f[c] + (f[x] + r) = f[x] + (f[c] + r)
    BY <2>9, <2>12
  <2> QED
    BY <2>3, <2>10, <2>11, <2>13
<1>4. \A x \in S : it[S] = f[x] + it[S \ {x}]
  BY <1>3
<1> QED
  BY <1>2, <1>4

\* Sums of functions add up, for a subset at a time.
LEMMA SumAdd ==
  ASSUME NEW S, IsFiniteSet(S), NEW f, NEW g, NEW h,
         \A x \in S : f[x] \in Int /\ g[x] \in Int /\ h[x] = f[x] + g[x]
  PROVE  SumFunctionOnSet(h, S) = SumFunctionOnSet(f, S) + SumFunctionOnSet(g, S)
<1> DEFINE P == {T \in SUBSET S :
      SumFunctionOnSet(h, T) = SumFunctionOnSet(f, T) + SumFunctionOnSet(g, T)}
<1>1. {} \in P
  BY SumEmpty
<1>2. ASSUME NEW T \in SUBSET S, NEW x \in S \ T, T \in P
      PROVE  T \cup {x} \in P
  <2> DEFINE U == T \cup {x}
  <2>1. IsFiniteSet(U) /\ IsFiniteSet(T) /\ U \in SUBSET S /\ U \ {x} = T /\ x \in U
    BY FS_Subset
  <2>2. /\ \A y \in U : f[y] \in Int /\ g[y] \in Int /\ h[y] \in Int
        /\ \A y \in T : f[y] \in Int /\ g[y] \in Int
    OBVIOUS
  <2> HIDE DEF U
  <2>3. /\ SumFunctionOnSet(h, U) = h[x] + SumFunctionOnSet(h, T)
        /\ SumFunctionOnSet(f, U) = f[x] + SumFunctionOnSet(f, T)
        /\ SumFunctionOnSet(g, U) = g[x] + SumFunctionOnSet(g, T)
    BY <2>1, <2>2, SumRemove
  <2>4. SumFunctionOnSet(f, T) \in Int /\ SumFunctionOnSet(g, T) \in Int
    BY <2>1, <2>2, SumRemove
  <2>5. h[x] = f[x] + g[x] /\ f[x] \in Int /\ g[x] \in Int
    OBVIOUS
  <2>6. SumFunctionOnSet(h, T) = SumFunctionOnSet(f, T) + SumFunctionOnSet(g, T)
    BY <1>2
  <2>7. SumFunctionOnSet(h, U) = SumFunctionOnSet(f, U) + SumFunctionOnSet(g, U)
    BY <2>3, <2>4, <2>5, <2>6
  <2> QED
    BY <2>1, <2>7 DEF U
<1>3. S \in P
  <2> HIDE DEF P
  <2> QED
    BY <1>1, <1>2, FiniteInduction
<1> QED
  BY <1>3

\* The sum of what is nought but in one place.
LEMMA SumSingle ==
  ASSUME NEW S, IsFiniteSet(S), NEW f, NEW a \in S, f[a] \in Int,
         \A x \in S \ {a} : f[x] = 0
  PROVE  SumFunctionOnSet(f, S) = f[a]
<1> DEFINE R == S \ {a}
           P == {T \in SUBSET R : SumFunctionOnSet(f, T) = 0}
<1>1. {} \in P
  BY SumEmpty
<1>2. ASSUME NEW T \in SUBSET R, NEW x \in R \ T, T \in P
      PROVE  T \cup {x} \in P
  <2>1. T \cup {x} \in SUBSET S /\ (T \cup {x}) \ {x} = T /\ x \in T \cup {x} /\ f[x] = 0
    OBVIOUS
  <2>2. IsFiniteSet(T \cup {x}) /\ \A y \in T \cup {x} : f[y] \in Int
    BY <2>1, FS_Subset
  <2>3. SumFunctionOnSet(f, T \cup {x}) = f[x] + SumFunctionOnSet(f, (T \cup {x}) \ {x})
    BY <2>1, <2>2, SumRemove
  <2>4. SumFunctionOnSet(f, T) = 0 /\ T \cup {x} \in SUBSET R
    BY <1>2
  <2>5. SumFunctionOnSet(f, T \cup {x}) = 0
    BY <2>1, <2>3, <2>4
  <2> QED
    BY <2>4, <2>5
<1>3. R \in P
  <2>1. IsFiniteSet(R)
    BY FS_Subset
  <2> HIDE DEF P, R
  <2> QED
    BY <1>1, <1>2, <2>1, FiniteInduction
<1>4. \A x \in S : f[x] \in Int
  OBVIOUS
<1> QED
  BY <1>3, <1>4, SumRemove

\* What a change in one place does to a sum.
LEMMA SumChange ==
  ASSUME NEW S, IsFiniteSet(S), NEW f, NEW g, NEW a \in S,
         \A x \in S : f[x] \in Int /\ g[x] \in Int,
         \A x \in S \ {a} : g[x] = f[x]
  PROVE  SumFunctionOnSet(g, S) = SumFunctionOnSet(f, S) + g[a] - f[a]
<1> DEFINE d == [x \in S |-> g[x] - f[x]]
<1>1. \A x \in S : d[x] \in Int /\ g[x] = f[x] + d[x]
  OBVIOUS
<1>2. d[a] = g[a] - f[a] /\ \A x \in S \ {a} : d[x] = 0
  OBVIOUS
<1> HIDE DEF d
<1>3. SumFunctionOnSet(g, S) = SumFunctionOnSet(f, S) + SumFunctionOnSet(d, S)
  BY <1>1, SumAdd
<1>4. SumFunctionOnSet(d, S) = d[a]
  BY <1>1, <1>2, SumSingle
<1>5. SumFunctionOnSet(f, S) \in Int
  BY SumRemove
<1> QED
  BY <1>2, <1>3, <1>4, <1>5

\* Where a function is nought it need not be summed.
LEMMA SumOfPart ==
  ASSUME NEW S, IsFiniteSet(S), NEW T, T \subseteq S, NEW f, NEW g,
         \A x \in T : f[x] \in Int /\ g[x] = f[x],
         \A x \in S \ T : f[x] = 0
  PROVE  SumFunctionOnSet(f, S) = SumFunctionOnSet(g, T)
<1>1. SumFunctionOnSet(f, T) = SumFunctionOnSet(g, T)
  <2> DEFINE z == [x \in T |-> 0]
  <2>1. \A x \in T : f[x] \in Int /\ z[x] \in Int /\ g[x] = f[x] + z[x]
    OBVIOUS
  <2>2. IsFiniteSet(T)
    BY FS_Subset
  <2>3. SumFunctionOnSet(g, T) = SumFunctionOnSet(f, T) + SumFunctionOnSet(z, T)
    <3> HIDE DEF z
    <3> QED
      BY <2>1, <2>2, SumAdd
  <2>4. SumFunctionOnSet(z, T) = 0
    <3>1. CASE T = {}
      BY <3>1, SumEmpty
    <3>2. ASSUME NEW a \in T PROVE SumFunctionOnSet(z, T) = 0
      <4>1. z[a] = 0 /\ \A x \in T \ {a} : z[x] = 0
        OBVIOUS
      <4> HIDE DEF z
      <4> QED
        BY <2>2, <4>1, SumSingle
    <3> QED
      BY <3>1, <3>2
  <2>5. SumFunctionOnSet(f, T) \in Int
    BY <2>2, SumRemove
  <2> QED
    BY <2>3, <2>4, <2>5
<1> DEFINE R == S \ T
           P == {U \in SUBSET R : SumFunctionOnSet(f, T \cup U) = SumFunctionOnSet(f, T)}
<1>2. {} \in P
  <2>1. T \cup {} = T
    OBVIOUS
  <2> QED
    BY <2>1
<1>3. ASSUME NEW U \in SUBSET R, NEW x \in R \ U, U \in P
      PROVE  U \cup {x} \in P
  <2> DEFINE V == T \cup (U \cup {x})
  <2>1. V \in SUBSET S /\ V \ {x} = T \cup U /\ x \in V /\ f[x] = 0
    OBVIOUS
  <2>2. IsFiniteSet(V) /\ \A y \in V : f[y] \in Int
    BY <2>1, FS_Subset
  <2>3. IsFiniteSet(T) /\ \A y \in T : f[y] \in Int
    BY FS_Subset
  <2>4. SumFunctionOnSet(f, T) \in Int
    BY <2>3, SumRemove
  <2> HIDE DEF V
  <2>5. SumFunctionOnSet(f, V) = f[x] + SumFunctionOnSet(f, T \cup U)
    BY <2>1, <2>2, SumRemove
  <2>6. SumFunctionOnSet(f, V) = SumFunctionOnSet(f, T)
    BY <1>3, <2>1, <2>4, <2>5
  <2> QED
    BY <2>6 DEF V
<1>4. R \in P
  <2>1. IsFiniteSet(R)
    BY FS_Subset
  <2> HIDE DEF P, R
  <2> QED
    BY <1>2, <1>3, <2>1, FiniteInduction
<1>5. T \cup R = S
  OBVIOUS
<1> QED
  BY <1>1, <1>4, <1>5

-----------------------------------------------------------------------------
(* Initial states, the mempool, selection.                                 *)

LEMMA InitIInv == Init => IInv
<1> SUFFICES ASSUME Init PROVE IInv
  OBVIOUS
<1> USE LedgerAssumption DEF Init
<1>1. TypeOK
  <2>1. accounts \in [Accounts -> Account \cup {NoAccount}]
    BY DEF Account, NewAccount
  <2>2. 0 \in 0 .. MaxHeight /\ 0 \in 0 .. MaxSubmissions /\ 0 \in 0 .. MaxCrashes
    OBVIOUS
  <2>3. <<>> \in Seq(Txs) /\ NothingOwed \in [Validators -> Nat]
    BY DEF NothingOwed
  <2> QED
    BY <2>1, <2>2, <2>3 DEF TypeOK
<1>2. ASSUME NEW a \in Accounts PROVE Get(a).balance >= 0 /\ Due(a) = Get(a)
  <2>1. accounts[a] = NoAccount \/ accounts[a].balance \in Nat
    BY DEF NewAccount
  <2> QED
    BY <2>1 DEF Get, Exists, Due
<1>3. NonceInv
  BY <1>1, <1>2, GetType DEF NonceInv, Account
<1>4. BalanceInv
  BY <1>2 DEF BalanceInv
<1>5. PipeInv /\ WaitInv /\ AppliedOnce
  BY DEF PipeInv, WaitInv, Waiting, AppliedOnce
<1> QED
  BY <1>1, <1>3, <1>4, <1>5 DEF IInv

\* Steps that leave accounts, the credit under way and the history of both alone keep
\* what is known of them.
LEMMA AccountsInvKept ==
  ASSUME IInv, UNCHANGED <<accounts, credited, shared, applied>>, siblings \subseteq siblings'
  PROVE  (NonceInv /\ BalanceInv /\ AppliedOnce)'
<1>1. \A a \in Accounts : Get(a)' = Get(a) /\ Due(a)' = Due(a)
  BY AccountsKept
<1>2. NonceInv'
  BY <1>1, TxType DEF IInv, NonceInv, OnceOnly
<1>3. BalanceInv'
  BY <1>1 DEF IInv, BalanceInv, Drained
<1> QED
  BY <1>2, <1>3 DEF IInv, AppliedOnce

LEMMA AddTransactionStep ==
  ASSUME IInv, NEW t \in Txs, AddTransaction(t) PROVE IInv'
<1> USE LedgerAssumption DEF AddTransaction, history
<1>1. TypeOK'
  <2>1. pool' \in Seq(Txs)
    BY DEF IInv, TypeOK
  <2>2. submissions' \in 0 .. MaxSubmissions
    BY DEF IInv, TypeOK
  <2> QED
    BY <2>1, <2>2 DEF IInv, TypeOK
<1>2. (NonceInv /\ BalanceInv /\ AppliedOnce)'
  BY AccountsInvKept
<1>3. \A a \in Accounts : Get(a)' = Get(a) /\ Due(a)' = Due(a)
  BY AccountsKept
<1>4. PipeInv'
  BY <1>3, TxType DEF IInv, PipeInv, TypeOK, SiblingsOf
<1>5. WaitInv'
  BY <1>3, TxType DEF IInv, WaitInv, Waiting, OnceOnly, Drained, TypeOK
<1> QED
  BY <1>1, <1>2, <1>4, <1>5 DEF IInv

LEMMA ProposeBlockStep == ASSUME IInv, ProposeBlock PROVE IInv'
<1> USE LedgerAssumption DEF ProposeBlock, history
<1>1. block' \subseteq Txs /\ todo = {} /\ credited = NoAccount
  <2>1. GetTransactionsBySize(pool) \subseteq Txs
    <3>1. \A i \in 1 .. Len(pool) : pool[i] \in Txs
      BY DEF IInv, TypeOK
    <3>2. \A x \in GetTransactionsBySize(pool) : \E i \in 1 .. Len(pool) : x = pool[i]
      BY Zenon DEF GetTransactionsBySize
    <3> QED
      BY <3>1, <3>2
  <2> QED
    BY <2>1 DEF selectAndValidateTransactions, IInv, PipeInv
<1>2. TypeOK'
  BY <1>1 DEF IInv, TypeOK
<1>3. (NonceInv /\ BalanceInv /\ AppliedOnce)'
  BY AccountsInvKept
<1>4. \A a \in Accounts : Get(a)' = Get(a)
  BY AccountsKept
<1>5. PipeInv'
  <2>1. \A t \in block' : validateTransaction(t)
    BY DEF selectAndValidateTransactions
  <2> QED
    BY <1>1, <1>4, <2>1, TxType DEF PipeInv, validateTransaction
<1>6. WaitInv'
  BY <1>1 DEF WaitInv, Waiting
<1> QED
  BY <1>2, <1>3, <1>5, <1>6 DEF IInv

LEMMA VoteInVainStep == ASSUME IInv, VoteInVain PROVE IInv'
<1> USE LedgerAssumption DEF VoteInVain, history
<1>1. todo = {} /\ credited = NoAccount
  BY DEF IInv, PipeInv
<1>2. TypeOK'
  BY <1>1 DEF IInv, TypeOK
<1>3. (NonceInv /\ BalanceInv /\ AppliedOnce)'
  BY AccountsInvKept
<1>4. (PipeInv /\ WaitInv)'
  BY <1>1 DEF PipeInv, WaitInv, Waiting
<1> QED
  BY <1>2, <1>3, <1>4 DEF IInv

LEMMA VoteAndFinalizeStep == ASSUME IInv, VoteAndFinalize PROVE IInv'
<1> USE LedgerAssumption DEF VoteAndFinalize
<1>1. credited = NoAccount
  BY DEF IInv, PipeInv
<1>2. TypeOK'
  <2>1. SiblingsOf(block) \subseteq Accounts
    BY TxType DEF IInv, TypeOK, SiblingsOf
  <2>2. height' \in 0 .. MaxHeight
    BY DEF IInv, TypeOK
  <2> QED
    BY <1>1, <2>1, <2>2 DEF IInv, TypeOK
<1>3. (NonceInv /\ BalanceInv /\ AppliedOnce)'
  BY AccountsInvKept
<1>4. \A a \in Accounts : Get(a)' = Get(a) /\ Due(a)' = Due(a) /\ Due(a) = Get(a)
  BY <1>1, AccountsKept DEF Due
<1>5. PipeInv'
  BY DEF PipeInv, SiblingsOf
<1>6. WaitInv'
  <2> SUFFICES ASSUME NEW t \in Waiting'
               PROVE  (/\ Tx[t].nonce <= Due(Tx[t].from).nonce
                       /\ Tx[t].from \notin siblings \cup Drained
                            => Due(Tx[t].from).balance >= Cost(t)
                       /\ OnceOnly(t) => applied[t] = 0)'
    BY DEF WaitInv
  <2>1. t \in block /\ t \in Txs
    BY DEF Waiting, IInv, TypeOK
  <2>2. /\ Get(Tx[t].from).nonce = Tx[t].nonce
        /\ Get(Tx[t].from).balance >= Cost(t)
    BY <2>1 DEF IInv, PipeInv
  <2>3. OnceOnly(t) => applied[t] = 0
    <3>1. Tx[t].from \in Accounts /\ Tx[t].nonce \in Nat
      BY <2>1, TxType
    <3>2. OnceOnly(t) => ~ (applied[t] >= 1)
      BY <1>4, <2>1, <2>2, <3>1 DEF IInv, NonceInv
    <3>3. applied[t] \in Nat
      BY <2>1 DEF IInv, TypeOK
    <3> QED
      BY <3>2, <3>3
  <2> QED
    BY <1>4, <2>1, <2>2, <2>3, TxType DEF OnceOnly, Cost
<1> QED
  BY <1>2, <1>3, <1>5, <1>6 DEF IInv

-----------------------------------------------------------------------------
(* Application.                                                            *)

\* What the two stores of a transaction do to what accounts hold and will hold.
LEMMA ApplyFirstAccounts ==
  ASSUME IInv, NEW t \in Txs, ApplyFirst(t)
  PROVE  /\ Debited(t) \in Account /\ StoredSecond(t) \in Account
         /\ \A a \in Accounts :
              /\ Due(a) = Get(a)
              /\ Get(a)' = IF a = Tx[t].from THEN Debited(t) ELSE Get(a)
              /\ Due(a)' = IF a = Tx[t].to THEN StoredSecond(t) ELSE Get(a)'
<1> USE LedgerAssumption DEF ApplyFirst
<1> DEFINE D == Debited(t)
           S == StoredSecond(t)
<1>1. TypeOK
  BY DEF IInv
<1>2. Get(Tx[t].from) \in Account /\ Get(Tx[t].to) \in Account
  BY <1>1, GetType, TxType
<1>3. D \in Account
  BY <1>2, TxType DEF Debited, Account
<1>4. S \in Account
  BY <1>2, <1>3, TxType DEF StoredSecond, Credited, Account
<1>5. accounts' = [accounts EXCEPT ![Tx[t].from] = D] /\ credited' = [tx |-> t, account |-> S]
  OBVIOUS
<1>6. D # NoAccount /\ credited' # NoAccount
  BY <1>3, <1>4, <1>5 DEF Pending
<1> HIDE DEF D, S
<1>7. ASSUME NEW a \in Accounts
      PROVE  /\ Due(a) = Get(a)
             /\ Get(a)' = IF a = Tx[t].from THEN D ELSE Get(a)
             /\ Due(a)' = IF a = Tx[t].to THEN S ELSE Get(a)'
  <2>1. Due(a) = Get(a)
    BY DEF Due
  <2>2. Get(a)' = IF a = Tx[t].from THEN D ELSE Get(a)
    BY <1>1, <1>5, <1>6, TxType DEF Get, Exists, TypeOK
  <2>3. Due(a)' = IF a = Tx[t].to THEN S ELSE Get(a)'
    BY <1>5, <1>6 DEF Due
  <2> QED
    BY <2>1, <2>2, <2>3
<1> QED
  BY <1>3, <1>4, <1>7 DEF D, S

LEMMA ApplyFirstStep ==
  ASSUME IInv, NEW t \in Txs, ApplyFirst(t) PROVE IInv'
<1> USE LedgerAssumption
<1> DEFINE from == Tx[t].from
           to == Tx[t].to
<1>1. /\ t \in todo /\ pc = "applying" /\ credited = NoAccount
      /\ credited' = [tx |-> t, account |-> StoredSecond(t)] /\ credited' # NoAccount
      /\ applied' = [applied EXCEPT ![t] = @ + 1]
      /\ UNCHANGED <<height, pc, block, todo, owed, shared, submissions, crashes, siblings>>
  <2>1. credited' = [tx |-> t, account |-> StoredSecond(t)]
    BY DEF ApplyFirst
  <2>2. credited' # NoAccount
    BY <2>1, ApplyFirstAccounts DEF Pending
  <2> QED
    BY <2>1, <2>2 DEF ApplyFirst, IsNext, history
<1>2. /\ Tx[t].nonce <= Get(from).nonce
      /\ from \notin siblings \cup Drained => Get(from).balance >= Cost(t)
      /\ OnceOnly(t) => applied[t] = 0
  BY <1>1, ApplyFirstAccounts, TxType DEF IInv, WaitInv, Waiting
<1>3. Get(from) \in Account /\ Get(to) \in Account
  BY GetType, TxType DEF IInv
<1>5. Drained \subseteq Drained' /\ (to \notin Drained' => Tx[t].amount >= 0)
  <2>1. applied \in [Txs -> Nat] /\ applied' = [applied EXCEPT ![t] = @ + 1]
    BY <1>1 DEF IInv, TypeOK
  <2>2. applied'[t] > 0 /\ \A u \in Txs : applied[u] > 0 => applied'[u] > 0
    BY <2>1
  <2>3. Tx[t].amount < 0 => to \in Drained'
    BY <2>2, TxType DEF Drained
  <2> QED
    BY <2>2, <2>3, TxType DEF Drained
<1>4. /\ Debited(t).nonce = Get(from).nonce + 1
      /\ from \notin Drained' => Debited(t).balance >= Get(from).balance - Cost(t)
  BY <1>3, <1>5, TxType DEF Debited, SelfTransfer, Account
<1>6. \/ shared /\ from = to /\ StoredSecond(t) = Debited(t)
      \/ /\ ~(shared /\ from = to)
         /\ StoredSecond(t).nonce = Get(to).nonce
         /\ to \notin Drained' => StoredSecond(t).balance >= Get(to).balance
  BY <1>3, <1>5, TxType DEF StoredSecond, Credited, SelfTransfer, Account
<1>7. \A a \in Accounts : /\ Get(a) \in Account /\ Get(a)' \in Account /\ Due(a)' \in Account
                           /\ Get(a).nonce <= Due(a)'.nonce
                           /\ Due(a)'.nonce <= Get(a)'.nonce
  <2> SUFFICES ASSUME NEW a \in Accounts
               PROVE  /\ Get(a) \in Account /\ Get(a)' \in Account /\ Due(a)' \in Account
                      /\ Get(a).nonce <= Due(a)'.nonce
                      /\ Due(a)'.nonce <= Get(a)'.nonce
    OBVIOUS
  <2>1. Get(a) \in Account
    BY GetType DEF IInv
  <2> QED
    BY <1>3, <1>4, <1>6, <2>1, ApplyFirstAccounts, TxType DEF Account
<1>8. TypeOK'
  <2>1. pool' \in Seq(Txs)
    BY RemoveType DEF ApplyFirst, IInv, TypeOK
  <2>2. accounts' \in [Accounts -> Account \cup {NoAccount}]
    BY ApplyFirstAccounts DEF ApplyFirst, IInv, TypeOK
  <2>3. credited' \in Pending
    BY <1>1, ApplyFirstAccounts DEF Pending
  <2>4. applied' \in [Txs -> Nat] /\ burned' \in Int /\ lost' \in Int
    <3>1. applied' \in [Txs -> Nat]
      BY <1>1 DEF IInv, TypeOK
    <3>2. burned' = burned + Tx[t].fee /\ lost' = lost
      BY DEF ApplyFirst
    <3>3. burned \in Int /\ lost \in Int /\ Tx[t].fee \in Int
      BY TxType DEF IInv, TypeOK
    <3> QED
      BY <3>1, <3>2, <3>3
  <2> QED
    BY <1>1, <2>1, <2>2, <2>3, <2>4 DEF IInv, TypeOK
<1>9. NonceInv'
  <2>1. ASSUME NEW u \in Txs, OnceOnly(u), applied'[u] >= 1
        PROVE  Tx[u].nonce < Due(Tx[u].from)'.nonce
    <3>1. Tx[u].from \in Accounts /\ Tx[u].nonce \in Nat
      BY TxType
    <3>2. CASE u = t
      <4>1. from = to => shared
        BY <2>1, <3>2 DEF OnceOnly, SelfTransfer
      <4>2. Due(from)' = Debited(t)
        BY <1>6, <3>1, <3>2, <4>1, ApplyFirstAccounts
      <4> QED
        BY <1>2, <1>3, <1>4, <3>1, <3>2, <4>2 DEF Account
    <3>3. CASE u # t
      <4>1. applied[u] >= 1
        BY <1>1, <2>1, <3>3 DEF IInv, TypeOK
      <4>2. Tx[u].nonce < Get(Tx[u].from).nonce
        BY <2>1, <3>1, <4>1, ApplyFirstAccounts DEF IInv, NonceInv
      <4> QED
        BY <1>7, <3>1, <4>2 DEF Account
    <3> QED
      BY <3>2, <3>3
  <2> QED
    BY <1>1, <1>7, <2>1 DEF NonceInv, OnceOnly
<1>10. BalanceInv'
  <2> SUFFICES ASSUME NEW a \in Accounts, a \notin siblings, a \notin Drained'
               PROVE  Get(a)'.balance >= 0 /\ Due(a)'.balance >= 0
    BY <1>1 DEF BalanceInv
  <2>1. Get(a).balance >= 0 /\ Get(a) \in Account /\ a \notin Drained
    BY <1>5, <1>7 DEF IInv, BalanceInv
  <2>2. a = from => Debited(t).balance >= 0
    BY <1>2, <1>3, <1>4, <2>1, ApplyFirstAccounts, TxType DEF Account
  <2> QED
    BY <1>3, <1>6, <2>1, <2>2, ApplyFirstAccounts DEF Account
<1>11. PipeInv'
  BY <1>1 DEF IInv, PipeInv, SiblingsOf
<1>12. WaitInv'
  <2> SUFFICES ASSUME NEW u \in todo, u # t
               PROVE  /\ Tx[u].nonce <= Due(Tx[u].from)'.nonce
                      /\ Tx[u].from \notin siblings /\ Tx[u].from \notin Drained'
                           => Due(Tx[u].from)'.balance >= Cost(u)
                      /\ OnceOnly(u) => applied'[u] = 0
    BY <1>1 DEF WaitInv, Waiting, OnceOnly, Cost
  <2>1. u \in Txs /\ u \in block /\ t \in block
    BY <1>1 DEF IInv, TypeOK
  <2>2. /\ Tx[u].nonce <= Get(Tx[u].from).nonce
        /\ Tx[u].from \notin siblings \cup Drained => Get(Tx[u].from).balance >= Cost(u)
        /\ OnceOnly(u) => applied[u] = 0
    BY <1>1, <2>1, ApplyFirstAccounts, TxType DEF IInv, WaitInv, Waiting
  <2>3. Tx[u].nonce <= Due(Tx[u].from)'.nonce
    BY <1>7, <2>1, <2>2, TxType DEF Account
  <2>4. Tx[u].from = from => from \in siblings
    BY <1>1, <2>1 DEF IInv, PipeInv, SiblingsOf
  <2>5. Tx[u].from \notin siblings /\ Tx[u].from \notin Drained'
          => Due(Tx[u].from)'.balance >= Cost(u)
    <3>1. Tx[u].from \in Accounts /\ Cost(u) \in Int /\ Get(Tx[u].from) \in Account
      BY <1>7, <2>1, TxType
    <3> QED
      BY <1>3, <1>5, <1>6, <2>2, <2>4, <3>1, ApplyFirstAccounts DEF Account
  <2>6. applied'[u] = applied[u]
    BY <1>1, <2>1 DEF IInv, TypeOK
  <2> QED
    BY <2>2, <2>3, <2>5, <2>6
<1>13. AppliedOnce'
  BY <1>1, <1>2 DEF IInv, AppliedOnce, OnceOnly, TypeOK
<1> QED
  BY <1>8, <1>9, <1>10, <1>11, <1>12, <1>13 DEF IInv

LEMMA ApplySecondStep == ASSUME IInv, ApplySecond PROVE IInv'
<1> USE LedgerAssumption
<1> DEFINE t == credited.tx
           to == Tx[t].to
<1>1. /\ credited # NoAccount /\ credited' = NoAccount /\ pc = "applying"
      /\ t \in todo /\ t \in Txs /\ credited.account \in Account
      /\ accounts' = [accounts EXCEPT ![to] = credited.account]
      /\ todo' = todo \ {t}
      /\ UNCHANGED <<pool, height, pc, block, owed, shared, submissions, crashes, history>>
  BY DEF ApplySecond, IInv, TypeOK, PipeInv, Pending
<1> HIDE DEF t
<1>2. ASSUME NEW a \in Accounts
      PROVE  Get(a)' = Due(a) /\ Due(a)' = Due(a) /\ Due(a) \in Account
  <2>1. Due(a) \in Account
    BY DueType DEF IInv
  <2>2. Due(a) = IF a = to THEN credited.account ELSE Get(a)
    BY <1>1 DEF Due, t
  <2>3. Get(a)' = Due(a)
    BY <1>1, <2>2, TxType DEF Get, Exists, IInv, TypeOK
  <2>4. Due(a)' = Get(a)'
    BY <1>1 DEF Due
  <2> QED
    BY <2>1, <2>3, <2>4
<1>3. TypeOK'
  BY <1>1, TxType DEF history, IInv, TypeOK
<1>4. NonceInv'
  BY <1>1, <1>2, TxType DEF history, IInv, NonceInv, OnceOnly, Account
<1>5. BalanceInv'
  BY <1>1, <1>2 DEF history, IInv, BalanceInv, Drained
<1>6. PipeInv'
  BY <1>1 DEF history, IInv, PipeInv, SiblingsOf
<1>7. WaitInv'
  <2>1. Waiting' = Waiting
    BY <1>1 DEF Waiting, t
  <2>2. Waiting \subseteq Txs
    BY DEF Waiting, IInv, TypeOK
  <2> QED
    BY <1>1, <1>2, <2>1, <2>2, TxType DEF history, IInv, WaitInv, OnceOnly, Drained, Cost
<1>8. AppliedOnce'
  BY <1>1 DEF history, IInv, AppliedOnce
<1> QED
  BY <1>3, <1>4, <1>5, <1>6, <1>7, <1>8 DEF IInv

\* What one payment does to the accounts.
LEMMA PaidAccounts ==
  ASSUME TypeOK, NEW a \in Accounts, NEW n \in Nat, Paid(a, n)
  PROVE  /\ accounts' \in [Accounts -> Account \cup {NoAccount}]
         /\ Get(a)' = [Get(a) EXCEPT !.balance = @ + n]
         /\ \A b \in Accounts \ {a} : Get(b)' = Get(b)
<1>1. PICK new \in Account : new = [Get(a) EXCEPT !.balance = @ + n]
  <2>1. Get(a) \in Account
    BY GetType
  <2>2. [Get(a) EXCEPT !.balance = @ + n] \in Account
    BY <2>1 DEF Account
  <2> QED
    BY <2>2
<1>2. accounts' = [accounts EXCEPT ![a] = new] /\ new # NoAccount
  BY <1>1, LedgerAssumption DEF Paid
<1>3. accounts' \in [Accounts -> Account \cup {NoAccount}]
  BY <1>2 DEF TypeOK
<1>4. accounts'[a] = new /\ \A b \in Accounts \ {a} : accounts'[b] = accounts[b]
  BY <1>2 DEF TypeOK
<1> QED
  BY <1>1, <1>2, <1>3, <1>4 DEF Get, Exists

\* Rewards only add to balances.
LEMMA PaidStep ==
  ASSUME IInv, NEW a \in Accounts, NEW n \in Nat, Paid(a, n),
         credited = NoAccount, todo = {}, pc' = "rewarding", owed' \in [Validators -> Nat],
         UNCHANGED <<pool, height, block, todo, credited, shared, submissions,
                     crashes, applied, siblings, burned, lost>>
  PROVE  IInv'
<1> USE LedgerAssumption
<1>1. ASSUME NEW b \in Accounts
      PROVE  /\ Get(b) \in Account /\ Due(b) = Get(b) /\ Due(b)' = Get(b)'
             /\ Get(b)'.nonce = Get(b).nonce /\ Get(b)'.balance >= Get(b).balance
  <2>1. Get(b) \in Account
    BY GetType DEF IInv
  <2>2. Get(b)' = IF b = a THEN [Get(b) EXCEPT !.balance = @ + n] ELSE Get(b)
    BY PaidAccounts DEF IInv
  <2>3. Due(b) = Get(b) /\ Due(b)' = Get(b)'
    BY DEF Due
  <2> QED
    BY <2>1, <2>2, <2>3 DEF Account
<1>2. TypeOK'
  BY PaidAccounts DEF IInv, TypeOK
<1>3. NonceInv'
  <2>1. ASSUME NEW u \in Txs, OnceOnly(u), applied[u] >= 1
        PROVE  Tx[u].nonce < Due(Tx[u].from)'.nonce
    BY <1>1, <2>1, TxType DEF IInv, NonceInv
  <2>2. ASSUME NEW b \in Accounts PROVE Due(b)'.nonce <= Get(b)'.nonce
    BY <1>1 DEF Account
  <2> QED
    BY <2>1, <2>2 DEF NonceInv, OnceOnly
<1>4. BalanceInv'
  <2>1. ASSUME NEW b \in Accounts \ (siblings \cup Drained)
        PROVE  Get(b)'.balance >= 0 /\ Due(b)'.balance >= 0
    <3>1. Get(b)' \in Account
      BY <1>2 DEF TypeOK, Get, Exists, Account
    <3> QED
      BY <1>1, <2>1, <3>1 DEF IInv, BalanceInv, Account
  <2> QED
    BY <2>1 DEF BalanceInv, Drained
<1>5. (PipeInv /\ WaitInv)'
  BY DEF PipeInv, WaitInv, Waiting
<1>6. AppliedOnce'
  BY DEF IInv, AppliedOnce
<1> QED
  BY <1>2, <1>3, <1>4, <1>5, <1>6 DEF IInv

LEMMA RewardProposerStep == ASSUME IInv, RewardProposer PROVE IInv'
<1> USE LedgerAssumption
<1>1. PICK V \in Rewarded :
        /\ todo = {} /\ credited = NoAccount /\ Paid(Self, ProposerReward)
        /\ owed' = [v \in Validators |->
                      IF v \in V THEN DistributePoBRewardFairly(PoBReward, V)[v] ELSE 0]
        /\ pc' = "rewarding"
        /\ UNCHANGED <<pool, height, block, todo, credited, shared, submissions,
                       crashes, applied, siblings, burned, lost>>
  BY DEF RewardProposer
<1>2. ProposerReward \in Nat /\ owed' \in [Validators -> Nat]
  BY <1>1, RewardsType DEF IInv
<1> QED
  BY <1>1, <1>2, PaidStep

\* Steps that pay nobody and lead to no application.
LEMMA UnpaidStep ==
  ASSUME IInv, credited = NoAccount, todo = {}, pc' \in {"idle", "rewarding"},
         block' \subseteq Txs, owed' \in [Validators -> Nat],
         UNCHANGED <<pool, accounts, height, todo, credited, shared, submissions,
                     crashes, applied, siblings, burned, lost>>
  PROVE  IInv'
<1>1. TypeOK'
  BY DEF IInv, TypeOK
<1>2. (NonceInv /\ BalanceInv /\ AppliedOnce)'
  BY AccountsInvKept
<1>3. (PipeInv /\ WaitInv)'
  BY DEF PipeInv, WaitInv, Waiting
<1> QED
  BY <1>1, <1>2, <1>3 DEF IInv

LEMMA RewardContributorStep ==
  ASSUME IInv, NEW v \in Validators, RewardContributor(v) PROVE IInv'
<1> USE LedgerAssumption DEF RewardContributor
<1>1. /\ credited = NoAccount /\ todo = {} /\ pc' = "rewarding" /\ block \subseteq Txs
      /\ v \in Accounts /\ owed[v] \in Nat /\ owed' \in [Validators -> Nat]
  BY DEF IInv, PipeInv, TypeOK
<1>2. CASE Paid(v, owed[v])
  BY <1>1, <1>2, PaidStep
<1>3. CASE UNCHANGED <<accounts, minted>>
  BY <1>1, <1>3, UnpaidStep
<1> QED
  BY <1>2, <1>3

LEMMA FinishBlockStep == ASSUME IInv, FinishBlock PROVE IInv'
<1> USE DEF FinishBlock, history
<1>1. credited = NoAccount /\ todo = {} /\ owed' \in [Validators -> Nat]
  BY DEF IInv, PipeInv, TypeOK
<1> QED
  BY <1>1, UnpaidStep

-----------------------------------------------------------------------------
(* A restart drops the credit under way, and with it no nonce but the      *)
(* validator's own.                                                        *)

LEMMA RestartStep == ASSUME IInv, Restart PROVE IInv'
<1> USE LedgerAssumption
<1>1. /\ pool' = <<>> /\ pc' = "idle" /\ block' = {} /\ todo' = {} /\ credited' = NoAccount
      /\ accounts' = [accounts EXCEPT ![Self] = NewAccount]
      /\ crashes < MaxCrashes /\ crashes' = crashes + 1
      /\ lost' = lost + InFlight + Get(Self).balance
      /\ owed' = NothingOwed
      /\ UNCHANGED <<height, shared, submissions, applied, siblings, minted, burned>>
  BY DEF Restart
<1>2. NewAccount \in Account /\ NewAccount # NoAccount
  BY DEF NewAccount, Account
<1>3. ASSUME NEW a \in Accounts
      PROVE  /\ Due(a)' = Get(a)' /\ Get(a) \in Account /\ Due(a) \in Account
             /\ Get(a)' = IF a = Self THEN NewAccount ELSE Get(a)
  BY <1>1, <1>2, GetType, DueType DEF IInv, TypeOK, Get, Exists, Due
<1>4. TypeOK'
  <2>1. InFlight \in Int /\ Get(Self).balance \in Int
    <3>1. Get(Self).balance \in Int
      BY <1>3 DEF Account
    <3>2. credited # NoAccount => credited.tx \in Txs
      BY DEF IInv, TypeOK, Pending
    <3> QED
      BY <3>1, <3>2, TxType DEF InFlight
  <2>2. lost' \in Int /\ crashes' \in 0 .. MaxCrashes
    <3>1. lost \in Int /\ crashes \in 0 .. MaxCrashes
      BY DEF IInv, TypeOK
    <3>2. lost' \in Int
      BY <1>1, <2>1, <3>1
    <3>3. crashes' \in 0 .. MaxCrashes
      BY <1>1, <3>1
    <3> QED
      BY <3>2, <3>3
  <2>3. accounts' \in [Accounts -> Account \cup {NoAccount}] /\ pool' \in Seq(Txs)
    BY <1>1, <1>2 DEF IInv, TypeOK
  <2> QED
    BY <1>1, <2>2, <2>3 DEF IInv, TypeOK, NothingOwed
<1>5. NonceInv'
  <2>1. ASSUME NEW u \in Txs, OnceOnly(u), applied[u] >= 1
        PROVE  Tx[u].nonce < Due(Tx[u].from)'.nonce
    <3>1. Tx[u].from \in Accounts /\ Tx[u].from # Self /\ Tx[u].nonce \in Nat
      BY <2>1, TxType DEF OnceOnly
    <3>2. /\ Tx[u].nonce < Due(Tx[u].from).nonce
          /\ Due(Tx[u].from).nonce <= Get(Tx[u].from).nonce
      BY <2>1, <3>1 DEF IInv, NonceInv
    <3> QED
      BY <1>3, <3>1, <3>2 DEF Account
  <2>2. ASSUME NEW a \in Accounts PROVE Due(a)'.nonce <= Get(a)'.nonce
    <3>1. Get(a)' \in Account
      BY <1>2, <1>3
    <3> QED
      BY <1>3, <3>1 DEF Account
  <2> QED
    BY <1>1, <2>1, <2>2 DEF NonceInv, OnceOnly
<1>6. BalanceInv'
  BY <1>1, <1>3 DEF IInv, BalanceInv, Drained, NewAccount
<1>7. (PipeInv /\ WaitInv)'
  BY <1>1 DEF PipeInv, WaitInv, Waiting
<1>8. AppliedOnce'
  BY <1>1 DEF IInv, AppliedOnce
<1> QED
  BY <1>4, <1>5, <1>6, <1>7, <1>8 DEF IInv

-----------------------------------------------------------------------------
(* Value.                                                                  *)

\* The condition of ValueConserved.
CopiesKept == shared \/ \A t \in Txs : SelfTransfer(t) => applied[t] = 0

\* The credit under way adds to its account what is in flight, unless that account was
\* debited as another copy.
CreditInv ==
    credited # NoAccount =>
      /\ applied[credited.tx] >= 1
      /\ shared \/ ~SelfTransfer(credited.tx) =>
           credited.account.balance = Get(Tx[credited.tx].to).balance + InFlight

ValueInv == minted \in Int /\ CreditInv /\ ValueConserved

Balances == [a \in Accounts |-> Get(a).balance]

Total == SumFunctionOnSet(Balances, Accounts)

\* What the accounts hold and have lost, less what was minted: no step may change it, the
\* credit under way apart.
Held == Total + burned + lost - minted

LEMMA TotalType ==
  ASSUME TypeOK
  PROVE  /\ Total \in Int /\ InFlight \in Int /\ burned \in Int /\ lost \in Int
         /\ SumFunction(Genesis) \in Int
         /\ \A a \in Accounts : Balances[a] = Get(a).balance /\ Balances[a] \in Int
         /\ SumFunction(Balances) = Total
<1> USE LedgerAssumption
<1>1. ASSUME NEW a \in Accounts PROVE Balances[a] = Get(a).balance /\ Balances[a] \in Int
  BY GetType DEF Balances, Account
<1>2. Total \in Int
  BY <1>1, SumRemove DEF Total
<1>3. InFlight \in Int
  <2>1. credited # NoAccount => credited.tx \in Txs
    BY DEF TypeOK, Pending
  <2> QED
    BY <2>1, TxType DEF InFlight
<1>4. SumFunction(Genesis) \in Int
  <2>1. IsFiniteSet(DOMAIN Genesis) /\ \A a \in DOMAIN Genesis : Genesis[a] \in Int
    BY FS_Subset
  <2> QED
    BY <2>1, SumRemove DEF SumFunction
<1>5. SumFunction(Balances) = Total
  BY DEF SumFunction, Total, Balances
<1> QED
  BY <1>1, <1>2, <1>3, <1>4, <1>5 DEF TypeOK

LEMMA ValueEquation ==
  ASSUME TypeOK
  PROVE  ValueConserved <=>
           (CopiesKept => Total + InFlight + burned + lost = SumFunction(Genesis) + minted)
<1>1. SumFunction([a \in Accounts |-> Get(a).balance]) = Total
  BY TotalType DEF Balances
<1> QED
  BY <1>1 DEF ValueConserved, CopiesKept

\* The total after one account is replaced.
LEMMA TotalChange ==
  ASSUME TypeOK, TypeOK', NEW a \in Accounts, \A b \in Accounts \ {a} : Get(b)' = Get(b)
  PROVE  Total' = Total + Get(a)'.balance - Get(a).balance
<1>1. \A b \in Accounts : Balances[b] = Get(b).balance /\ Balances[b] \in Int
  BY TotalType
<1>2. \A b \in Accounts : Balances'[b] = Get(b)'.balance /\ Balances'[b] \in Int
  <2>1. ASSUME NEW b \in Accounts PROVE Get(b)' \in Account
    <3>1. accounts'[b] \in Account \cup {NoAccount}
      BY DEF TypeOK
    <3> QED
      BY <3>1 DEF Get, Exists, Account
  <2> QED
    BY <2>1 DEF Balances, Account
<1>3. \A b \in Accounts \ {a} : Balances'[b] = Balances[b]
  BY <1>1, <1>2
<1>4. IsFiniteSet(Accounts)
  BY LedgerAssumption
<1>5. SumFunctionOnSet(Balances', Accounts)
        = SumFunctionOnSet(Balances, Accounts) + Balances'[a] - Balances[a]
  <2> DEFINE f == Balances
             g == Balances'
  <2>1. /\ \A b \in Accounts : f[b] \in Int /\ g[b] \in Int
        /\ \A b \in Accounts \ {a} : g[b] = f[b]
    BY <1>1, <1>2, <1>3
  <2> HIDE DEF f, g
  <2>2. SumFunctionOnSet(g, Accounts) = SumFunctionOnSet(f, Accounts) + g[a] - f[a]
    BY <1>4, <2>1, SumChange
  <2> QED
    BY <2>2 DEF f, g
<1> QED
  BY <1>1, <1>2, <1>5 DEF Total

\* A step that leaves accounts and history alone.
LEMMA ValueKept ==
  ASSUME ValueInv,
         UNCHANGED <<accounts, credited, shared, applied, minted, burned, lost>>
  PROVE  ValueInv'
<1>1. \A a \in Accounts : Get(a)' = Get(a)
  BY DEF Get, Exists
<1>2. InFlight' = InFlight
  BY DEF InFlight
<1>3. Balances' = Balances
  BY DEF Balances, Get, Exists
<1>4. CreditInv'
  BY <1>2 DEF ValueInv, CreditInv, Get, Exists
<1>5. ValueConserved'
  BY <1>2, <1>3 DEF ValueInv, ValueConserved, Balances
<1> QED
  BY <1>4, <1>5 DEF ValueInv

LEMMA ApplyFirstValue ==
  ASSUME IInv, IInv', ValueInv, NEW t \in Txs, ApplyFirst(t) PROVE ValueInv'
<1> USE LedgerAssumption
<1> DEFINE from == Tx[t].from
           to == Tx[t].to
<1>1. /\ credited = NoAccount
      /\ credited' = [tx |-> t, account |-> StoredSecond(t)] /\ credited' # NoAccount
      /\ applied' = [applied EXCEPT ![t] = @ + 1]
      /\ burned' = burned + Tx[t].fee
      /\ UNCHANGED <<shared, minted, lost>>
  <2>1. credited' = [tx |-> t, account |-> StoredSecond(t)]
    BY DEF ApplyFirst
  <2>2. credited' # NoAccount
    BY <2>1, ApplyFirstAccounts DEF Pending
  <2> QED
    BY <2>1, <2>2 DEF ApplyFirst
<1>2. TypeOK /\ TypeOK'
  BY DEF IInv
<1>3. /\ Debited(t) \in Account /\ StoredSecond(t) \in Account
      /\ \A a \in Accounts : Get(a)' = IF a = from THEN Debited(t) ELSE Get(a)
      /\ from \in Accounts /\ to \in Accounts
      /\ Tx[t].amount \in Int /\ Tx[t].fee \in Int
      /\ Get(from) \in Account /\ Get(to) \in Account
  BY <1>2, ApplyFirstAccounts, GetType, TxType
<1>4. Total' = Total + Debited(t).balance - Get(from).balance
  BY <1>2, <1>3, TotalChange
<1>5. InFlight = 0 /\ InFlight' = IF SelfTransfer(t) THEN 0 ELSE Tx[t].amount
  BY <1>1 DEF InFlight, SelfTransfer
<1>6. applied' \in [Txs -> Nat] /\ applied \in [Txs -> Nat] /\ applied'[t] = applied[t] + 1
  BY <1>1, <1>2 DEF TypeOK
<1>7. ASSUME CopiesKept'
      PROVE  CopiesKept /\ (shared \/ ~SelfTransfer(t))
  <2>1. ASSUME NEW u \in Txs, applied'[u] = 0 PROVE applied[u] = 0 /\ u # t
    BY <1>1, <1>6, <2>1
  <2> QED
    BY <1>1, <1>7, <2>1 DEF CopiesKept, SelfTransfer
<1>8. Debited(t).balance = Get(from).balance - Tx[t].amount - Tx[t].fee
        + (IF shared /\ SelfTransfer(t) THEN Tx[t].amount ELSE 0)
  BY <1>3 DEF Debited, Cost, Account
<1>9. CreditInv'
  <2>1. credited'.tx = t /\ credited'.account = StoredSecond(t) /\ applied'[t] >= 1
    BY <1>1, <1>6
  <2>2. shared \/ ~SelfTransfer(t) =>
          StoredSecond(t).balance = Get(to)'.balance + InFlight'
    <3>1. CASE SelfTransfer(t)
      BY <1>3, <1>5, <3>1 DEF StoredSecond, SelfTransfer, Account
    <3>2. CASE ~SelfTransfer(t)
      <4>1. Get(to)' = Get(to)
        BY <1>3, <3>2 DEF SelfTransfer
      <4> QED
        BY <1>3, <1>5, <3>2, <4>1 DEF StoredSecond, Credited, Account
    <3> QED
      BY <3>1, <3>2
  <2> QED
    BY <1>1, <2>1, <2>2 DEF CreditInv, SelfTransfer
<1>10. ValueConserved'
  <2> SUFFICES ASSUME CopiesKept'
      PROVE  (Total + InFlight + burned + lost = SumFunction(Genesis) + minted)'
    <3>1. (ValueConserved <=>
             (CopiesKept => Total + InFlight + burned + lost = SumFunction(Genesis) + minted))'
      BY <1>2, ValueEquation, PTL
    <3> QED
      BY <3>1
  <2>1. Total + InFlight + burned + lost = SumFunction(Genesis) + minted
    BY <1>2, <1>7, ValueEquation DEF ValueInv
  <2>2. /\ Total \in Int /\ burned \in Int /\ lost \in Int /\ minted \in Int
        /\ SumFunction(Genesis) \in Int /\ Get(from).balance \in Int
    BY <1>2, <1>3, TotalType DEF ValueInv, Account
  <2>3. CASE SelfTransfer(t)
    <3>1. shared
      BY <1>7, <2>3
    <3>2. Total' = Total - Tx[t].fee /\ InFlight' = 0
      BY <1>3, <1>4, <1>5, <1>8, <2>2, <2>3, <3>1
    <3> QED
      BY <1>1, <1>3, <1>5, <2>1, <2>2, <3>2
  <2>4. CASE ~SelfTransfer(t)
    <3>1. Total' = Total - Tx[t].amount - Tx[t].fee /\ InFlight' = Tx[t].amount
      BY <1>3, <1>4, <1>5, <1>8, <2>2, <2>4
    <3> QED
      BY <1>1, <1>3, <1>5, <2>1, <2>2, <3>1
  <2> QED
    BY <2>3, <2>4
<1> QED
  BY <1>1, <1>9, <1>10 DEF ValueInv

\* A step that ends the credit under way: the equation before and after it.
LEMMA ValueStep ==
  ASSUME TypeOK, TypeOK', ValueInv, credited' = NoAccount, minted' \in Int,
         UNCHANGED <<shared, applied>>,
         CopiesKept => Held' = Held + InFlight
  PROVE  ValueInv'
<1>1. CreditInv' /\ InFlight' = 0 /\ (CopiesKept' => CopiesKept)
  BY DEF CreditInv, InFlight, CopiesKept
<1>2. ValueConserved <=>
        (CopiesKept => Total + InFlight + burned + lost = SumFunction(Genesis) + minted)
  BY ValueEquation
<1>3. (ValueConserved <=>
         (CopiesKept => Total + InFlight + burned + lost = SumFunction(Genesis) + minted))'
  BY ValueEquation, PTL
<1>4. /\ Total \in Int /\ InFlight \in Int /\ burned \in Int /\ lost \in Int /\ minted \in Int
      /\ SumFunction(Genesis) \in Int
  BY TotalType DEF ValueInv
<1>5. (Total \in Int /\ burned \in Int /\ lost \in Int)'
  <2>1. (TypeOK => Total \in Int /\ burned \in Int /\ lost \in Int)'
    BY TotalType, PTL
  <2> QED
    BY <2>1
<1>6. ASSUME CopiesKept'
      PROVE  Total' + InFlight' + burned' + lost' = SumFunction(Genesis) + minted'
  <2>1. Total + InFlight + burned + lost = SumFunction(Genesis) + minted
    BY <1>1, <1>2, <1>6 DEF ValueInv
  <2>2. Held' = Held + InFlight
    BY <1>1, <1>6
  <2>3. Held = SumFunction(Genesis) - InFlight
    BY <1>4, <2>1 DEF Held
  <2>4. Held' = SumFunction(Genesis)
    BY <1>4, <2>2, <2>3
  <2> QED
    BY <1>1, <1>5, <2>4, <1>4 DEF Held
<1>7. UNCHANGED SumFunction(Genesis)
  OBVIOUS
<1> QED
  BY <1>1, <1>3, <1>6, <1>7 DEF ValueInv

LEMMA ApplySecondValue ==
  ASSUME IInv, IInv', ValueInv, ApplySecond PROVE ValueInv'
<1> USE LedgerAssumption
<1> DEFINE t == credited.tx
           to == Tx[t].to
<1>1. /\ credited # NoAccount /\ credited' = NoAccount
      /\ accounts' = [accounts EXCEPT ![to] = credited.account]
      /\ UNCHANGED <<shared, applied, minted, burned, lost>>
  BY DEF ApplySecond, history
<1>2. TypeOK /\ TypeOK' /\ t \in Txs /\ credited.account \in Account
  BY <1>1 DEF IInv, TypeOK, Pending
<1>3. to \in Accounts /\ Get(to) \in Account
  BY <1>2, TxType, GetType
<1>4. PICK c \in Accounts : c = to
  BY <1>3
<1>5. Total' = Total + credited.account.balance - Get(to).balance
  <2>1. PICK new \in Account : new = credited.account
    BY <1>2
  <2>2. accounts' = [accounts EXCEPT ![c] = new] /\ new # NoAccount
    BY <1>1, <1>4, <2>1
  <2>3. accounts'[c] = new /\ \A a \in Accounts \ {c} : accounts'[a] = accounts[a]
    BY <1>2, <2>2 DEF TypeOK
  <2>4. \A a \in Accounts \ {c} : Get(a)' = Get(a)
    BY <2>3 DEF Get, Exists
  <2>5. Get(c)' = new
    BY <2>2, <2>3 DEF Get, Exists
  <2>6. Total' = Total + new.balance - Get(c).balance
    BY <1>2, <2>4, <2>5, TotalChange
  <2> QED
    BY <1>4, <2>1, <2>6
<1>6. CopiesKept => credited.account.balance = Get(to).balance + InFlight
  <2> SUFFICES ASSUME CopiesKept
               PROVE  credited.account.balance = Get(to).balance + InFlight
    OBVIOUS
  <2>1. applied[t] >= 1 /\ applied[t] \in Nat
    BY <1>1, <1>2 DEF ValueInv, CreditInv, TypeOK
  <2>2. shared \/ ~SelfTransfer(t)
    BY <1>2, <2>1 DEF CopiesKept
  <2> QED
    BY <1>1, <2>2 DEF ValueInv, CreditInv
<1>7. /\ Total \in Int /\ InFlight \in Int /\ burned \in Int /\ lost \in Int /\ minted \in Int
      /\ Get(to).balance \in Int
  BY <1>2, <1>3, TotalType DEF ValueInv, Account
<1>8. CopiesKept => Held' = Held + InFlight
  BY <1>1, <1>5, <1>6, <1>7 DEF Held
<1> QED
  BY <1>1, <1>2, <1>7, <1>8, ValueStep

LEMMA PaidValue ==
  ASSUME IInv, IInv', ValueInv, NEW a \in Accounts, NEW n \in Nat, Paid(a, n),
         credited = NoAccount, UNCHANGED <<credited, shared, applied, burned, lost>>
  PROVE  ValueInv'
<1>1. TypeOK /\ TypeOK'
  BY DEF IInv
<1>2. /\ Get(a) \in Account /\ Get(a)' = [Get(a) EXCEPT !.balance = @ + n]
      /\ \A b \in Accounts \ {a} : Get(b)' = Get(b)
  BY <1>1, GetType, PaidAccounts
<1>3. Get(a).balance \in Int /\ Get(a)'.balance = Get(a).balance + n
  BY <1>2 DEF Account
<1>4. Total' = Total + Get(a)'.balance - Get(a).balance
  BY <1>1, <1>2, TotalChange
<1>5. /\ Total \in Int /\ InFlight = 0 /\ burned \in Int /\ lost \in Int /\ minted \in Int
      /\ minted' = minted + n
  BY <1>1, TotalType DEF ValueInv, InFlight, Paid
<1>6. minted' \in Int /\ Held' = Held + InFlight
  BY <1>3, <1>4, <1>5 DEF Held
<1> QED
  BY <1>1, <1>6, ValueStep

LEMMA RewardProposerValue ==
  ASSUME IInv, IInv', ValueInv, RewardProposer PROVE ValueInv'
<1>1. /\ Paid(Self, ProposerReward) /\ credited = NoAccount
      /\ UNCHANGED <<credited, shared, applied, burned, lost>>
  BY DEF RewardProposer
<1>2. Self \in Accounts /\ ProposerReward \in Nat
  BY RewardsType, LedgerAssumption DEF IInv, RewardProposer
<1> QED
  BY <1>1, <1>2, PaidValue

LEMMA RewardContributorValue ==
  ASSUME IInv, IInv', ValueInv, NEW v \in Validators, RewardContributor(v) PROVE ValueInv'
<1>1. /\ Paid(v, owed[v]) \/ UNCHANGED <<accounts, minted>>
      /\ UNCHANGED <<credited, shared, applied, burned, lost>>
  BY DEF RewardContributor
<1>2. v \in Accounts /\ owed[v] \in Nat /\ credited = NoAccount
  BY LedgerAssumption DEF RewardContributor, IInv, TypeOK, PipeInv
<1> QED
  BY <1>1, <1>2, PaidValue, ValueKept

LEMMA RestartValue == ASSUME IInv, IInv', ValueInv, Restart PROVE ValueInv'
<1> USE LedgerAssumption
<1>1. /\ credited' = NoAccount /\ accounts' = [accounts EXCEPT ![Self] = NewAccount]
      /\ lost' = lost + InFlight + Get(Self).balance
      /\ UNCHANGED <<shared, applied, minted, burned>>
  BY DEF Restart
<1>2. TypeOK /\ TypeOK'
  BY DEF IInv
<1>3. NewAccount # NoAccount /\ NewAccount.balance = 0
  BY DEF NewAccount, Account
<1>4. Get(Self)' = NewAccount /\ \A a \in Accounts \ {Self} : Get(a)' = Get(a)
  BY <1>1, <1>2, <1>3 DEF Get, Exists, TypeOK
<1>5. Total' = Total + NewAccount.balance - Get(Self).balance
  BY <1>2, <1>4, TotalChange
<1>6. /\ Total \in Int /\ InFlight \in Int /\ burned \in Int /\ lost \in Int /\ minted \in Int
      /\ Get(Self).balance \in Int
  BY <1>2, TotalType, GetType DEF ValueInv, Account
<1>7. Held' = Held + InFlight
  BY <1>1, <1>3, <1>5, <1>6 DEF Held
<1> QED
  BY <1>1, <1>2, <1>6, <1>7, ValueStep

LEMMA InitValue == ASSUME Init, TypeOK PROVE ValueInv
<1> USE LedgerAssumption
<1>1. Total = SumFunction(Genesis)
  <2> DEFINE f == Balances
             D == DOMAIN Genesis
  <2>1. \A a \in D : f[a] \in Int /\ Genesis[a] = f[a]
    BY DEF Init, NewAccount, Balances, Get, Exists, Account
  <2>2. \A a \in Accounts \ D : f[a] = 0
    BY DEF Init, NewAccount, Balances, Get, Exists
  <2>3. D \subseteq Accounts
    OBVIOUS
  <2> HIDE DEF f, D
  <2>4. SumFunctionOnSet(f, Accounts) = SumFunctionOnSet(Genesis, D)
    BY <2>1, <2>2, <2>3, SumOfPart
  <2> QED
    BY <2>4 DEF f, D, Total, SumFunction
<1>2. InFlight = 0 /\ burned = 0 /\ lost = 0 /\ minted = 0 /\ CreditInv
  BY DEF Init, InFlight, CreditInv
<1>3. ValueConserved
  BY <1>1, <1>2, TotalType, ValueEquation
<1> QED
  BY <1>2, <1>3 DEF ValueInv

LEMMA NextValue == IInv /\ IInv' /\ ValueInv /\ [Next]_vars => ValueInv'
<1> SUFFICES ASSUME IInv, IInv', ValueInv, [Next]_vars PROVE ValueInv'
  OBVIOUS
<1>1. ASSUME NEW t \in Txs, AddTransaction(t) PROVE ValueInv'
  BY <1>1, ValueKept DEF AddTransaction, history
<1>2. CASE ProposeBlock
  BY <1>2, ValueKept DEF ProposeBlock, history
<1>3. CASE VoteInVain
  BY <1>3, ValueKept DEF VoteInVain, history
<1>4. CASE VoteAndFinalize
  BY <1>4, ValueKept DEF VoteAndFinalize
<1>5. ASSUME NEW t \in Txs, ApplyFirst(t) PROVE ValueInv'
  BY <1>5, ApplyFirstValue
<1>6. CASE ApplySecond
  BY <1>6, ApplySecondValue
<1>7. CASE RewardProposer
  BY <1>7, RewardProposerValue
<1>8. ASSUME NEW v \in Validators, RewardContributor(v) PROVE ValueInv'
  BY <1>8, RewardContributorValue
<1>9. CASE FinishBlock
  BY <1>9, ValueKept DEF FinishBlock, history
<1>10. CASE Restart
  BY <1>10, RestartValue
<1>11. CASE UNCHANGED vars
  BY <1>11, ValueKept DEF vars, history
<1> QED
  BY <1>1, <1>2, <1>3, <1>4, <1>5, <1>6, <1>7, <1>8, <1>9, <1>10, <1>11
  DEF Next, HandleProposal

-----------------------------------------------------------------------------
(* The theorems.                                                           *)

LEMMA StutterStep == ASSUME IInv, UNCHANGED vars PROVE IInv'
<1>1. \A a \in Accounts : Get(a)' = Get(a) /\ Due(a)' = Due(a)
  BY AccountsKept DEF vars
<1>2. (NonceInv /\ BalanceInv /\ AppliedOnce)'
  BY AccountsInvKept DEF vars, history
<1>3. TypeOK'
  BY DEF IInv, TypeOK, vars, history
<1>4. PipeInv'
  BY <1>1, TxType DEF IInv, PipeInv, TypeOK, SiblingsOf, vars, history
<1>5. WaitInv'
  BY <1>1, TxType DEF IInv, WaitInv, Waiting, OnceOnly, Drained, TypeOK, vars, history
<1> QED
  BY <1>2, <1>3, <1>4, <1>5 DEF IInv

LEMMA NextIInv == IInv /\ [Next]_vars => IInv'
<1> SUFFICES ASSUME IInv, [Next]_vars PROVE IInv'
  OBVIOUS
<1>1. ASSUME NEW t \in Txs, AddTransaction(t) PROVE IInv'
  BY <1>1, AddTransactionStep
<1>2. CASE ProposeBlock
  BY <1>2, ProposeBlockStep
<1>3. CASE VoteInVain
  BY <1>3, VoteInVainStep
<1>4. CASE VoteAndFinalize
  BY <1>4, VoteAndFinalizeStep
<1>5. ASSUME NEW t \in Txs, ApplyFirst(t) PROVE IInv'
  BY <1>5, ApplyFirstStep
<1>6. CASE ApplySecond
  BY <1>6, ApplySecondStep
<1>7. CASE RewardProposer
  BY <1>7, RewardProposerStep
<1>8. ASSUME NEW v \in Validators, RewardContributor(v) PROVE IInv'
  BY <1>8, RewardContributorStep
<1>9. CASE FinishBlock
  BY <1>9, FinishBlockStep
<1>10. CASE Restart
  BY <1>10, RestartStep
<1>11. CASE UNCHANGED vars
  BY <1>11, StutterStep
<1> QED
  BY <1>1, <1>2, <1>3, <1>4, <1>5, <1>6, <1>7, <1>8, <1>9, <1>10, <1>11
  DEF Next, HandleProposal

LEMMA IInvAlways == Spec => []IInv
  BY InitIInv, NextIInv, PTL DEF Spec

\* Accounts, block and mempool are well typed, and the goroutine applies only
\* transactions of the block it has finalized.
THEOREM TypeCorrect == Spec => []TypeOK
<1>1. IInv => TypeOK
  BY DEF IInv
<1> QED
  BY <1>1, IInvAlways, PTL

\* The nonce in State keeps every transaction of another account from being applied a
\* second time, whenever it is sent again and wherever the node stops.
THEOREM NothingAppliedTwice == Spec => []AppliedOnce
<1>1. IInv => AppliedOnce
  BY DEF IInv
<1> QED
  BY <1>1, IInvAlways, PTL

\* An account is below zero only if a block held two transactions of its owner, or a
\* transaction of a negative amount to it was applied: one of no other kind finds the
\* balance it was selected for.
THEOREM OverdraftsExplained == Spec => []OverdraftExplained
<1>1. IInv => OverdraftExplained
  <2> SUFFICES ASSUME IInv, NEW a \in Accounts, Get(a).balance < 0
               PROVE  a \in siblings \cup Drained
    BY DEF OverdraftExplained
  <2>1. Get(a).balance \in Int
    BY GetType DEF IInv, Account
  <2> QED
    BY <2>1 DEF IInv, BalanceInv
<1> QED
  BY <1>1, IInvAlways, PTL

\* Whatever is applied, paid out, cut off by a crash and started again: what accounts hold
\* and what is in flight, burned and lost add up to the genesis balances and the rewards.
THEOREM NothingMadeOrDestroyed == Spec => []ValueConserved
<1>1. Init => ValueInv
  BY InitIInv, InitValue DEF IInv
<1>2. IInv /\ IInv' /\ ValueInv /\ [Next]_vars => ValueInv'
  BY NextValue
<1>3. ValueInv => ValueConserved
  BY DEF ValueInv
<1> QED
  BY <1>1, <1>2, <1>3, IInvAlways, PTL DEF Spec
=============================================================================
