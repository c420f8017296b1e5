---------------------------- MODULE ProductionProofs ----------------------------
(***************************************************************************)
(* Proofs about block production: Proposer, which of the validators may    *)
(* propose, and Node, the loop that does.  Each is a system of its own,    *)
(* with its own variables, specification and inductive invariant.  The     *)
(* theorems hold for any validators, scores, hashes and windows, and for   *)
(* any retries, timeouts and tasks that satisfy the assumptions.           *)
(***************************************************************************)
EXTENDS Proposer, Node, FiniteSetTheorems, SequenceTheorems, WellFoundedInduction, TLAPS

(***************************************************************************)
(* Proposer.                                                               *)
(***************************************************************************)

-----------------------------------------------------------------------------
(* Recursion over an interval.                                             *)

\* Every non-empty set of natural numbers has a least element.
LEMMA LeastNat ==
  ASSUME NEW T, T \subseteq Nat, T # {}
  PROVE  \E n \in T : \A m \in T : n <= m
<1>1. PICK n \in T : \A m \in T : <<m, n>> \notin OpToRel(<, Nat)
  BY NatLessThanWellFounded, WFMin, Zenon
<1>2. ASSUME NEW m \in T, m < n PROVE FALSE
  <2>1. <<m, n>> \in {ss \in Nat \X Nat : ss[1] < ss[2]}
    BY <1>2
  <2> QED
    BY <1>1, <2>1, Zenon DEF OpToRel
<1>3. n \in Nat /\ \A m \in T : m \in Nat /\ ~(m < n)
  BY <1>2, Zenon
<1> HIDE <1>1
<1> QED
  BY <1>3

\* g starts with base and takes the next value from the previous one by F.
Follows(g, base, F, n) == g[0] = base /\ \A k \in 1 .. n : g[k] = F[<<g[k - 1], k>>]

LEMMA FollowsExists ==
  ASSUME NEW n \in Nat, NEW V, NEW base \in V, NEW F \in [V \X (1 .. n) -> V]
  PROVE  \E g \in [0 .. n -> V] : Follows(g, base, F, n)
<1> DEFINE Lacking == {m \in 0 .. n : ~ \E g \in [0 .. m -> V] : Follows(g, base, F, m)}
<1> SUFFICES ASSUME Lacking # {} PROVE FALSE
  OBVIOUS
<1>1. PICK m \in Lacking : \A k \in Lacking : m <= k
  <2>1. Lacking \subseteq Nat
    OBVIOUS
  <2> HIDE DEF Lacking
  <2> QED
    BY <2>1, LeastNat
<1>2. m # 0
  <2> SUFFICES ASSUME m = 0 PROVE FALSE
    OBVIOUS
  <2> DEFINE g == [k \in 0 .. 0 |-> base]
  <2>1. g \in [0 .. 0 -> V] /\ Follows(g, base, F, 0)
    BY DEF Follows
  <2> QED
    BY <1>1, <2>1
<1>3. m - 1 \in 0 .. n /\ m \in 1 .. n /\ m - 1 \notin Lacking
  BY <1>1, <1>2
<1>4. PICK g \in [0 .. m - 1 -> V] : Follows(g, base, F, m - 1)
  BY <1>3
<1> DEFINE h == [k \in 0 .. m |-> IF k = m THEN F[<<g[m - 1], m>>] ELSE g[k]]
<1>5. h \in [0 .. m -> V]
  BY <1>3, <1>4
<1>6. \A k \in 1 .. m : h[k] = F[<<h[k - 1], k>>]
  <2> SUFFICES ASSUME NEW k \in 1 .. m PROVE h[k] = F[<<h[k - 1], k>>]
    OBVIOUS
  <2>1. k - 1 \in 0 .. m /\ k - 1 # m /\ h[k - 1] = g[k - 1]
    BY <1>3
  <2>2. CASE k = m
    BY <1>3, <2>1, <2>2
  <2>3. CASE k # m
    <3>1. k \in 1 .. m - 1 /\ h[k] = g[k]
      BY <1>3, <2>3
    <3> QED
      BY <1>4, <2>1, <3>1 DEF Follows
  <2> QED
    BY <2>2, <2>3
<1>7. h[0] = base
  BY <1>2, <1>3, <1>4 DEF Follows
<1>8. Follows(h, base, F, m)
  BY <1>6, <1>7 DEF Follows
<1> HIDE DEF h
<1> QED
  BY <1>1, <1>5, <1>8

-----------------------------------------------------------------------------
(* The lists and the sums of scores.                                       *)

\* A list of validators without repetition.
Lists == {list \in Seq(Validators) : \A i, j \in 1 .. Len(list) : list[i] = list[j] => i = j}

LEMMA OrdersAreLists == Orders \subseteq Lists
<1> SUFFICES ASSUME NEW list \in Orders PROVE list \in Lists
  OBVIOUS
<1> DEFINE n == Cardinality(Validators)
<1>1. n \in Nat
  BY FS_CardinalityType, ProposerAssumption
<1>2. /\ list \in [1 .. n -> Validators]
      /\ \A i, j \in 1 .. n : i # j => list[i] # list[j]
  BY ProposerAssumption DEF SetToSeqs
<1> HIDE DEF n
<1>3. list \in Seq(Validators) /\ Len(list) = n
  BY <1>1, <1>2
<1> QED
  BY <1>2, <1>3 DEF Lists

\* The loop that collects the part of State's list, from its first step to its last.
LEMMA ListedSteps ==
  ASSUME order \in Orders, NEW S
  PROVE  \E it \in [0 .. Len(order) -> Seq(Validators)] :
           /\ it[0] = <<>> /\ Listed(S) = it[Len(order)]
           /\ \A k \in 1 .. Len(order) :
                it[k] = IF order[k] \in S THEN Append(it[k - 1], order[k]) ELSE it[k - 1]
<1> DEFINE n == Len(order)
           F == [p \in Seq(Validators) \X (1 .. n) |->
                   IF order[p[2]] \in S THEN Append(p[1], order[p[2]]) ELSE p[1]]
           Body(g) == [k \in 0 .. n |->
                         IF k = 0 THEN <<>>
                         ELSE IF order[k] \in S THEN Append(g[k - 1], order[k]) ELSE g[k - 1]]
           it == CHOOSE g : g = Body(g)
<1>1. order \in Seq(Validators) /\ n \in Nat /\ \A k \in 1 .. n : order[k] \in Validators
  BY OrdersAreLists DEF Lists
<1>2. F \in [Seq(Validators) \X (1 .. n) -> Seq(Validators)]
  BY <1>1
<1>3. PICK g \in [0 .. n -> Seq(Validators)] : Follows(g, <<>>, F, n)
  <2> HIDE DEF F, n
  <2>1. <<>> \in Seq(Validators)
    OBVIOUS
  <2> QED
    BY <1>1, <1>2, <2>1, FollowsExists
<1>4. \A k \in 1 .. n :
        g[k] = IF order[k] \in S THEN Append(g[k - 1], order[k]) ELSE g[k - 1]
  <2> SUFFICES ASSUME NEW k \in 1 .. n
               PROVE  g[k] = IF order[k] \in S THEN Append(g[k - 1], order[k]) ELSE g[k - 1]
    OBVIOUS
  <2>1. k - 1 \in 0 .. n
    BY <1>1
  <2>2. g[k - 1] \in Seq(Validators) /\ g[k] = F[<<g[k - 1], k>>]
    BY <1>3, <2>1 DEF Follows
  <2> QED
    BY <2>2
<1>5. g[0] = <<>>
  BY <1>3 DEF Follows
<1>6. g = Body(g)
  <2>1. ASSUME NEW k \in 0 .. n PROVE g[k] = Body(g)[k]
    <3>1. k = 0 \/ k \in 1 .. n
      BY <1>1
    <3>2. CASE k = 0
      BY <1>5, <3>2
    <3>3. CASE k # 0
      BY <1>4, <3>1, <3>3
    <3> QED
      BY <3>2, <3>3
  <2>2. g = [k \in 0 .. n |-> g[k]] /\ Body(g) = [k \in 0 .. n |-> Body(g)[k]]
    BY <1>3
  <2> HIDE DEF Body
  <2> QED
    BY <2>1, <2>2
<1>7. it = Body(it)
  <2> HIDE DEF Body
  <2> QED
    BY <1>6
<1>8. Listed(S) = it[n]
  BY DEF Listed
<1>9. \A k \in 0 .. n : it[k] = g[k]
  <2> HIDE DEF it
  <2> DEFINE Bad == {k \in 0 .. n : it[k] # g[k]}
  <2> SUFFICES ASSUME Bad # {} PROVE FALSE
    OBVIOUS
  <2>1. PICK k \in Bad : \A i \in Bad : k <= i
    <3>1. Bad \subseteq Nat
      OBVIOUS
    <3> HIDE DEF Bad
    <3> QED
      BY <3>1, LeastNat
  <2>2. k # 0
    BY <1>5, <1>7, <2>1
  <2>3. k \in 0 .. n /\ k - 1 \in 0 .. n /\ it[k - 1] = g[k - 1]
    BY <1>1, <2>1, <2>2
  <2> QED
    BY <1>6, <1>7, <2>1, <2>3
<1>10. Listed(S) = g[n]
  <2> HIDE DEF it
  <2> QED
    BY <1>1, <1>8, <1>9
<1> HIDE DEF n
<1> QED
  BY <1>3, <1>4, <1>5, <1>10 DEF n

\* The part of State's list is a list.
LEMMA ListedIsList ==
  ASSUME order \in Orders, NEW S PROVE Listed(S) \in Lists
<1> DEFINE n == Len(order)
<1>1. order \in Lists /\ n \in Nat /\ \A k \in 1 .. n : order[k] \in Validators
  BY OrdersAreLists DEF Lists
<1>2. PICK it \in [0 .. n -> Seq(Validators)] :
        /\ it[0] = <<>> /\ Listed(S) = it[n]
        /\ \A k \in 1 .. n :
             it[k] = IF order[k] \in S THEN Append(it[k - 1], order[k]) ELSE it[k - 1]
  BY ListedSteps
<1> DEFINE Fresh(k) == /\ it[k] \in Lists
                       /\ \A i \in 1 .. Len(it[k]) : \E j \in 1 .. k : it[k][i] = order[j]
           Bad == {k \in 0 .. n : ~Fresh(k)}
<1>3. Bad = {}
  <2> SUFFICES ASSUME Bad # {} PROVE FALSE
    OBVIOUS
  <2>1. PICK k \in Bad : \A i \in Bad : k <= i
    <3>1. Bad \subseteq Nat
      OBVIOUS
    <3> HIDE DEF Bad
    <3> QED
      BY <3>1, LeastNat
  <2>2. k # 0
    <3>1. Fresh(0)
      BY <1>2 DEF Lists
    <3> QED
      BY <2>1, <3>1
  <2>3. k \in 1 .. n /\ k - 1 \in 0 .. n /\ Fresh(k - 1)
    BY <1>1, <2>1, <2>2
  <2> DEFINE old == it[k - 1]
  <2>4. old \in Seq(Validators) /\ Len(old) \in Nat
    <3>1. old \in Seq(Validators)
      BY <1>2, <2>3
    <3> QED
      BY <3>1
  <2>5. CASE order[k] \notin S
    <3>1. it[k] = old /\ 1 .. k - 1 \subseteq 1 .. k
      BY <1>2, <2>3, <2>5
    <3> QED
      BY <2>1, <2>3, <3>1
  <2>6. CASE order[k] \in S
    <3>1. it[k] = Append(old, order[k])
      BY <1>2, <2>3, <2>6
    <3> DEFINE new == it[k]
    <3>2. /\ new \in Seq(Validators) /\ Len(new) = Len(old) + 1
          /\ \A i \in 1 .. Len(old) : new[i] = old[i]
          /\ new[Len(old) + 1] = order[k]
      BY <1>1, <2>3, <2>4, <3>1
    <3>3. \A i \in 1 .. Len(old) : \E j \in 1 .. k - 1 : old[i] = order[j]
      BY <2>3
    <3>4. \A i \in 1 .. Len(old) : old[i] # order[k]
      BY <1>1, <2>3, <3>3 DEF Lists
    <3>5. \A i, j \in 1 .. Len(old) : old[i] = old[j] => i = j
      BY <2>3 DEF Lists
    <3> HIDE DEF new, old
    <3>6. \A i \in 1 .. Len(new) : i \in 1 .. Len(old) \/ i = Len(old) + 1
      BY <2>4, <3>2
    <3>7. new \in Lists
      BY <3>2, <3>4, <3>5, <3>6 DEF Lists
    <3>8. ASSUME NEW i \in 1 .. Len(new) PROVE \E j \in 1 .. k : new[i] = order[j]
      <4>1. k \in 1 .. k /\ 1 .. k - 1 \subseteq 1 .. k
        BY <1>1, <2>3
      <4>2. CASE i \in 1 .. Len(old)
        BY <3>2, <3>3, <4>1, <4>2
      <4>3. CASE i = Len(old) + 1
        BY <3>2, <4>1, <4>3
      <4> QED
        BY <3>6, <4>2, <4>3
    <3> QED
      BY <2>1, <3>7, <3>8 DEF new
  <2> QED
    BY <2>5, <2>6
<1> QED
  BY <1>1, <1>2, <1>3

\* The sums of scores along a list.
LEMMA CumulativeSteps ==
  ASSUME score \in [Validators -> Int], NEW list \in Seq(Validators)
  PROVE  /\ Cumulative(list) \in [0 .. Len(list) -> Int]
         /\ Cumulative(list)[0] = 0
         /\ \A k \in 1 .. Len(list) : Cumulative(list)[k] = Cumulative(list)[k - 1] + score[list[k]]
<1> DEFINE n == Len(list)
           F == [p \in Int \X (1 .. n) |-> p[1] + score[list[p[2]]]]
           Body(g) == [k \in 0 .. n |-> IF k = 0 THEN 0 ELSE g[k - 1] + score[list[k]]]
           it == CHOOSE g : g = Body(g)
<1>1. n \in Nat /\ \A k \in 1 .. n : score[list[k]] \in Int
  OBVIOUS
<1>2. F \in [Int \X (1 .. n) -> Int]
  BY <1>1
<1>3. PICK g \in [0 .. n -> Int] : Follows(g, 0, F, n)
  <2> HIDE DEF F, n
  <2>1. 0 \in Int
    OBVIOUS
  <2> QED
    BY <1>1, <1>2, <2>1, FollowsExists
<1>4. \A k \in 1 .. n : g[k] = g[k - 1] + score[list[k]]
  <2> SUFFICES ASSUME NEW k \in 1 .. n PROVE g[k] = g[k - 1] + score[list[k]]
    OBVIOUS
  <2>1. k - 1 \in 0 .. n
    BY <1>1
  <2>2. g[k - 1] \in Int /\ g[k] = F[<<g[k - 1], k>>]
    BY <1>3, <2>1 DEF Follows
  <2> QED
    BY <2>2
<1>5. g[0] = 0
  BY <1>3 DEF Follows
<1>6. g = Body(g)
  <2>1. ASSUME NEW k \in 0 .. n PROVE g[k] = Body(g)[k]
    <3>1. k = 0 \/ k \in 1 .. n
      BY <1>1
    <3>2. CASE k = 0
      BY <1>5, <3>2
    <3>3. CASE k # 0
      BY <1>4, <3>1, <3>3
    <3> QED
      BY <3>2, <3>3
  <2>2. g = [k \in 0 .. n |-> g[k]] /\ Body(g) = [k \in 0 .. n |-> Body(g)[k]]
    BY <1>3
  <2> HIDE DEF Body
  <2> QED
    BY <2>1, <2>2
<1>7. it = Body(it)
  <2> HIDE DEF Body
  <2> QED
    BY <1>6
<1>8. Cumulative(list) = it
  BY DEF Cumulative
<1>9. \A k \in 0 .. n : it[k] = g[k]
  <2> HIDE DEF it
  <2> DEFINE Bad == {k \in 0 .. n : it[k] # g[k]}
  <2> SUFFICES ASSUME Bad # {} PROVE FALSE
    OBVIOUS
  <2>1. PICK k \in Bad : \A i \in Bad : k <= i
    <3>1. Bad \subseteq Nat
      OBVIOUS
    <3> HIDE DEF Bad
    <3> QED
      BY <3>1, LeastNat
  <2>2. k # 0
    BY <1>5, <1>7, <2>1
  <2>3. k \in 0 .. n /\ k - 1 \in 0 .. n /\ it[k - 1] = g[k - 1]
    BY <1>1, <2>1, <2>2
  <2> QED
    BY <1>6, <1>7, <2>1, <2>3
<1>10. DOMAIN it = 0 .. n /\ it = [k \in 0 .. n |-> it[k]]
  BY <1>7
<1>11. it = g
  BY <1>9, <1>10
<1> HIDE DEF it
<1> QED
  BY <1>3, <1>4, <1>5, <1>8, <1>11

\* They grow.
LEMMA CumulativeGrows ==
  ASSUME score \in [Validators -> Nat], NEW list \in Seq(Validators)
  PROVE  /\ \A k \in 0 .. Len(list) : Cumulative(list)[k] \in Nat
         /\ \A i, j \in 0 .. Len(list) : i <= j => Cumulative(list)[i] <= Cumulative(list)[j]
<1> DEFINE n == Len(list)
           W == Cumulative(list)
           Bad == {k \in 0 .. n : ~(W[k] \in Nat /\ \A i \in 0 .. k : W[i] <= W[k])}
<1>1. n \in Nat /\ \A k \in 1 .. n : score[list[k]] \in Nat
  OBVIOUS
<1>2. W[0] = 0 /\ \A k \in 1 .. n : W[k] = W[k - 1] + score[list[k]]
  <2>1. score \in [Validators -> Int]
    OBVIOUS
  <2> QED
    BY <2>1, CumulativeSteps
<1> HIDE DEF W
<1>3. Bad = {}
  <2> SUFFICES ASSUME Bad # {} PROVE FALSE
    OBVIOUS
  <2>1. PICK k \in Bad : \A i \in Bad : k <= i
    <3>1. Bad \subseteq Nat
      OBVIOUS
    <3> HIDE DEF Bad
    <3> QED
      BY <3>1, LeastNat
  <2>2. k # 0
    BY <1>2, <2>1
  <2>3. k \in 1 .. n /\ k - 1 \in 0 .. n /\ k - 1 \notin Bad
    BY <1>1, <2>1, <2>2
  <2>4. W[k - 1] \in Nat /\ \A i \in 0 .. k - 1 : W[i] <= W[k - 1]
    BY <2>3
  <2>5. W[k] \in Nat /\ W[k - 1] <= W[k]
    <3>1. PICK d \in Nat : d = score[list[k]]
      BY <1>1, <2>3
    <3>2. W[k] = W[k - 1] + d
      BY <1>2, <2>3, <3>1
    <3> QED
      BY <2>4, <3>2
  <2>6. ASSUME NEW i \in 0 .. k PROVE W[i] <= W[k]
    <3>1. CASE i = k
      BY <2>5, <3>1
    <3>2. CASE i # k
      <4>1. i \in 0 .. k - 1
        BY <2>3, <3>2
      <4>2. W[i] <= W[k - 1] /\ i \in 0 .. n
        BY <2>3, <2>4, <4>1
      <4>3. i < k
        BY <2>3, <4>1
      <4>4. i \notin Bad
        BY <2>1, <2>3, <4>2, <4>3
      <4>5. W[i] \in Nat
        BY <4>2, <4>4
      <4> QED
        BY <2>4, <2>5, <4>2, <4>5
    <3> QED
      BY <3>1, <3>2
  <2> QED
    BY <2>1, <2>5, <2>6
<1>4. \A k \in 0 .. n : W[k] \in Nat /\ \A i \in 0 .. k : W[i] <= W[k]
  BY <1>3
<1>5. \A i, j \in 0 .. n : i <= j => i \in 0 .. j
  BY <1>1
<1> HIDE DEF n
<1> QED
  BY <1>4, <1>5 DEF W, n

LEMMA ProductGrows ==
  ASSUME NEW a \in Nat, NEW b \in Nat, NEW c \in Nat
  PROVE  a * c \in Nat /\ (a <= b => a * c <= b * c) /\ (a < b /\ c > 0 => a * c < b * c)
<1>1. a * c \in Nat /\ b * c \in Nat
  OBVIOUS
<1>2. ASSUME a <= b PROVE b * c = a * c + (b - a) * c /\ b - a \in Nat
  BY <1>2
<1>3. ASSUME NEW d \in Nat PROVE d * c \in Nat /\ (d > 0 /\ c > 0 => d * c > 0)
  OBVIOUS
<1> QED
  BY <1>1, <1>2, <1>3

\* A value between the ends of growing steps is in exactly one of them.
LEMMA OneStep ==
  ASSUME NEW n \in Nat, NEW P, \A k \in 0 .. n : P[k] \in Nat,
         \A i, j \in 0 .. n : i <= j => P[i] <= P[j],
         P[0] = 0, NEW y \in Nat, y < P[n]
  PROVE  /\ \E i \in 1 .. n : P[i - 1] <= y /\ y < P[i]
         /\ \A i, j \in 1 .. n :
              P[i - 1] <= y /\ y < P[i] /\ P[j - 1] <= y /\ y < P[j] => i = j
<1> DEFINE Above == {k \in 0 .. n : y < P[k]}
<1>1. PICK i \in Above : \A k \in Above : i <= k
  <2>1. Above \subseteq Nat /\ n \in Above
    OBVIOUS
  <2> HIDE DEF Above
  <2> QED
    BY <2>1, LeastNat
<1>2. i # 0
  BY <1>1
<1>3. i \in 1 .. n /\ i - 1 \in 0 .. n /\ i - 1 \notin Above
  BY <1>1, <1>2
<1>4. P[i - 1] <= y /\ y < P[i]
  BY <1>1, <1>3
<1>5. ASSUME NEW j \in 1 .. n, NEW k \in 1 .. n, j < k, y < P[j], P[k - 1] <= y PROVE FALSE
  <2>1. j \in 0 .. n /\ k - 1 \in 0 .. n /\ j <= k - 1
    BY <1>5
  <2>2. P[j] <= P[k - 1] /\ P[j] \in Nat /\ P[k - 1] \in Nat
    BY <2>1
  <2> QED
    BY <1>5, <2>2
<1>6. \A j, k \in 1 .. n : j < k \/ k < j \/ j = k
  OBVIOUS
<1> QED
  BY <1>3, <1>4, <1>5, <1>6

\* The ranges of a list without repetition divide the values among its validators.
LEMMA RangesDivide ==
  ASSUME score \in [Validators -> Nat], NEW list \in Lists, Weight(list) > 0,
         NEW x \in 0 .. Values - 1
  PROVE  Cardinality({v \in Validators : InRange(v, list, x)}) = 1
<1> DEFINE n == Len(list)
           W == Cumulative(list)
           P == [k \in 0 .. n |-> W[k] * Values]
           y == x * Weight(list)
<1>1. list \in Seq(Validators) /\ n \in Nat /\ Values \in Nat \ {0} /\ x \in Nat /\ x < Values
  BY ProposerAssumption DEF Lists
<1>2. /\ \A k \in 0 .. n : W[k] \in Nat
      /\ \A i, j \in 0 .. n : i <= j => W[i] <= W[j]
  BY <1>1, CumulativeGrows
<1>3. W[0] = 0
  <2>1. score \in [Validators -> Int]
    OBVIOUS
  <2> QED
    BY <1>1, <2>1, CumulativeSteps
<1>4. Weight(list) = W[n] /\ W[n] \in Nat
  BY <1>1, <1>2 DEF Weight
<1> HIDE DEF W
<1>5. \A k \in 0 .. n : P[k] \in Nat
  BY <1>1, <1>2
<1>6. \A i, j \in 0 .. n : i <= j => P[i] <= P[j]
  BY <1>1, <1>2, ProductGrows
<1>7. P[0] = 0
  BY <1>1, <1>3
<1>8. y \in Nat /\ y < P[n]
  <2>1. x * W[n] \in Nat /\ x * W[n] < Values * W[n]
    BY <1>1, <1>4, ProductGrows
  <2>2. Values * W[n] = W[n] * Values
    BY <1>1, <1>4
  <2> QED
    BY <1>1, <1>4, <2>1, <2>2
<1>9. \A v \in Validators : InRange(v, list, x) <=>
        \E i \in 1 .. n : list[i] = v /\ P[i - 1] <= y /\ y < P[i]
  <2>1. \A i \in 1 .. n : i \in 0 .. n /\ i - 1 \in 0 .. n
    BY <1>1
  <2>2. \A i \in 1 .. n : P[i] = W[i] * Values /\ P[i - 1] = W[i - 1] * Values
    BY <2>1
  <2> HIDE DEF P
  <2> QED
    BY <2>2 DEF InRange, W
<1> HIDE DEF P, y
<1>10. PICK i \in 1 .. n :
         /\ P[i - 1] <= y /\ y < P[i]
         /\ \A j \in 1 .. n : P[j - 1] <= y /\ y < P[j] => j = i
  <2> HIDE DEF n
  <2>1. n \in Nat /\ y \in Nat /\ y < P[n]
    BY <1>1, <1>8
  <2>2. /\ \E k \in 1 .. n : P[k - 1] <= y /\ y < P[k]
        /\ \A k, j \in 1 .. n :
             P[k - 1] <= y /\ y < P[k] /\ P[j - 1] <= y /\ y < P[j] => k = j
    BY ONLY <2>1, <1>5, <1>6, <1>7, OneStep
  <2> QED
    BY ONLY <2>2
<1>11. {v \in Validators : InRange(v, list, x)} = {list[i]}
  <2>1. list[i] \in Validators
    BY <1>1
  <2> QED
    BY <1>9, <1>10, <2>1
<1> QED
  BY <1>11, FS_Singleton

-----------------------------------------------------------------------------
(* Types.                                                                  *)

LEMMA InitType == Init => TypeOK
<1> SUFFICES ASSUME Init PROVE TypeOK
  OBVIOUS
<1> USE ProposerAssumption
<1>1. /\ order \in Orders
      /\ status \in [Validators -> Status] /\ score \in [Validators -> Scores \cup {0}]
      /\ keyStored \in BOOLEAN
  BY DEF Init
<1>2. height \in 0 .. MaxHeight /\ value \in [1 .. MaxHeight -> Unknown .. Values - 1]
  BY DEF Init, Unknown
<1>3. block \in Block /\ pc \in {"idle", "propose", "vote", "finalize"}
  BY DEF Init, NoBlock, Block
<1>4. /\ counts \in Seq(Nat) /\ Len(counts) <= RetargetWindow /\ thresholds \in Thresholds
  BY DEF Init, DefaultThresholds, Thresholds
<1>5. changes \in 0 .. MaxChanges /\ crashes \in 0 .. MaxCrashes
  BY DEF Init
<1>6. crowded \in BOOLEAN /\ full \in BOOLEAN
  BY DEF Init
<1> QED
  BY <1>1, <1>2, <1>3, <1>4, <1>5, <1>6 DEF TypeOK

\* The number of active validators is a number.
LEMMA ActiveType == ASSUME TypeOK PROVE Len(ActiveValidators) \in Nat
<1>1. order \in Orders
  BY DEF TypeOK
<1>2. \A S : Listed(S) \in Lists
  BY <1>1, ListedIsList
<1>3. ActiveValidators \in Lists
  BY <1>2 DEF ActiveValidators
<1> QED
  BY <1>3 DEF Lists

\* Whatever the thresholds were and whichever way they go, they end up within their bounds.
LEMMA AdjustedInBounds ==
  ASSUME NEW t \in Thresholds, NEW percent \in Int
  PROVE  Adjusted(t, percent) \in Thresholds
<1>1. \A a, b \in Int : a * b \in Int /\ (a * b) \div 100 \in Int
  <2>1. \A a, b \in Int : a * b \in Int
    OBVIOUS
  <2>2. \A c \in Int : c \div 100 \in Int
    OBVIOUS
  <2> QED
    BY <2>1, <2>2
<1>2. 100 + percent \in Int /\ 100 - percent \in Int
  OBVIOUS
<1>3. t.upload \in Int /\ t.latency \in Int /\ t.loss \in Int
  <2>1. t.upload \in Int
    BY DEF Thresholds
  <2>2. t.latency \in Int
    BY DEF Thresholds
  <2>3. t.loss \in Int
    BY DEF Thresholds
  <2> QED
    BY <2>1, <2>2, <2>3
<1> DEFINE u == (t.upload * (100 + percent)) \div 100
           l == (t.latency * (100 - percent)) \div 100
           o == (t.loss * (100 - percent)) \div 100
<1>4. u \in Int /\ l \in Int /\ o \in Int
  BY <1>1, <1>2, <1>3
<1>5. Adjusted(t, percent) = [upload |-> Within(u, 50, 100),
                              latency |-> Within(l, 50, 200), loss |-> Within(o, 5, 50)]
  BY DEF Adjusted
<1> HIDE DEF u, l, o
<1>6. Within(u, 50, 100) \in 50 .. 100
  BY <1>4 DEF Within
<1>7. Within(l, 50, 200) \in 50 .. 200
  BY <1>4 DEF Within
<1>8. Within(o, 5, 50) \in 5 .. 50
  BY <1>4 DEF Within
<1> QED
  BY <1>5, <1>6, <1>7, <1>8 DEF Thresholds

\* Appending to the window and dropping its first entry if it is too long.
LEMMA WindowKept ==
  ASSUME NEW s \in Seq(Nat), NEW n \in Nat, NEW w \in Nat, Len(s) <= w
  PROVE  LET all == Append(s, n)
             kept == IF Len(all) > w THEN Tail(all) ELSE all
         IN  kept \in Seq(Nat) /\ Len(kept) <= w
<1> DEFINE all == Append(s, n)
<1>1. all \in Seq(Nat) /\ Len(all) = Len(s) + 1 /\ Len(s) \in Nat
  OBVIOUS
<1> HIDE DEF all
<1>2. all # <<>>
  <2>1. Len(<<>>) = 0
    OBVIOUS
  <2> QED
    BY <1>1, <2>1
<1>3. Tail(all) \in Seq(Nat) /\ Len(Tail(all)) = Len(all) - 1
  BY <1>1, <1>2
<1>4. CASE Len(all) > w
  BY <1>1, <1>3, <1>4 DEF all
<1>5. CASE ~(Len(all) > w)
  BY <1>1, <1>5 DEF all
<1> QED
  BY <1>4, <1>5

LEMMA FinalizeType == TypeOK /\ FinalizeBlock => TypeOK'
<1> SUFFICES ASSUME TypeOK, FinalizeBlock PROVE TypeOK'
  OBVIOUS
<1> USE ProposerAssumption
<1> DEFINE n == Len(ActiveValidators)
           all == Append(counts, n)
<1>1. n \in Nat
  BY ActiveType
<1>2. /\ counts \in Seq(Nat) /\ Len(counts) <= RetargetWindow /\ RetargetWindow \in Nat
      /\ counts' = IF Len(all) > RetargetWindow THEN Tail(all) ELSE all
  BY DEF TypeOK, FinalizeBlock, Recorded
<1>3. counts' \in Seq(Nat) /\ Len(counts') <= RetargetWindow
  <2> HIDE DEF n
  <2> QED
    BY <1>1, <1>2, WindowKept
<1>4. thresholds' \in Thresholds
  <2>1. thresholds \in Thresholds /\ 20 \in Int /\ -20 \in Int
    BY DEF TypeOK
  <2>2. \/ thresholds' = thresholds
        \/ thresholds' = Adjusted(thresholds, -20) \/ thresholds' = Adjusted(thresholds, 20)
    BY DEF FinalizeBlock, AdjustDifficulty
  <2> QED
    BY <2>1, <2>2, AdjustedInBounds
<1>5. height' \in 0 .. MaxHeight
  BY DEF TypeOK, FinalizeBlock, Block
<1>6. block' \in Block
  BY DEF FinalizeBlock, NoBlock, Block
<1>7. pc' = "idle" /\ crowded' \in BOOLEAN /\ UNCHANGED <<records, value, full, changes, crashes>>
  BY DEF FinalizeBlock
<1> QED
  BY <1>3, <1>4, <1>5, <1>6, <1>7 DEF TypeOK, records

LEMMA ProposeType == TypeOK /\ ProposeBlock => TypeOK'
<1> SUFFICES ASSUME TypeOK, ProposeBlock PROVE TypeOK'
  OBVIOUS
<1> USE ProposerAssumption
<1>1. PICK x \in 0 .. Values - 1 : value' = [value EXCEPT ![height + 1] = x]
  BY DEF ProposeBlock
<1>2. height + 1 \in 1 .. MaxHeight
  BY DEF TypeOK, ProposeBlock
<1>3. value' \in [1 .. MaxHeight -> Unknown .. Values - 1] /\ value'[height + 1] = x
  <2>1. value \in [1 .. MaxHeight -> Unknown .. Values - 1] /\ x \in Unknown .. Values - 1
    BY DEF TypeOK, Unknown
  <2> QED
    BY <1>1, <1>2, <2>1
<1>4. block' \in Block
  <2>1. RequiredVotes(Len(ActiveValidators)) \in Nat
    <3>1. PICK n \in Nat : n = Len(ActiveValidators)
      BY ActiveType
    <3>2. (n * 85) \div 100 \in Nat
      OBVIOUS
    <3> QED
      BY <3>1, <3>2 DEF RequiredVotes
  <2>2. block' = [height |-> height + 1, value |-> x,
                  required |-> RequiredVotes(Len(ActiveValidators)),
                  crowded |-> crowded, onTip |-> TRUE]
    BY <1>3 DEF ProposeBlock
  <2>3. crowded \in BOOLEAN
    BY DEF TypeOK
  <2> QED
    BY <1>2, <2>1, <2>2, <2>3 DEF Block
<1>5. pc' = "vote" /\ UNCHANGED <<records, height, retarget, hindrances, changes, crashes>>
  BY DEF ProposeBlock
<1> QED
  BY <1>3, <1>4, <1>5 DEF TypeOK, records, retarget, hindrances

LEMMA ChangeType == ASSUME TypeOK, NEW v \in Validators, Change(v) PROVE TypeOK'
<1> USE ProposerAssumption
<1>1. /\ UNCHANGED <<order, height, value, pc, block, counts, thresholds, crowded, full, crashes>>
      /\ changes' \in 0 .. MaxChanges
  BY DEF TypeOK, Change, Activate, Exit, Suspend, Release, Tested, Register, Changes,
         production, retarget, hindrances
<1>2. status' \in [Validators -> Status]
  BY DEF TypeOK, Change, Activate, Exit, Suspend, Release, Tested, Register, Status
<1>3. score' \in [Validators -> Scores \cup {0}]
  BY DEF TypeOK, Change, Activate, Exit, Suspend, Release, Tested, Register
<1>4. keyStored' \in BOOLEAN
  BY DEF TypeOK, Change, Activate, Exit, Suspend, Release, Tested, Register
<1> QED
  BY <1>1, <1>2, <1>3, <1>4 DEF TypeOK

LEMMA NextType == TypeOK /\ [Next]_vars => TypeOK'
<1> SUFFICES ASSUME TypeOK, [Next]_vars PROVE TypeOK'
  OBVIOUS
<1> USE ProposerAssumption
<1>1. CASE IsProposer
  BY <1>1 DEF TypeOK, IsProposer, records, retarget, hindrances
<1>2. CASE ProposeBlock
  BY <1>2, ProposeType
<1>3. CASE VoteOnBlock
  <2>1. /\ UNCHANGED <<records, height, value, retarget, hindrances, changes, crashes>>
        /\ pc' \in {"idle", "finalize"} /\ (block' = block \/ block' = NoBlock)
    BY <1>3 DEF VoteOnBlock
  <2>2. NoBlock \in Block
    BY DEF NoBlock, Block
  <2> QED
    BY <2>1, <2>2 DEF TypeOK, records, retarget, hindrances
<1>4. CASE FinalizeBlock
  BY <1>4, FinalizeType
<1>5. CASE PeerBlock
  <2>1. block' \in Block
    <3>1. block \in Block /\ block' = [block EXCEPT !.onTip = FALSE]
      BY <1>5 DEF TypeOK, PeerBlock
    <3> QED
      BY <3>1 DEF Block
  <2> QED
    BY <1>5, <2>1 DEF TypeOK, PeerBlock, records, retarget, hindrances
<1>6. CASE Restart
  <2>1. /\ value' \in [1 .. MaxHeight -> Unknown .. Values - 1] /\ block' \in Block
        /\ counts' \in Seq(Nat) /\ Len(counts') <= RetargetWindow /\ thresholds' \in Thresholds
    BY <1>6 DEF Restart, Unknown, NoBlock, Block, DefaultThresholds, Thresholds
  <2>2. /\ UNCHANGED <<order, status, score, height, full, changes>> /\ keyStored' = TRUE
        /\ pc' = "idle" /\ crashes' \in 0 .. MaxCrashes
    BY <1>6 DEF TypeOK, Restart
  <2>3. crowded' \in BOOLEAN
    BY <1>6 DEF Restart
  <2> QED
    BY <2>1, <2>2, <2>3 DEF TypeOK
<1>7. CASE \E v \in Validators : Change(v)
  BY <1>7, ChangeType
<1>8. CASE FinalizeFails
  BY <1>8 DEF TypeOK, FinalizeFails, NoBlock, Block, records, retarget, hindrances
<1>9. CASE Crowding \/ Filling
  <2>1. /\ UNCHANGED <<order, status, score, keyStored, height, value, pc, block, counts,
                       thresholds, crashes>>
        /\ changes' \in 0 .. MaxChanges
    BY <1>9 DEF TypeOK, Crowding, Filling, Changes, production, retarget
  <2>2. crowded' \in BOOLEAN /\ full' \in BOOLEAN
    BY <1>9, Zenon DEF TypeOK, Crowding, Filling
  <2> QED
    BY <2>1, <2>2 DEF TypeOK
<1>10. CASE UNCHANGED vars
  BY <1>10 DEF TypeOK, vars, records, production, retarget, hindrances
<1> QED
  BY <1>1, <1>2, <1>3, <1>4, <1>5, <1>6, <1>7, <1>8, <1>9, <1>10 DEF Next, BlockProduction

-----------------------------------------------------------------------------
(* The theorems.                                                           *)

\* The types of the selection and the retargeting; whatever the history of adjustments
\* (AdjustDifficulty), the thresholds stay within the bounds that it clamps them to, and
\* RecordValidatorCount keeps the window at RetargetWindow entries.
THEOREM TypeCorrect == Spec => []TypeOK
<1>1. Init => TypeOK
  BY InitType
<1>2. TypeOK /\ [Next]_vars => TypeOK'
  BY NextType
<1> QED
  BY <1>1, <1>2, PTL DEF Spec

\* VerifyVRFProposerSelection accepts exactly one of the eligible validators for each VRF
\* value, as soon as one of them has a score: for any number of validators, in any order of
\* State's list, with any scores.
THEOREM EveryValueHasOneWinner == Spec => []OneWinner
<1>1. TypeOK => OneWinner
  <2> SUFFICES ASSUME TypeOK, Weight(Eligible) > 0, NEW x \in 0 .. Values - 1
               PROVE  Cardinality({v \in Validators : InRange(v, Eligible, x)}) = 1
    BY DEF OneWinner
  <2>1. score \in [Validators -> Nat]
    <3>1. Scores \cup {0} \subseteq Nat
      BY ProposerAssumption
    <3>2. score \in [Validators -> Scores \cup {0}]
      BY DEF TypeOK
    <3> QED
      BY <3>1, <3>2
  <2>2. order \in Orders
    BY DEF TypeOK
  <2>3. Eligible \in Lists
    <3>1. \A S : Listed(S) \in Lists
      BY <2>2, ListedIsList
    <3> QED
      BY <3>1 DEF Eligible
  <2> QED
    BY <2>1, <2>3, RangesDivide
<1> QED
  BY <1>1, TypeCorrect, PTL

-----------------------------------------------------------------------------
(***************************************************************************)
(* Node.                                                                   *)
(***************************************************************************)

\* A trial of a half-open breaker that succeeds is one more at most of HalfOpenMax.
LoopIInv == LoopTypeOK /\ (breaker = "half-open" => tries < HalfOpenMax)

\* The power is the number of subsets of a set of n numbers.
LEMMA PowerType == ASSUME NEW n \in Nat PROVE 2 ^ n \in Nat
<1> DEFINE S == 1 .. n
<1>1. IsFiniteSet(S) /\ Cardinality(S) = n
  BY FS_Interval
<1>2. IsFiniteSet(SUBSET S) /\ Cardinality(SUBSET S) = 2 ^ Cardinality(S)
  BY <1>1, FS_SUBSET
<1>3. Cardinality(SUBSET S) \in Nat
  BY <1>2, FS_CardinalityType
<1> QED
  BY ONLY <1>1, <1>2, <1>3

LEMMA DelayType == ASSUME NEW n \in Nat \ {0} PROVE Delay(n) \in 0 .. MaxDelay
<1> DEFINE p == 2 ^ (n - 1)
<1>1. p \in Nat
  BY PowerType
<1> HIDE DEF p
<1>2. RetryDelay * p \in Nat /\ MaxDelay \in Nat
  BY <1>1, NodeAssumption
<1>3. Delay(n) = IF RetryDelay * p > MaxDelay THEN MaxDelay ELSE RetryDelay * p
  BY DEF Delay, p
<1> QED
  BY ONLY <1>2, <1>3

\* What the loop does after an error.
LEMMA RetriesType ==
  ASSUME LoopTypeOK, Retries
  PROVE  loop' \in {"select", "sleep"} /\ attempt' \in 0 .. MaxRetries /\ sleep' \in 0 .. MaxDelay
<1>1. attempt \in Nat /\ attempt + 1 \in Nat \ {0} /\ attempt \in 0 .. MaxRetries /\ MaxRetries \in Nat /\ MaxDelay \in Nat
  BY NodeAssumption DEF LoopTypeOK
<1>2. CASE attempt < MaxRetries
  <2>1. Delay(attempt + 1) \in 0 .. MaxDelay
    BY <1>1, DelayType
  <2> QED
    BY <1>1, <1>2, <2>1 DEF Retries
<1>3. CASE ~(attempt < MaxRetries)
  BY <1>1, <1>3 DEF Retries, Succeeds
<1> QED
  BY <1>2, <1>3

LEMMA AttemptKeepsTypes == ASSUME LoopIInv, Attempts PROVE LoopIInv'
<1> USE NodeAssumption DEF LoopIInv
<1>1. CASE TakeTick
  BY <1>1 DEF TakeTick, LoopTypeOK, circuit, ending
<1>2. CASE Wake
  BY <1>2 DEF Wake, LoopTypeOK, circuit, ending
<1>3. CASE NotProposer
  BY <1>3 DEF NotProposer, Succeeds, LoopTypeOK, circuit, ending
<1>4. CASE ProposerUnknown
  BY <1>4, RetriesType DEF ProposerUnknown, LoopTypeOK, circuit, ending
<1>5. CASE CallStarts
  BY <1>5 DEF CallStarts, LoopTypeOK, circuit, ending
<1>6. CASE CallRefused
  BY <1>6, RetriesType DEF CallRefused, AgeKept, LoopTypeOK, circuit, ending
<1>7. CASE ProposeFails
  BY <1>7, RetriesType DEF ProposeFails, LoopTypeOK, circuit, ending
<1>8. CASE ProposeSucceeds
  BY <1>8 DEF ProposeSucceeds, CountAfterClose, LoopTypeOK, circuit, ending
<1>9. CASE VoteReturns
  BY <1>9 DEF VoteReturns, Succeeds, LoopTypeOK, circuit, ending
<1>10. CASE LoopStops
  BY <1>10 DEF LoopStops, LoopTypeOK, circuit, ending
<1> QED
  BY <1>1, <1>2, <1>3, <1>4, <1>5, <1>6, <1>7, <1>8, <1>9, <1>10 DEF Attempts

LEMMA EndingKeepsTypes ==
  ASSUME LoopIInv, Signal \/ AddTask \/ TaskDone \/ ShutdownSteps \/ MainReturns PROVE LoopIInv'
<1>1. UNCHANGED <<next, tick, retrying, circuit, healed>>
  BY DEF Signal, AddTask, TaskDone, ShutdownSteps, MainReturns, WaitEnds, FinalStateHook,
         DatabaseHook, ExitProcess
<1>2. /\ shutdown' \in {"running", "waiting", "final-state", "database", "exit", "exited"}
      /\ grace' \in 0 .. GracePeriod /\ tasks' \in 0 .. MaxTasks /\ db' \in {"open", "closed"}
  BY NodeAssumption DEF LoopIInv, LoopTypeOK, Signal, AddTask, TaskDone, ShutdownSteps, MainReturns,
         WaitEnds, FinalStateHook, DatabaseHook, ExitProcess
<1> QED
  BY <1>1, <1>2 DEF LoopIInv, LoopTypeOK, retrying, circuit

LEMMA SecondKeepsTypes == ASSUME LoopIInv, Second PROVE LoopIInv'
  BY NodeAssumption DEF LoopIInv, LoopTypeOK, Second, Down

\* The loop, the breaker and the shutdown are well typed: no delay is above its maximum
\* (RetryWithBackoff), and a closed breaker has counted fewer failures than would have
\* opened it (CircuitBreaker.Call).
THEOREM LoopTypes == LoopSpec => []LoopTypeOK
<1>1. LoopInit => LoopIInv
  <2> SUFFICES ASSUME LoopInit PROVE LoopIInv
    OBVIOUS
  <2>1. /\ BlockTime - 1 \in 0 .. BlockTime - 1 /\ 0 < MaxFailures /\ 0 \in 0 .. FailuresBound
        /\ 0 \in 0 .. HalfOpenMax /\ ResetTimeout + 1 \in 0 .. ResetTimeout + 1
        /\ 0 \in 0 .. MaxRetries /\ 0 \in 0 .. MaxDelay /\ 0 \in 0 .. GracePeriod /\ 0 \in 0 .. MaxTasks
    BY NodeAssumption
  <2> QED
    BY <2>1 DEF LoopInit, LoopIInv, LoopTypeOK
<1>2. LoopIInv /\ [LoopNext]_loopVars => LoopIInv'
  <2> SUFFICES ASSUME LoopIInv, [LoopNext]_loopVars PROVE LoopIInv'
    OBVIOUS
  <2>1. CASE Attempts
    BY <2>1, AttemptKeepsTypes
  <2>2. CASE Panic \/ Heal
    BY <2>2 DEF Panic, Heal, LoopIInv, LoopTypeOK, retrying, circuit, ending
  <2>3. CASE Second
    BY <2>3, SecondKeepsTypes
  <2>4. CASE Signal \/ AddTask \/ TaskDone \/ ShutdownSteps \/ MainReturns
    BY <2>4, EndingKeepsTypes
  <2>5. CASE UNCHANGED loopVars
    BY <2>5 DEF loopVars, LoopIInv, LoopTypeOK, retrying, circuit, ending
  <2> QED
    BY <2>1, <2>2, <2>3, <2>4, <2>5 DEF LoopNext, Steps
<1>3. LoopIInv => LoopTypeOK
  BY DEF LoopIInv
<1> QED
  BY <1>1, <1>2, <1>3, PTL DEF LoopSpec
=================================================================================
