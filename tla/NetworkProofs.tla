----------------------------- MODULE NetworkProofs -----------------------------
(***************************************************************************)
(* Proofs about the parts of the node that talk to peers: P2PNode, the     *)
(* synchroniser of Sync, and the tests of PoBTests.  Each is a system of   *)
(* its own, with its own variables, specification and inductive invariant; *)
(* the constants of one do not occur in what is proved of another.  The    *)
(* theorems hold for any peers, streams, transactions, heights, testers,   *)
(* limits and durations that satisfy the assumptions of the modules.       *)
(***************************************************************************)
EXTENDS P2PNode, Sync, PoBTests, FiniteSetTheorems, TLAPS

(***************************************************************************)
(* P2PNode: the gate and the mempool.                                      *)
(***************************************************************************)

ReadersOf(r, p) == {s \in Streams : r[s] = p}

\* The violations of a ban that runs leave room for one more of every stream that was let
\* in before it, and a limit that is not banned has not reached the most of them.
ViolationsCounted(p) ==
    limits[p] # None =>
      IF limits[p].banned
      THEN limits[p].violations + Cardinality(ReadersOf(reading, p))
             <= RequestViolations + Cardinality(Streams)
      ELSE limits[p].violations < RequestViolations

\* What a bucket would hold if it was refilled now.
Worth(l) == Lesser(Burst, l.tokens + l.idle * Refill)

\* The lazy bucket never holds more than the exact one.
Covered(p) == Worth(LimitOf(p)) <= budget[p]

\* A ban younger than ShortBan is remembered, and has at least the rest of it left.
BanKept(p) ==
    sinceBan[p] # None /\ sinceBan[p] < ShortBan =>
      /\ limits[p] # None /\ limits[p].banned
      /\ sinceBan[p] + limits[p].banLeft >= ShortBan

GateInv == \A p \in Peers : ViolationsCounted(p) /\ Covered(p) /\ BanKept(p)

GateIInv == GateTypeOK /\ GateInv

\* What was passed on and is pending is known, and pending for a cleanup that runs.
SentKnown(t) ==
    t \in pool /\ sent[t] > 0 => t \in known /\ (cleaning => t \in pending)

MempoolIInv == MempoolTypeOK /\ OncePerStay /\ \A t \in Txs : SentKnown(t)

NodeIInv == GateIInv /\ MempoolIInv

-----------------------------------------------------------------------------
(* Limits.                                                                 *)

LEMMA Product == ASSUME NEW a \in Nat, NEW b \in Nat
                 PROVE  a * b \in Nat /\ (a + 1) * b = a * b + b
  OBVIOUS

LEMMA StreamsFinite == IsFiniteSet(Streams) /\ Cardinality(Streams) \in Nat
  BY GateAssumption, FS_CardinalityType

LEMMA ReadersFinite ==
  ASSUME NEW r, NEW p
  PROVE  /\ IsFiniteSet(ReadersOf(r, p))
         /\ Cardinality(ReadersOf(r, p)) \in 0 .. Cardinality(Streams)
<1>1. IsFiniteSet(Streams) /\ ReadersOf(r, p) \in SUBSET Streams
  BY StreamsFinite DEF ReadersOf
<1> QED
  BY <1>1, FS_Subset, FS_CardinalityType

\* A stream that was read leaves one reader fewer of its peer.
LEMMA ReaderLeaves ==
  ASSUME NEW r \in [Streams -> Peers \cup {None}], NEW s \in Streams, r[s] # None,
         NEW q \in Peers
  PROVE  Cardinality(ReadersOf([r EXCEPT ![s] = None], q))
           = IF q = r[s] THEN Cardinality(ReadersOf(r, q)) - 1
                         ELSE Cardinality(ReadersOf(r, q))
<1> DEFINE r2 == [r EXCEPT ![s] = None]
<1>1. ReadersOf(r2, q) = ReadersOf(r, q) \ {s}
  BY NoneAssumption DEF ReadersOf
<1>2. s \in ReadersOf(r, q) <=> q = r[s]
  BY DEF ReadersOf
<1> QED
  BY <1>1, <1>2, ReadersFinite, FS_RemoveElement

LEMMA LimitOfType ==
  ASSUME GateTypeOK, NEW p \in Peers PROVE LimitOf(p) \in PeerLimit
<1>1. Cardinality(Streams) \in Nat
  BY StreamsFinite
<1>2. NewLimit \in PeerLimit
  BY <1>1, GateAssumption DEF NewLimit, PeerLimit
<1> QED
  BY <1>2 DEF LimitOf, GateTypeOK

\* What a request that is not turned away for a ban finds.
LEMMA AtRequest ==
  ASSUME GateIInv, NEW p \in Peers,
         ~(LimitOf(p).banned /\ LimitOf(p).banLeft > 0)
  PROVE  LET l == Refilled(Unbanned(LimitOf(p)))
         IN  /\ l \in PeerLimit /\ ~l.banned /\ l.violations < RequestViolations
             /\ l.idle = 0 /\ l.tokens <= budget[p]
             /\ sinceBan[p] \in {None, ShortBan}
<1> DEFINE old == LimitOf(p)
           u == Unbanned(old)
           l == Refilled(u)
<1>1. old \in PeerLimit
  BY LimitOfType DEF GateIInv
<1> HIDE DEF old
<1>2. u \in PeerLimit /\ ~u.banned /\ u.tokens = old.tokens /\ u.idle = old.idle
  <2>1. 0 \in 0 .. RequestViolations + Cardinality(Streams)
    BY GateAssumption, StreamsFinite
  <2>2. CASE old.banned
    BY <1>1, <2>1, <2>2 DEF Unbanned, PeerLimit
  <2>3. CASE ~old.banned
    BY <1>1, <2>3 DEF Unbanned
  <2> QED
    BY <2>2, <2>3
<1>3. u.violations < RequestViolations
  <2>1. CASE old.banned
    BY <2>1, <1>1, GateAssumption DEF Unbanned, PeerLimit
  <2>2. CASE ~old.banned
    <3>1. old.violations < RequestViolations
      BY <2>2, GateAssumption DEF old, LimitOf, NewLimit, GateIInv, GateInv, ViolationsCounted
    <3> QED
      BY <2>2, <3>1 DEF Unbanned
  <2> QED
    BY <2>1, <2>2
<1>4. u.tokens \in 0 .. Burst /\ u.idle \in Nat /\ Burst \in Nat /\ Refill \in Nat
  BY <1>2, GateAssumption DEF PeerLimit
<1>5. Worth(u) \in 0 .. Burst
  BY <1>4, Product DEF Worth, Lesser
<1>6. l = [u EXCEPT !.tokens = Worth(u), !.idle = 0]
  BY <1>2 DEF Refilled, Worth, PeerLimit
<1>7. l \in PeerLimit /\ l.banned = u.banned /\ l.violations = u.violations
      /\ l.idle = 0 /\ l.tokens = Worth(u)
  <2> HIDE DEF u, l
  <2>1. l.banned = u.banned /\ l.violations = u.violations /\ l.idle = 0
        /\ l.tokens = Worth(u)
    BY <1>2, <1>6 DEF PeerLimit
  <2>2. 0 \in 0 .. IdleLimit + 1
    BY GateAssumption
  <2>3. l \in PeerLimit
    BY <1>2, <1>5, <1>6, <2>2 DEF PeerLimit
  <2> QED
    BY <2>1, <2>3
<1>8. l.tokens <= budget[p]
  BY <1>2, <1>7 DEF old, Worth, GateIInv, GateInv, Covered
<1>9. sinceBan[p] \in {None, ShortBan}
  <2>1. SUFFICES ASSUME sinceBan[p] # None, sinceBan[p] < ShortBan PROVE FALSE
    BY GateAssumption DEF GateIInv, GateTypeOK
  <2>2. old.banned /\ sinceBan[p] + old.banLeft >= ShortBan
    BY <2>1 DEF old, GateIInv, GateInv, BanKept, LimitOf
  <2> QED
    BY <2>1, <2>2, <1>1, GateAssumption DEF old, PeerLimit, GateIInv, GateTypeOK
<1> QED
  BY <1>2, <1>3, <1>7, <1>8, <1>9 DEF old

-----------------------------------------------------------------------------
(* The steps of the gate.                                                  *)

\* The steps of the authentication leave the limits alone.
LEMMA AuthStep ==
  ASSUME GateIInv,
         \/ \E p \in Peers : GenerateChallenge(p) \/ RevokeAuthentication(p)
         \/ \E p \in Peers, n \in Nonces : CodeResponds(p, n) \/ PeerResponds(p, n)
         \/ CleanupExpired
  PROVE  GateIInv' /\ UNCHANGED <<limits, reading, budget, sinceBan>>
<1> USE DEF GateIInv, GateTypeOK
<1>1. UNCHANGED <<limits, reading, budget, sinceBan>>
  BY DEF GenerateChallenge, RevokeAuthentication, CodeResponds, PeerResponds,
         VerifyResponse, CleanupExpired
<1>2. GateInv'
  BY <1>1 DEF GateInv, ViolationsCounted, Covered, BanKept, LimitOf
<1>3. 0 \in 0 .. ChallengeTTL + 1 /\ 0 \in 0 .. AuthTimeout + 1
  BY GateAssumption
<1>4. GateTypeOK'
  <2>1. CASE \E p \in Peers : GenerateChallenge(p)
    <3>1. PICK p \in Peers : GenerateChallenge(p)
      BY <2>1
    <3>2. nonces' \in Nonces /\ nonces' \in 0 .. MaxChallenges
      BY <3>1, GateAssumption DEF GenerateChallenge, Nonces
    <3>3. [nonce |-> nonces', age |-> 0] \in Challenge
      BY <3>2, <1>3 DEF Challenge
    <3> QED
      BY <3>1, <3>2, <3>3, <1>1 DEF GenerateChallenge
  <2>2. CASE \E p \in Peers : RevokeAuthentication(p)
    BY <2>2, <1>1 DEF RevokeAuthentication
  <2>3. CASE \E p \in Peers, n \in Nonces : CodeResponds(p, n) \/ PeerResponds(p, n)
    <3>1. PICK p \in Peers, n \in Nonces :
            VerifyResponse(p, n, CodeSolution(p, n)) \/ VerifyResponse(p, n, SolveChallenge(p, n))
      BY <2>3 DEF CodeResponds, PeerResponds
    <3> QED
      BY <3>1, <1>1, <1>3 DEF VerifyResponse
  <2>4. CASE CleanupExpired
    BY <2>4, <1>1 DEF CleanupExpired
  <2> QED
    BY <2>1, <2>2, <2>3, <2>4
<1> QED
  BY <1>1, <1>2, <1>4

\* A step that replaces the limit of one peer, and lets no stream in.
LEMMA LimitStep ==
  ASSUME GateIInv, NEW p \in Peers, NEW v \in PeerLimit,
         UNCHANGED auth, limits' = [limits EXCEPT ![p] = v],
         reading' \in [Streams -> Peers \cup {None}],
         budget' \in [Peers -> Int], sinceBan' \in [Peers -> 0 .. ShortBan \cup {None}],
         \A q \in Peers \ {p} :
           /\ budget'[q] = budget[q] /\ sinceBan'[q] = sinceBan[q]
           /\ ReadersOf(reading', q) = ReadersOf(reading, q),
         IF v.banned
         THEN v.violations + Cardinality(ReadersOf(reading', p))
                <= RequestViolations + Cardinality(Streams)
         ELSE v.violations < RequestViolations,
         Worth(v) <= budget'[p],
         sinceBan'[p] # None /\ sinceBan'[p] < ShortBan =>
           v.banned /\ sinceBan'[p] + v.banLeft >= ShortBan
  PROVE  GateIInv'
<1>1. GateTypeOK'
  BY DEF GateIInv, GateTypeOK, auth
<1>2. limits'[p] = v /\ v # None /\ \A q \in Peers \ {p} : limits'[q] = limits[q]
  BY NoneAssumption DEF GateIInv, GateTypeOK
<1>3. ASSUME NEW q \in Peers, q # p
      PROVE  (ViolationsCounted(q) /\ Covered(q) /\ BanKept(q))'
  BY <1>2, <1>3 DEF GateIInv, GateInv, ViolationsCounted, Covered, BanKept, LimitOf
<1>4. (ViolationsCounted(p) /\ Covered(p) /\ BanKept(p))'
  BY <1>2 DEF ViolationsCounted, Covered, BanKept, LimitOf
<1> QED
  BY <1>1, <1>3, <1>4 DEF GateIInv, GateInv

LEMMA AllowRequestStep ==
  ASSUME GateIInv, NEW s \in Streams, NEW p \in Peers, AllowRequest(s, p)
  PROVE  GateIInv' /\ reading' = [reading EXCEPT ![s] = p]
         /\ sinceBan' = sinceBan /\ sinceBan[p] \in {None, ShortBan}
<1> DEFINE l == Refilled(Unbanned(LimitOf(p)))
           v == [l EXCEPT !.tokens = @ - 1]
<1>1. /\ reading[s] = None /\ l.tokens > 0
      /\ ~(LimitOf(p).banned /\ LimitOf(p).banLeft > 0)
      /\ limits' = [limits EXCEPT ![p] = v]
      /\ reading' = [reading EXCEPT ![s] = p]
      /\ budget' = [budget EXCEPT ![p] = @ - 1]
      /\ UNCHANGED <<auth, sinceBan>>
  BY DEF AllowRequest
<1>2. /\ l \in PeerLimit /\ ~l.banned /\ l.violations < RequestViolations
      /\ l.idle = 0 /\ l.tokens <= budget[p]
      /\ sinceBan[p] \in {None, ShortBan}
  BY <1>1, AtRequest
<1> HIDE DEF l
<1>3. v \in PeerLimit /\ ~v.banned /\ v.violations = l.violations
      /\ v.idle = 0 /\ v.tokens = l.tokens - 1 /\ v.tokens \in 0 .. Burst
  BY <1>1, <1>2, GateAssumption DEF PeerLimit
<1> HIDE DEF v
<1>4. budget' \in [Peers -> Int] /\ budget'[p] = budget[p] - 1
      /\ reading' \in [Streams -> Peers \cup {None}]
      /\ sinceBan' \in [Peers -> 0 .. ShortBan \cup {None}]
  BY <1>1 DEF GateIInv, GateTypeOK
<1>5. Worth(v) <= budget'[p]
  BY <1>1, <1>2, <1>3, <1>4, GateAssumption DEF Worth, Lesser, GateIInv, GateTypeOK, PeerLimit
<1>6. ASSUME NEW q \in Peers \ {p}
      PROVE  /\ budget'[q] = budget[q] /\ sinceBan'[q] = sinceBan[q]
             /\ ReadersOf(reading', q) = ReadersOf(reading, q)
  BY <1>1, <1>6, NoneAssumption DEF GateIInv, GateTypeOK, ReadersOf
<1>7. ~(sinceBan'[p] # None /\ sinceBan'[p] < ShortBan)
  BY <1>1, <1>2, GateAssumption
<1>8. GateIInv'
  BY <1>1, <1>2, <1>3, <1>4, <1>5, <1>6, <1>7, LimitStep
<1> QED
  BY <1>1, <1>2, <1>8

LEMMA RefuseRequestStep ==
  ASSUME GateIInv, NEW p \in Peers, RefuseRequest(p)
  PROVE  GateIInv' /\ reading' = reading
<1> DEFINE l == Refilled(Unbanned(LimitOf(p)))
           v == Violated(l, RequestViolations, LongBan)
<1>1. /\ ~(LimitOf(p).banned /\ LimitOf(p).banLeft > 0)
      /\ l.tokens = 0
      /\ limits' = [limits EXCEPT ![p] = v]
      /\ sinceBan' = IF v.banned THEN [sinceBan EXCEPT ![p] = 0] ELSE sinceBan
      /\ UNCHANGED <<auth, reading, budget>>
  BY DEF RefuseRequest, Imposes
<1>2. /\ l \in PeerLimit /\ ~l.banned /\ l.violations < RequestViolations
      /\ l.idle = 0 /\ l.tokens <= budget[p]
      /\ sinceBan[p] \in {None, ShortBan}
  BY <1>1, AtRequest
<1> HIDE DEF l
<1>3. /\ v \in PeerLimit /\ v.tokens = 0 /\ v.idle = 0
      /\ v.violations = l.violations + 1 /\ v.violations <= RequestViolations
      /\ v.banned => v.banLeft = LongBan
      /\ ~v.banned => v.violations < RequestViolations
  <2>1. l.violations + 1 \in 0 .. RequestViolations + Cardinality(Streams)
        /\ LongBan \in 0 .. LongBan
    BY <1>2, GateAssumption, StreamsFinite DEF PeerLimit
  <2>2. l.violations + 1 <= RequestViolations /\ RequestViolations \in Int
        /\ l.violations \in Int
    BY <1>2, GateAssumption DEF PeerLimit
  <2>3. CASE l.violations + 1 >= RequestViolations
    BY <1>1, <1>2, <2>1, <2>2, <2>3 DEF Violated, Banned, PeerLimit
  <2>4. CASE ~(l.violations + 1 >= RequestViolations)
    BY <1>1, <1>2, <2>1, <2>2, <2>4 DEF Violated, Banned, PeerLimit
  <2> QED
    BY <2>3, <2>4
<1> HIDE DEF v
<1>4. /\ budget' \in [Peers -> Int] /\ reading' \in [Streams -> Peers \cup {None}]
      /\ sinceBan' \in [Peers -> 0 .. ShortBan \cup {None}]
      /\ v.banned => sinceBan'[p] = 0
      /\ ~v.banned => sinceBan'[p] = sinceBan[p]
  <2>1. 0 \in 0 .. ShortBan
    BY GateAssumption
  <2> QED
    BY <1>1, <2>1 DEF GateIInv, GateTypeOK
<1>5. Worth(v) <= budget'[p]
  BY <1>1, <1>2, <1>3, <1>4, GateAssumption DEF Worth, Lesser
<1>6. ASSUME NEW q \in Peers \ {p}
      PROVE  /\ budget'[q] = budget[q] /\ sinceBan'[q] = sinceBan[q]
             /\ ReadersOf(reading', q) = ReadersOf(reading, q)
  BY <1>1, <1>6 DEF GateIInv, GateTypeOK
<1>7. sinceBan'[p] # None /\ sinceBan'[p] < ShortBan =>
        v.banned /\ sinceBan'[p] + v.banLeft >= ShortBan
  BY <1>2, <1>3, <1>4, GateAssumption
<1>8. IF v.banned
      THEN v.violations + Cardinality(ReadersOf(reading', p))
             <= RequestViolations + Cardinality(Streams)
      ELSE v.violations < RequestViolations
  <2>1. Cardinality(ReadersOf(reading', p)) \in 0 .. Cardinality(Streams)
    BY ReadersFinite
  <2> QED
    BY <1>2, <1>3, <2>1, StreamsFinite, GateAssumption DEF PeerLimit
<1>9. GateIInv'
  BY <1>1, <1>3, <1>4, <1>5, <1>6, <1>7, <1>8, LimitStep
<1> QED
  BY <1>1, <1>9

\* What a handler that has read its stream finds.
LEMMA AtBytes ==
  ASSUME GateIInv, NEW s \in Streams, reading[s] # None, limits[reading[s]] # None
  PROVE  LET p == reading[s]
             l == Counted(LimitOf(p))
         IN  /\ p \in Peers /\ l \in PeerLimit
             /\ l.banned = LimitOf(p).banned /\ l.violations = LimitOf(p).violations
             /\ l.banLeft = LimitOf(p).banLeft /\ Worth(l) = Worth(LimitOf(p))
             /\ LimitOf(p) = limits[p]
<1> DEFINE p == reading[s]
           old == LimitOf(p)
           l == Counted(old)
<1>1. p \in Peers /\ old = limits[p]
  BY DEF GateIInv, GateTypeOK, LimitOf
<1>2. old \in PeerLimit
  BY <1>1, LimitOfType DEF GateIInv
<1> HIDE DEF old
<1>3. 0 \in 0 .. MaxBytes
  BY GateAssumption
<1>4. l \in PeerLimit /\ l.banned = old.banned /\ l.violations = old.violations
      /\ l.banLeft = old.banLeft /\ l.tokens = old.tokens /\ l.idle = old.idle
  BY <1>2, <1>3 DEF Counted, PeerLimit
<1> QED
  BY <1>1, <1>4 DEF old, Worth

\* The readers after a stream was read.
LEMMA ReadersAfter ==
  ASSUME GateTypeOK, NEW s \in Streams, reading[s] # None,
         reading' = [reading EXCEPT ![s] = None], NEW q \in Peers
  PROVE  /\ reading' \in [Streams -> Peers \cup {None}]
         /\ Cardinality(ReadersOf(reading', q)) \in Nat
         /\ Cardinality(ReadersOf(reading, q)) \in Nat
         /\ Cardinality(ReadersOf(reading, q)) <= Cardinality(Streams)
         /\ q = reading[s] => Cardinality(ReadersOf(reading', q)) + 1
                                = Cardinality(ReadersOf(reading, q))
         /\ q # reading[s] => ReadersOf(reading', q) = ReadersOf(reading, q)
<1>1. reading \in [Streams -> Peers \cup {None}]
  BY DEF GateTypeOK
<1>2. q # reading[s] => ReadersOf(reading', q) = ReadersOf(reading, q)
  BY <1>1, NoneAssumption DEF ReadersOf
<1>3. /\ Cardinality(ReadersOf(reading', q)) \in 0 .. Cardinality(Streams)
      /\ Cardinality(ReadersOf(reading, q)) \in 0 .. Cardinality(Streams)
  BY ReadersFinite
<1>4. \A c \in 0 .. Cardinality(Streams) : c \in Nat /\ c <= Cardinality(Streams)
  BY StreamsFinite
<1>5. Cardinality(ReadersOf(reading', q))
        = IF q = reading[s] THEN Cardinality(ReadersOf(reading, q)) - 1
                            ELSE Cardinality(ReadersOf(reading, q))
  BY <1>1, ReaderLeaves
<1>6. /\ Cardinality(ReadersOf(reading', q)) \in Nat
      /\ Cardinality(ReadersOf(reading, q)) \in Nat
      /\ Cardinality(ReadersOf(reading, q)) <= Cardinality(Streams)
  BY <1>3, <1>4
<1> QED
  BY <1>1, <1>2, <1>5, <1>6

LEMMA AllowBytesStep ==
  ASSUME GateIInv, NEW s \in Streams, NEW n \in Sizes, AllowBytes(s, n)
  PROVE  GateIInv' /\ reading' = [reading EXCEPT ![s] = None]
<1> DEFINE p == reading[s]
           l == Counted(LimitOf(p))
           v == [l EXCEPT !.bytes = @ + n]
<1>1. /\ p # None /\ limits[p] # None /\ l.bytes + n <= MaxBytes
      /\ limits' = [limits EXCEPT ![p] = v]
      /\ reading' = [reading EXCEPT ![s] = None]
      /\ UNCHANGED <<auth, budget, sinceBan>>
  BY DEF AllowBytes
<1>2. /\ p \in Peers /\ l \in PeerLimit
      /\ l.banned = LimitOf(p).banned /\ l.violations = LimitOf(p).violations
      /\ l.banLeft = LimitOf(p).banLeft /\ Worth(l) = Worth(LimitOf(p))
      /\ LimitOf(p) = limits[p]
  BY <1>1, AtBytes
<1> HIDE DEF l
<1>3. l.bytes + n \in 0 .. MaxBytes
  BY <1>1, <1>2, GateAssumption DEF PeerLimit
<1>4. v \in PeerLimit /\ v.banned = l.banned /\ v.violations = l.violations
      /\ v.banLeft = l.banLeft /\ Worth(v) = Worth(l)
  BY <1>2, <1>3 DEF PeerLimit, Worth
<1> HIDE DEF v
<1>5. /\ reading' \in [Streams -> Peers \cup {None}]
      /\ \A q \in Peers \ {p} : ReadersOf(reading', q) = ReadersOf(reading, q)
      /\ Cardinality(ReadersOf(reading', p)) + 1 = Cardinality(ReadersOf(reading, p))
      /\ Cardinality(ReadersOf(reading', p)) \in Nat
      /\ Cardinality(ReadersOf(reading, p)) \in Nat
  BY <1>1, <1>2, ReadersAfter DEF GateIInv
<1>6. /\ budget' \in [Peers -> Int] /\ sinceBan' \in [Peers -> 0 .. ShortBan \cup {None}]
      /\ \A q \in Peers : budget'[q] = budget[q] /\ sinceBan'[q] = sinceBan[q]
  BY <1>1 DEF GateIInv, GateTypeOK
<1>7. /\ IF limits[p].banned
         THEN limits[p].violations + Cardinality(ReadersOf(reading, p))
                <= RequestViolations + Cardinality(Streams)
         ELSE limits[p].violations < RequestViolations
      /\ Worth(LimitOf(p)) <= budget[p]
      /\ sinceBan[p] # None /\ sinceBan[p] < ShortBan =>
           limits[p].banned /\ sinceBan[p] + limits[p].banLeft >= ShortBan
  BY <1>1, <1>2 DEF GateIInv, GateInv, ViolationsCounted, Covered, BanKept
<1>8. IF v.banned
      THEN v.violations + Cardinality(ReadersOf(reading', p))
             <= RequestViolations + Cardinality(Streams)
      ELSE v.violations < RequestViolations
  BY <1>2, <1>4, <1>5, <1>7, StreamsFinite, GateAssumption DEF PeerLimit
<1>9. GateIInv'
  <2>1. UNCHANGED auth /\ limits' = [limits EXCEPT ![p] = v]
    BY <1>1
  <2>2. Worth(v) <= budget'[p]
    BY <1>2, <1>4, <1>6, <1>7
  <2>3. sinceBan'[p] # None /\ sinceBan'[p] < ShortBan =>
          v.banned /\ sinceBan'[p] + v.banLeft >= ShortBan
    BY <1>2, <1>4, <1>6, <1>7
  <2> HIDE DEF p
  <2> QED
    BY <1>2, <1>4, <1>5, <1>6, <1>8, <2>1, <2>2, <2>3, LimitStep
<1> QED
  BY <1>1, <1>9

\* A step in which a stream is given up changes nothing but the readers.
LEMMA ReadFailsStep ==
  ASSUME GateIInv, NEW s \in Streams, reading[s] # None,
         reading' = [reading EXCEPT ![s] = None],
         UNCHANGED <<auth, limits, budget, sinceBan>>
  PROVE  GateIInv'
<1>1. reading' \in [Streams -> Peers \cup {None}]
  BY DEF GateIInv, GateTypeOK
<1>2. GateTypeOK'
  BY <1>1 DEF GateIInv, GateTypeOK, auth
<1>3. ASSUME NEW q \in Peers PROVE (Covered(q) /\ BanKept(q))'
  BY DEF GateIInv, GateInv, Covered, BanKept, LimitOf
<1>4. ASSUME NEW q \in Peers PROVE ViolationsCounted(q)'
  <2>1. SUFFICES ASSUME limits[q] # None, limits[q].banned
        PROVE  limits[q].violations + Cardinality(ReadersOf(reading', q))
                 <= RequestViolations + Cardinality(Streams)
    BY DEF GateIInv, GateInv, ViolationsCounted
  <2>2. limits[q].violations + Cardinality(ReadersOf(reading, q))
          <= RequestViolations + Cardinality(Streams)
        /\ limits[q].violations \in Int
    BY <2>1 DEF GateIInv, GateInv, GateTypeOK, PeerLimit, ViolationsCounted
  <2>3. /\ Cardinality(ReadersOf(reading', q)) <= Cardinality(ReadersOf(reading, q))
        /\ Cardinality(ReadersOf(reading', q)) \in Int
        /\ Cardinality(ReadersOf(reading, q)) \in Int
    <3>1. /\ Cardinality(ReadersOf(reading', q)) \in Nat
          /\ Cardinality(ReadersOf(reading, q)) \in Nat
          /\ q = reading[s] => Cardinality(ReadersOf(reading', q)) + 1
                                 = Cardinality(ReadersOf(reading, q))
          /\ q # reading[s] => ReadersOf(reading', q) = ReadersOf(reading, q)
      BY ReadersAfter DEF GateIInv
    <3>2. CASE q = reading[s]
      BY <3>1, <3>2
    <3>3. CASE q # reading[s]
      BY <3>1, <3>3
    <3> QED
      BY <3>2, <3>3
  <2>4. RequestViolations + Cardinality(Streams) \in Int
    BY StreamsFinite, GateAssumption
  <2> QED
    BY <2>2, <2>3, <2>4
<1> QED
  BY <1>2, <1>3, <1>4 DEF GateIInv, GateInv

LEMMA RefuseBytesStep ==
  ASSUME GateIInv, NEW s \in Streams, NEW n \in Sizes, RefuseBytes(s, n)
  PROVE  GateIInv' /\ reading' = [reading EXCEPT ![s] = None]
<1> DEFINE p == reading[s]
           l == Counted(LimitOf(p))
           v == Violated(l, ByteViolations, ShortBan)
<1>1. p # None /\ reading' = [reading EXCEPT ![s] = None] /\ UNCHANGED <<auth, budget>>
  BY DEF RefuseBytes
<1>2. CASE UNCHANGED <<limits, sinceBan>>
  <2>1. UNCHANGED <<auth, limits, budget, sinceBan>> /\ reading[s] # None
    BY <1>1, <1>2
  <2> HIDE DEF p, l, v
  <2> QED
    BY <1>1, <2>1, ReadFailsStep
<1>3. CASE /\ limits[p] # None /\ limits' = [limits EXCEPT ![p] = v]
           /\ Imposes(p, v.violations >= ByteViolations)
  <2>1. /\ p \in Peers /\ l \in PeerLimit
        /\ l.banned = LimitOf(p).banned /\ l.violations = LimitOf(p).violations
        /\ l.banLeft = LimitOf(p).banLeft /\ Worth(l) = Worth(LimitOf(p))
        /\ LimitOf(p) = limits[p]
    BY <1>1, <1>3, AtBytes
  <2>2. /\ IF l.banned
           THEN l.violations + Cardinality(ReadersOf(reading, p))
                  <= RequestViolations + Cardinality(Streams)
           ELSE l.violations < RequestViolations
        /\ Worth(l) <= budget[p]
        /\ sinceBan[p] # None /\ sinceBan[p] < ShortBan =>
             l.banned /\ sinceBan[p] + l.banLeft >= ShortBan
    BY <1>3, <2>1 DEF GateIInv, GateInv, ViolationsCounted, Covered, BanKept
  <2>3. /\ reading' \in [Streams -> Peers \cup {None}]
        /\ \A q \in Peers \ {p} : ReadersOf(reading', q) = ReadersOf(reading, q)
        /\ Cardinality(ReadersOf(reading', p)) + 1 = Cardinality(ReadersOf(reading, p))
        /\ Cardinality(ReadersOf(reading', p)) \in Nat
        /\ Cardinality(ReadersOf(reading, p)) \in Nat
        /\ Cardinality(ReadersOf(reading, p)) <= Cardinality(Streams)
    BY <1>1, <2>1, ReadersAfter DEF GateIInv
  <2> HIDE DEF l
  <2>4. /\ l.violations + 1 \in 0 .. RequestViolations + Cardinality(Streams)
        /\ l.violations + 1 + Cardinality(ReadersOf(reading', p))
             <= RequestViolations + Cardinality(Streams)
    BY <2>1, <2>2, <2>3, StreamsFinite, GateAssumption DEF PeerLimit
  <2>5. /\ v \in PeerLimit /\ v.violations = l.violations + 1 /\ Worth(v) = Worth(l)
        /\ v.violations >= ByteViolations => v.banned /\ v.banLeft = ShortBan
        /\ ~(v.violations >= ByteViolations) => v.banned = l.banned /\ v.banLeft = l.banLeft
    <3>1. ShortBan \in 0 .. LongBan
      BY GateAssumption
    <3>2. CASE l.violations + 1 >= ByteViolations
      BY <2>1, <2>4, <3>1, <3>2 DEF Violated, Banned, PeerLimit, Worth
    <3>3. CASE ~(l.violations + 1 >= ByteViolations)
      BY <2>1, <2>4, <3>1, <3>3 DEF Violated, Banned, PeerLimit, Worth
    <3> QED
      BY <3>2, <3>3
  <2> HIDE DEF v
  <2>6. /\ budget' \in [Peers -> Int] /\ sinceBan' \in [Peers -> 0 .. ShortBan \cup {None}]
        /\ \A q \in Peers : budget'[q] = budget[q]
        /\ \A q \in Peers \ {p} : sinceBan'[q] = sinceBan[q]
        /\ v.violations >= ByteViolations => sinceBan'[p] = 0
        /\ ~(v.violations >= ByteViolations) => sinceBan'[p] = sinceBan[p]
    <3>1. 0 \in 0 .. ShortBan
      BY GateAssumption
    <3> QED
      BY <1>1, <1>3, <2>1, <3>1 DEF Imposes, GateIInv, GateTypeOK
  <2>7. IF v.banned
        THEN v.violations + Cardinality(ReadersOf(reading', p))
               <= RequestViolations + Cardinality(Streams)
        ELSE v.violations < RequestViolations
    BY <2>1, <2>4, <2>5, GateAssumption DEF PeerLimit
  <2>8. sinceBan'[p] # None /\ sinceBan'[p] < ShortBan =>
          v.banned /\ sinceBan'[p] + v.banLeft >= ShortBan
    BY <2>2, <2>5, <2>6, GateAssumption
  <2>9. Worth(v) <= budget'[p]
    BY <2>1, <2>2, <2>5, <2>6
  <2>10. UNCHANGED auth /\ limits' = [limits EXCEPT ![p] = v]
    BY <1>1, <1>3
  <2> HIDE DEF p
  <2> QED
    BY <1>1, <2>1, <2>3, <2>5, <2>6, <2>7, <2>8, <2>9, <2>10, LimitStep
<1> QED
  BY <1>1, <1>2, <1>3 DEF RefuseBytes

LEMMA ProductGrows ==
  ASSUME NEW a \in Nat, NEW b \in Nat, NEW c \in Nat, a <= b
  PROVE  a * c <= b * c
<1>1. PICK d \in Nat : b = a + d
  <2>1. b - a \in Nat /\ b = a + (b - a)
    OBVIOUS
  <2> QED
    BY <2>1
<1>2. (a + d) * c = a * c + d * c /\ d * c \in Nat /\ a * c \in Nat
  OBVIOUS
<1> QED
  BY <1>1, <1>2

\* A new limit is worth the burst, and so is one that is forgotten.
LEMMA NewWorth ==
  /\ Worth(NewLimit) = Burst
  /\ \A l \in PeerLimit : l.idle > IdleLimit => Worth(l) = Burst
<1>1. Burst \in Nat /\ Refill \in Nat /\ IdleLimit \in Nat /\ Burst <= Refill * IdleLimit
  BY GateAssumption
<1>2. Worth(NewLimit) = Burst
  BY <1>1 DEF Worth, NewLimit, Lesser
<1>3. ASSUME NEW l \in PeerLimit, l.idle > IdleLimit
      PROVE  Worth(l) = Burst
  <2>1. l.tokens \in 0 .. Burst /\ l.idle \in Nat /\ IdleLimit <= l.idle
    BY <1>1, <1>3 DEF PeerLimit
  <2>2. IdleLimit * Refill <= l.idle * Refill
    BY <1>1, <2>1, ProductGrows
  <2>3. l.idle * Refill \in Nat /\ IdleLimit * Refill = Refill * IdleLimit
    BY <1>1, <2>1
  <2>4. l.idle * Refill >= Burst
    BY <1>1, <2>2, <2>3
  <2> QED
    BY <1>1, <2>1, <2>3, <2>4 DEF Worth, Lesser
<1> QED
  BY <1>2, <1>3

LEMMA CleanupOldLimitsStep ==
  ASSUME GateIInv, CleanupOldLimits PROVE GateIInv' /\ reading' = reading
<1>1. UNCHANGED <<auth, reading, budget, sinceBan>>
  BY DEF CleanupOldLimits
<1>2. ASSUME NEW q \in Peers
      PROVE  \/ limits'[q] = limits[q]
             \/ limits'[q] = None /\ limits[q] \in PeerLimit
                /\ ~limits[q].banned /\ limits[q].idle > IdleLimit
  BY DEF CleanupOldLimits, Forgotten, GateIInv, GateTypeOK
<1>3. limits' \in [Peers -> PeerLimit \cup {None}]
  BY DEF CleanupOldLimits, GateIInv, GateTypeOK
<1>4. GateTypeOK'
  BY <1>1, <1>3 DEF GateIInv, GateTypeOK, auth
<1>5. ASSUME NEW q \in Peers
      PROVE  (ViolationsCounted(q) /\ Covered(q) /\ BanKept(q))'
  <2>1. ViolationsCounted(q) /\ Covered(q) /\ BanKept(q)
    BY DEF GateIInv, GateInv
  <2>2. CASE limits'[q] = limits[q]
    BY <1>1, <2>1, <2>2 DEF ViolationsCounted, Covered, BanKept, LimitOf
  <2>3. CASE limits'[q] = None /\ limits[q] \in PeerLimit
             /\ ~limits[q].banned /\ limits[q].idle > IdleLimit
    <3>1. limits[q] # None
      BY <2>3, NoneAssumption
    <3>2. Worth(NewLimit) = Worth(LimitOf(q))
      BY <2>3, <3>1, NewWorth DEF LimitOf
    <3> QED
      BY <1>1, <2>1, <2>3, <3>1, <3>2 DEF ViolationsCounted, Covered, BanKept, LimitOf
  <2> QED
    BY <1>2, <2>2, <2>3
<1> QED
  BY <1>1, <1>4, <1>5 DEF GateIInv, GateInv

LEMMA TickStep == ASSUME GateIInv, Tick PROVE GateIInv' /\ reading' = reading
<1> DEFINE Aged(l) == [l EXCEPT !.idle = Older(@, IdleLimit + 1), !.newSecond = TRUE,
                                !.banLeft = IF @ > 0 THEN @ - 1 ELSE 0]
<1>1. /\ limits' = [q \in Peers |-> IF limits[q] = None THEN None ELSE Aged(limits[q])]
      /\ budget' = [q \in Peers |-> Lesser(Burst, budget[q] + Refill)]
      /\ sinceBan' = [q \in Peers |-> Older(sinceBan[q], ShortBan)]
      /\ reading' = reading
  BY DEF Tick
<1>2. Burst \in Nat /\ Refill \in Nat /\ IdleLimit \in Nat /\ ShortBan \in Nat
  BY GateAssumption
<1>3. ASSUME NEW l \in PeerLimit
      PROVE  /\ Aged(l) \in PeerLimit /\ Aged(l) # None
             /\ Aged(l).banned = l.banned /\ Aged(l).violations = l.violations
             /\ Aged(l).banLeft >= l.banLeft - 1
             /\ Worth(Aged(l)) <= Burst /\ Worth(Aged(l)) <= Worth(l) + Refill
             /\ Worth(Aged(l)) \in Int /\ Worth(l) \in Int
  <2>1. /\ l.tokens \in 0 .. Burst /\ l.idle \in 0 .. IdleLimit + 1 /\ l.idle # None
        /\ l.banLeft \in 0 .. LongBan /\ LongBan \in Nat
    BY GateAssumption, NoneAssumption DEF PeerLimit
  <2> DEFINE i == Lesser(l.idle + 1, IdleLimit + 1)
             b == IF l.banLeft > 0 THEN l.banLeft - 1 ELSE 0
  <2>2. i \in 0 .. IdleLimit + 1 /\ i <= l.idle + 1 /\ b \in 0 .. LongBan /\ b >= l.banLeft - 1
    BY <1>2, <2>1 DEF Lesser
  <2>3. Aged(l) = [l EXCEPT !.idle = i, !.newSecond = TRUE, !.banLeft = b]
    BY <2>1 DEF Older, PeerLimit
  <2> HIDE DEF i, b, Aged
  <2>4. /\ Aged(l) \in PeerLimit
        /\ Aged(l).banned = l.banned /\ Aged(l).violations = l.violations
        /\ Aged(l).banLeft = b /\ Aged(l).tokens = l.tokens /\ Aged(l).idle = i
    BY <2>2, <2>3 DEF PeerLimit
  <2>5. i * Refill <= (l.idle + 1) * Refill /\ (l.idle + 1) * Refill = l.idle * Refill + Refill
        /\ i * Refill \in Nat /\ l.idle * Refill \in Nat
    BY <1>2, <2>1, <2>2, Product, ProductGrows
  <2>6. Worth(Aged(l)) <= Burst /\ Worth(Aged(l)) <= Worth(l) + Refill
        /\ Worth(Aged(l)) \in Int /\ Worth(l) \in Int
    BY <1>2, <2>1, <2>4, <2>5 DEF Worth, Lesser
  <2> QED
    BY <2>2, <2>4, <2>6, NoneAssumption
<1> HIDE DEF Aged
<1>4. GateTypeOK'
  <2>1. challenges' \in [Peers -> Challenge \cup {None}]
    <3>1. ASSUME NEW c \in Challenge
          PROVE  [c EXCEPT !.age = Older(@, AuthTimeout + 1)] \in Challenge
      <4>1. c.age \in 0 .. AuthTimeout + 1 /\ c.age # None /\ AuthTimeout \in Nat
        BY GateAssumption, NoneAssumption DEF Challenge
      <4>2. Older(c.age, AuthTimeout + 1) \in 0 .. AuthTimeout + 1
        BY <4>1 DEF Older, Lesser
      <4> QED
        BY <4>2 DEF Challenge
    <3> QED
      BY <3>1 DEF Tick, GateIInv, GateTypeOK
  <2>2. \A n \in Nat : \A a \in 0 .. n \cup {None} : Older(a, n) \in 0 .. n \cup {None}
    BY NoneAssumption DEF Older, Lesser
  <2>3. authenticated' \in [Peers -> 0 .. ChallengeTTL + 1 \cup {None}]
    <3>1. ChallengeTTL + 1 \in Nat
      BY GateAssumption
    <3> QED
      BY <2>2, <3>1 DEF Tick, GateIInv, GateTypeOK
  <2>4. sinceBan' \in [Peers -> 0 .. ShortBan \cup {None}]
    BY <1>1, <1>2, <2>2 DEF GateIInv, GateTypeOK
  <2>5. budget' \in [Peers -> Int]
    BY <1>1, <1>2 DEF Lesser, GateIInv, GateTypeOK
  <2>6. limits' \in [Peers -> PeerLimit \cup {None}]
    BY <1>1, <1>3 DEF GateIInv, GateTypeOK
  <2> QED
    BY <2>1, <2>3, <2>4, <2>5, <2>6 DEF Tick, GateIInv, GateTypeOK
<1>5. ASSUME NEW q \in Peers
      PROVE  (ViolationsCounted(q) /\ Covered(q) /\ BanKept(q))'
  <2>1. ViolationsCounted(q) /\ Covered(q) /\ BanKept(q) /\ budget[q] \in Int
    BY DEF GateIInv, GateInv, GateTypeOK
  <2>2. /\ budget'[q] = Lesser(Burst, budget[q] + Refill)
        /\ sinceBan'[q] = Older(sinceBan[q], ShortBan)
    BY <1>1
  <2>3. CASE limits[q] = None
    <3>1. limits'[q] = None /\ LimitOf(q) = NewLimit /\ LimitOf(q)' = NewLimit
      BY <1>1, <2>3 DEF LimitOf
    <3>2. Burst <= budget[q]
      BY <2>1, <3>1, NewWorth DEF Covered
    <3>3. budget'[q] = Burst
      BY <1>2, <2>1, <2>2, <3>2 DEF Lesser
    <3>4. Covered(q)'
      BY <1>2, <3>1, <3>3, NewWorth DEF Covered
    <3>5. ~(sinceBan'[q] # None /\ sinceBan'[q] < ShortBan)
      BY <1>2, <2>1, <2>2, <2>3, NoneAssumption
         DEF BanKept, Older, Lesser, GateIInv, GateTypeOK
    <3> QED
      BY <3>1, <3>4, <3>5 DEF ViolationsCounted, BanKept
  <2>4. CASE limits[q] # None
    <3> DEFINE l == limits[q]
    <3>1. l \in PeerLimit /\ limits'[q] = Aged(l) /\ LimitOf(q) = l
      BY <1>1, <2>4 DEF GateIInv, GateTypeOK, LimitOf
    <3>2. /\ Aged(l) \in PeerLimit /\ Aged(l) # None
          /\ Aged(l).banned = l.banned /\ Aged(l).violations = l.violations
          /\ Aged(l).banLeft >= l.banLeft - 1
          /\ Worth(Aged(l)) <= Burst /\ Worth(Aged(l)) <= Worth(l) + Refill
          /\ Worth(Aged(l)) \in Int /\ Worth(l) \in Int
      BY <3>1, <1>3
    <3>3. LimitOf(q)' = Aged(l)
      BY <3>1, <3>2 DEF LimitOf
    <3>4. ViolationsCounted(q)'
      BY <1>1, <2>1, <2>4, <3>1, <3>2 DEF ViolationsCounted
    <3>5. Covered(q)'
      <4>1. Worth(l) <= budget[q]
        BY <2>1, <3>1 DEF Covered
      <4>2. Worth(Aged(l)) <= budget'[q]
        BY <1>2, <2>1, <2>2, <3>2, <4>1 DEF Lesser
      <4> QED
        BY <3>3, <4>2 DEF Covered
    <3>6. BanKept(q)'
      <4>1. SUFFICES ASSUME sinceBan'[q] # None, sinceBan'[q] < ShortBan
            PROVE  Aged(l).banned /\ sinceBan'[q] + Aged(l).banLeft >= ShortBan
        BY <3>1, <3>2 DEF BanKept
      <4>2. sinceBan[q] \in 0 .. ShortBan /\ sinceBan[q] < ShortBan
            /\ sinceBan'[q] = sinceBan[q] + 1
        BY <1>2, <2>2, <4>1, NoneAssumption DEF Older, Lesser, GateIInv, GateTypeOK
      <4>3. l.banned /\ sinceBan[q] + l.banLeft >= ShortBan
        BY <2>1, <4>2, NoneAssumption DEF BanKept
      <4>4. l.banLeft \in Int /\ Aged(l).banLeft \in Int
        BY <3>1, <3>2, GateAssumption DEF PeerLimit
      <4> QED
        BY <1>2, <3>2, <4>2, <4>3, <4>4
    <3> QED
      BY <3>4, <3>5, <3>6
  <2> QED
    BY <2>3, <2>4
<1> QED
  BY <1>1, <1>4, <1>5 DEF GateIInv, GateInv

-----------------------------------------------------------------------------
(* The steps of the mempool.                                               *)

\* Of a transaction that is added, what was sent counts anew unless it is pending.
LEMMA AddTransactionStep ==
  ASSUME MempoolIInv, NEW t \in Txs, AddTransaction(t),
         known \subseteq known' /\ known' \subseteq Txs,
         fetching' \in [Fetchers -> Txs \cup {NoTx}],
         requested' \subseteq {f \in Fetchers : fetching'[f] # NoTx},
         UNCHANGED <<toSend, cleaning, pending>>
  PROVE  MempoolIInv'
<1>1. pool' = pool \cup {t} /\ sent' = IF t \in pool THEN sent ELSE [sent EXCEPT ![t] = 0]
  BY DEF AddTransaction
<1>2. MempoolTypeOK'
  BY <1>1 DEF MempoolIInv, MempoolTypeOK
<1>3. ASSUME NEW u \in Txs PROVE sent'[u] <= 1 /\ SentKnown(u)'
  <2>1. sent[u] <= 1 /\ SentKnown(u)
    BY DEF MempoolIInv, OncePerStay
  <2>2. CASE u = t /\ t \notin pool
    BY <1>1, <2>2 DEF SentKnown, MempoolIInv, MempoolTypeOK
  <2>3. CASE u # t \/ t \in pool
    <3>1. sent'[u] = sent[u] /\ (u \in pool' => u \in pool)
      BY <1>1, <2>3 DEF MempoolIInv, MempoolTypeOK
    <3> QED
      BY <2>1, <3>1 DEF SentKnown
  <2> QED
    BY <2>2, <2>3
<1> QED
  BY <1>2, <1>3 DEF MempoolIInv, OncePerStay

LEMMA MempoolStep ==
  ASSUME MempoolIInv, MempoolNext PROVE MempoolIInv'
<1> USE DEF MempoolIInv, MempoolTypeOK
<1>1. ASSUME NEW t \in Txs, RemoveTransaction(t) PROVE MempoolIInv'
  BY <1>1 DEF RemoveTransaction, OncePerStay, SentKnown
<1>2. ASSUME NEW t \in Txs, HandleTxResponse(t) PROVE MempoolIInv'
  <2>1. /\ AddTransaction(t) /\ known' = known \cup {t}
        /\ UNCHANGED <<fetching, requested, toSend, cleaning, pending>>
    BY <1>2 DEF HandleTxResponse, Mark
  <2> QED
    BY <2>1, AddTransactionStep
<1>3. ASSUME NEW t \in Txs, SkipKnown(t) PROVE MempoolIInv'
  BY <1>3 DEF SkipKnown, OncePerStay, SentKnown
<1>4. ASSUME NEW t \in Txs, SendUnknown(t) PROVE MempoolIInv'
  <2>1. /\ t \notin known /\ ~cleaning /\ known' = known \cup {t}
        /\ toSend' = toSend \ {t}
        /\ sent' = IF t \in pool THEN [sent EXCEPT ![t] = @ + 1] ELSE sent
        /\ UNCHANGED <<pool, fetching, requested, cleaning, pending>>
    BY <1>4 DEF SendUnknown, Mark
  <2>2. MempoolTypeOK'
    BY <2>1
  <2>3. ASSUME NEW u \in Txs PROVE sent'[u] <= 1 /\ SentKnown(u)'
    <3>1. sent[u] <= 1 /\ SentKnown(u) /\ sent[u] \in Nat
      BY DEF OncePerStay
    <3>2. CASE u = t /\ t \in pool
      <4>1. sent[t] = 0
        BY <2>1, <3>1, <3>2 DEF SentKnown
      <4> QED
        BY <2>1, <3>2, <4>1 DEF SentKnown
    <3>3. CASE u # t \/ t \notin pool
      <4>1. sent'[u] = sent[u]
        BY <2>1, <3>3
      <4> QED
        BY <2>1, <3>1, <4>1 DEF SentKnown
    <3> QED
      BY <3>2, <3>3
  <2> QED
    BY <2>2, <2>3 DEF OncePerStay
<1>5. ASSUME NEW t \in Txs, NEW f \in Fetchers, Announce(f, t) PROVE MempoolIInv'
  <2>1. /\ fetching[f] = NoTx /\ known' = known \cup {t}
        /\ fetching' = [fetching EXCEPT ![f] = t]
        /\ UNCHANGED <<pool, requested, toSend, cleaning, pending, sent>>
    BY <1>5 DEF Announce, Mark
  <2>2. MempoolTypeOK'
    BY <2>1, MempoolAssumption
  <2> QED
    BY <2>1, <2>2 DEF OncePerStay, SentKnown
<1>6. ASSUME NEW f \in Fetchers, FoundPending(f) PROVE MempoolIInv'
  BY <1>6 DEF FoundPending, OncePerStay, SentKnown
<1>7. ASSUME NEW f \in Fetchers, Request(f) PROVE MempoolIInv'
  BY <1>7, MempoolAssumption DEF Request, OncePerStay, SentKnown
<1>8. ASSUME NEW f \in Fetchers, Fetched(f) PROVE MempoolIInv'
  <2>1. /\ AddTransaction(fetching[f]) /\ fetching[f] \in Txs
        /\ fetching' = [fetching EXCEPT ![f] = NoTx] /\ requested' = requested \ {f}
        /\ UNCHANGED <<known, toSend, cleaning, pending>>
    BY <1>8 DEF Fetched
  <2>2. requested' \subseteq {g \in Fetchers : fetching'[g] # NoTx}
        /\ fetching' \in [Fetchers -> Txs \cup {NoTx}]
    BY <2>1
  <2> QED
    BY <2>1, <2>2, AddTransactionStep
<1>9. ASSUME NEW f \in Fetchers, FetchFails(f) PROVE MempoolIInv'
  BY <1>9 DEF FetchFails, OncePerStay, SentKnown
<1>10. CASE PerformSync
  BY <1>10 DEF PerformSync, OncePerStay, SentKnown
<1>11. CASE StartCleanup
  BY <1>11 DEF StartCleanup, OncePerStay, SentKnown
<1>12. CASE CleanupOldKnownTxs
  BY <1>12 DEF CleanupOldKnownTxs, StillKnown, OncePerStay, SentKnown
<1> QED
  BY <1>1, <1>2, <1>3, <1>4, <1>5, <1>6, <1>7, <1>8, <1>9, <1>10, <1>11, <1>12
     DEF MempoolNext

-----------------------------------------------------------------------------
(* The node.                                                               *)

\* A stream that is let in belongs to a peer with no ban younger than ShortBan.
LetInUnbanned ==
    \A s \in Streams : reading'[s] # None /\ reading[s] = None
      => sinceBan[reading'[s]] \in {None, ShortBan}

LEMMA GateStep ==
  ASSUME GateIInv, GateNext PROVE GateIInv' /\ LetInUnbanned
<1>1. CASE \/ \E p \in Peers : GenerateChallenge(p) \/ RevokeAuthentication(p)
           \/ \E p \in Peers, n \in Nonces : CodeResponds(p, n) \/ PeerResponds(p, n)
           \/ CleanupExpired
  BY <1>1, AuthStep DEF LetInUnbanned
<1>2. ASSUME NEW s \in Streams, NEW p \in Peers, AllowRequest(s, p)
      PROVE  GateIInv' /\ LetInUnbanned
  BY <1>2, AllowRequestStep DEF LetInUnbanned, GateIInv, GateTypeOK
<1>3. ASSUME NEW p \in Peers, RefuseRequest(p) PROVE GateIInv' /\ LetInUnbanned
  BY <1>3, RefuseRequestStep DEF LetInUnbanned
<1>4. ASSUME NEW s \in Streams, NEW n \in Sizes, RefuseBytes(s, n)
      PROVE  GateIInv' /\ LetInUnbanned
  BY <1>4, RefuseBytesStep DEF LetInUnbanned, GateIInv, GateTypeOK
<1>5. ASSUME NEW s \in Streams, ReadFails(s) PROVE GateIInv' /\ LetInUnbanned
  <2>1. /\ reading[s] # None /\ reading' = [reading EXCEPT ![s] = None]
        /\ UNCHANGED <<auth, limits, budget, sinceBan>>
    BY <1>5 DEF ReadFails
  <2> QED
    BY <2>1, ReadFailsStep DEF LetInUnbanned, GateIInv, GateTypeOK
<1>6. CASE CleanupOldLimits
  BY <1>6, CleanupOldLimitsStep DEF LetInUnbanned
<1>7. CASE Tick
  BY <1>7, TickStep DEF LetInUnbanned
<1> QED
  BY <1>1, <1>2, <1>3, <1>4, <1>5, <1>6, <1>7 DEF GateNext

LEMMA InitNodeIInv == Init => NodeIInv
<1> SUFFICES ASSUME Init PROVE NodeIInv
  OBVIOUS
<1>1. GateTypeOK
  <2>1. 0 \in 0 .. MaxChallenges /\ Burst \in Int
    BY GateAssumption
  <2> QED
    BY <2>1 DEF Init, GateInit, GateTypeOK
<1>2. ASSUME NEW p \in Peers PROVE ViolationsCounted(p) /\ Covered(p) /\ BanKept(p)
  <2>1. limits[p] = None /\ sinceBan[p] = None /\ budget[p] = Burst
    BY DEF Init, GateInit
  <2>2. Covered(p)
    BY <2>1, NewWorth, GateAssumption DEF Covered, LimitOf
  <2> QED
    BY <2>1, <2>2 DEF ViolationsCounted, BanKept
<1>3. MempoolIInv
  <2> USE DEF Init, MempoolInit
  <2>1. MempoolTypeOK
    BY DEF MempoolTypeOK
  <2>2. OncePerStay /\ \A t \in Txs : SentKnown(t)
    BY DEF OncePerStay, SentKnown
  <2> QED
    BY <2>1, <2>2 DEF MempoolIInv
<1> QED
  BY <1>1, <1>2, <1>3 DEF NodeIInv, GateIInv, GateInv

LEMMA NextNodeIInv == NodeIInv /\ [Next]_vars => NodeIInv' /\ (LetInUnbanned \/ UNCHANGED gate)
<1> SUFFICES ASSUME NodeIInv, [Next]_vars
             PROVE  NodeIInv' /\ (LetInUnbanned \/ UNCHANGED gate)
  OBVIOUS
<1>1. GateIInv /\ MempoolIInv
  BY DEF NodeIInv
<1>2. ASSUME UNCHANGED gate PROVE GateIInv'
  BY <1>1, <1>2 DEF gate, auth, GateIInv, GateTypeOK, GateInv, ViolationsCounted,
                    Covered, BanKept, LimitOf
<1>3. ASSUME UNCHANGED mempool PROVE MempoolIInv'
  BY <1>1, <1>3 DEF mempool, MempoolIInv, MempoolTypeOK, OncePerStay, SentKnown
<1>4. ASSUME NEW s \in Streams, \E n \in Sizes : AllowBytes(s, n)
      PROVE  GateIInv' /\ LetInUnbanned
  BY <1>1, <1>4, AllowBytesStep DEF LetInUnbanned, GateIInv, GateTypeOK
<1>5. ASSUME NEW t \in Txs, AddTransaction(t),
             UNCHANGED <<known, fetching, requested, toSend, cleaning, pending>>
      PROVE  MempoolIInv'
  BY <1>1, <1>5, AddTransactionStep DEF MempoolIInv, MempoolTypeOK
<1>6. CASE \E s \in Streams : OtherDelivered(s)
  BY <1>3, <1>4, <1>6 DEF OtherDelivered, NodeIInv
<1>7. CASE \E s \in Streams, t \in Txs : TransactionDelivered(s, t)
  BY <1>4, <1>5, <1>7 DEF TransactionDelivered, NodeIInv
<1>8. CASE \E t \in Txs : Submitted(t)
  BY <1>2, <1>5, <1>8 DEF Submitted, NodeIInv
<1>9. CASE GateNext /\ UNCHANGED mempool
  BY <1>1, <1>3, <1>9, GateStep DEF NodeIInv
<1>10. CASE MempoolNext /\ UNCHANGED gate
  BY <1>1, <1>2, <1>10, MempoolStep DEF NodeIInv
<1>11. CASE UNCHANGED vars
  BY <1>2, <1>3, <1>11 DEF vars, NodeIInv
<1> QED
  BY <1>6, <1>7, <1>8, <1>9, <1>10, <1>11 DEF Next

\* The invariant that the theorems about P2PNode rest on: every step of the gate and of the
\* mempool keeps the counts, the budgets and what is known of sent transactions.
THEOREM NodeInductive == Spec => []NodeIInv
  BY InitNodeIInv, NextNodeIInv, PTL DEF Spec

\* Every variable keeps its type: the violations of one peer stay within the most of them
\* and one for every stream, whatever order the streams are read in (p2p_ratelimit.go).
THEOREM NodeTypes == Spec => []TypeOK
<1>1. NodeIInv => TypeOK
  BY DEF NodeIInv, GateIInv, MempoolIInv, TypeOK
<1> QED
  BY <1>1, NodeInductive, PTL

\* AllowRequest lets through no more than the burst and what the rate has earned since.
THEOREM RateNeverExceeded == Spec => []RateHeld
<1>1. NodeIInv => RateHeld
  <2> SUFFICES ASSUME NodeIInv, NEW p \in Peers PROVE budget[p] >= 0
    BY DEF RateHeld
  <2>1. LimitOf(p) \in PeerLimit
    BY LimitOfType DEF NodeIInv, GateIInv
  <2>2. LimitOf(p).tokens \in Nat /\ LimitOf(p).idle \in Nat /\ Refill \in Nat /\ Burst \in Nat
    BY <2>1, GateAssumption DEF PeerLimit
  <2>3. LimitOf(p).idle * Refill \in Nat
    BY <2>2, Product
  <2>4. Worth(LimitOf(p)) >= 0 /\ Worth(LimitOf(p)) \in Int
    BY <2>2, <2>3 DEF Worth, Lesser
  <2>5. Worth(LimitOf(p)) <= budget[p] /\ budget[p] \in Int
    BY DEF NodeIInv, GateIInv, GateInv, GateTypeOK, Covered
  <2> QED
    BY <2>4, <2>5
<1> QED
  BY <1>1, NodeInductive, PTL

\* No stream of a peer is let in while a ban of it is younger than the shorter duration.
THEOREM BansAreServed == Spec => BanHolds
<1>1. NodeIInv /\ [Next]_vars => [LetInUnbanned]_gate
  BY NextNodeIInv
<1> QED
  BY <1>1, NodeInductive, PTL DEF Spec, BanHolds, LetInUnbanned

\* performSync sends a transaction once while it stays pending.
THEOREM SentOncePerStay == Spec => []OncePerStay
<1>1. NodeIInv => OncePerStay
  BY DEF NodeIInv, MempoolIInv
<1> QED
  BY <1>1, NodeInductive, PTL

-----------------------------------------------------------------------------
(***************************************************************************)
(* Sync.                                                                   *)
(***************************************************************************)

\* The heights whose key a block of the peers' chain has, or had until another block took
\* it: no write of the store makes them fewer.
Reached == stored \cup overwritten

\* What verification leaves behind: the parent that a verified block was checked against
\* may have lost the tip, but it and its ancestors have been reached.
SyncInv ==
    /\ \A r \in requests : r.first <= r.last
    /\ processing # Nothing =>
         processing.first <= processing.last /\ processing.last <= peerHeight
    /\ verified => processing # Nothing /\ 1 .. processing.first - 1 \subseteq Reached
    /\ \A w \in Writers : writing[w] # Nothing /\ writing[w].main =>
         /\ writing[w].height \in 1 .. peerHeight
         /\ 1 .. writing[w].height - 1 \subseteq Reached

SyncIInv == SyncTypeOK /\ AncestorsStored /\ SyncEnds /\ SyncInv

LEMMA InitSyncIInv == SyncInit => SyncIInv
<1> SUFFICES ASSUME SyncInit PROVE SyncIInv
  OBVIOUS
<1> USE SyncAssumption DEF Heights, Blocks
<1>1. SyncTypeOK
  <2>1. 0 \in 0 .. MaxHeight /\ 0 \in 0 .. 0
    OBVIOUS
  <2>2. /\ tip \in [height : Heights, main : BOOLEAN]
        /\ stored \subseteq 1 .. peerHeight /\ overwritten \subseteq 1 .. peerHeight
    BY <2>1 DEF SyncInit
  <2>3. writing \in [Writers -> [height : Heights, main : BOOLEAN] \cup {Nothing}]
    BY DEF SyncInit
  <2> QED
    BY <2>1, <2>2, <2>3 DEF SyncInit, SyncTypeOK
<1>2. AncestorsStored /\ SyncEnds /\ SyncInv
  BY DEF SyncInit, AncestorsStored, SyncEnds, SyncInv
<1> QED
  BY <1>1, <1>2 DEF SyncIInv

-----------------------------------------------------------------------------
(* The other writers.                                                      *)

LEMMA OtherVerifiesStep ==
  ASSUME NEW w \in Writers, SyncIInv, OtherVerifies(w) PROVE SyncIInv'
<1> USE SyncAssumption DEF SyncIInv
<1>1. PICK b \in Blocks :
        /\ b.main => Extends(b.height) /\ b.height <= peerHeight
        /\ writing[w] = Nothing
        /\ writing' = [writing EXCEPT ![w] = b]
        /\ UNCHANGED <<status, current, target, store, peerHeight, requests,
                       processing, verified, failed>>
  <2>1. CASE Kind[w] = "own"
    BY <2>1 DEF OtherVerifies, OwnBlock
  <2>2. CASE Kind[w] # "own"
    BY <2>2 DEF OtherVerifies, GossipBlocks
  <2> QED
    BY <2>1, <2>2
<1>2. SyncTypeOK'
  BY <1>1 DEF SyncTypeOK, store
<1>3. (AncestorsStored /\ SyncEnds)'
  BY <1>1 DEF AncestorsStored, SyncEnds, Unlocked, store
<1>4. SyncInv'
  <2>1. ASSUME NEW v \in Writers, writing'[v] # Nothing, writing'[v].main
        PROVE  /\ writing'[v].height \in 1 .. peerHeight
               /\ 1 .. writing'[v].height - 1 \subseteq Reached
    <3>1. CASE v = w
      <4>1. writing'[v] = b /\ b.main
        BY <1>1, <2>1, <3>1 DEF SyncTypeOK
      <4>2. b.height <= peerHeight /\ tip.height = b.height - 1 /\ tip.main
        BY <1>1, <4>1 DEF Extends
      <4>3. b.height \in Nat /\ tip.height \in Nat /\ peerHeight \in Nat
        BY DEF SyncTypeOK, Blocks, Heights
      <4> QED
        BY <4>1, <4>2, <4>3 DEF AncestorsStored, Reached
    <3>2. CASE v # w
      BY <1>1, <2>1, <3>2 DEF SyncInv, SyncTypeOK
    <3> QED
      BY <3>1, <3>2
  <2> QED
    BY <1>1, <2>1 DEF SyncInv, store, Reached
<1> QED
  BY <1>2, <1>3, <1>4

\* The write of a block, and what it keeps.
LEMMA PutsStep ==
  ASSUME NEW b \in Blocks, SyncIInv, Puts(b), b.main => b.height \in 1 .. peerHeight
  PROVE  /\ stored' \subseteq 1 .. peerHeight /\ overwritten' \subseteq 1 .. peerHeight
         /\ Reached \subseteq Reached'
         /\ b.main => b.height \in Reached'
<1>1. stored \subseteq 1 .. peerHeight /\ overwritten \subseteq 1 .. peerHeight
  BY DEF SyncIInv, SyncTypeOK
<1>2. CASE b.main
  <2>1. stored' = stored \cup {b.height} /\ overwritten' = overwritten \ {b.height}
    BY <1>2 DEF Puts
  <2> QED
    BY <1>1, <1>2, <2>1 DEF Reached
<1>3. CASE ~b.main
  <2>1. /\ stored' = stored \ {b.height}
        /\ overwritten' = overwritten \cup (stored \cap {b.height})
    BY <1>3 DEF Puts
  <2> QED
    BY <1>1, <1>3, <2>1 DEF Reached
<1> QED
  BY <1>2, <1>3

\* The tip need not be the parent any more; its ancestors have been reached all the same.
LEMMA StoresStep ==
  ASSUME NEW b \in Blocks, SyncIInv, Stores(b),
         b.main => b.height \in 1 .. peerHeight /\ 1 .. b.height - 1 \subseteq Reached
  PROVE  /\ tip' \in Blocks
         /\ stored' \subseteq 1 .. peerHeight /\ overwritten' \subseteq 1 .. peerHeight
         /\ Reached \subseteq Reached'
         /\ AncestorsStored'
<1>1. tip' = b /\ Puts(b)
  BY DEF Stores
<1>2. /\ stored' \subseteq 1 .. peerHeight /\ overwritten' \subseteq 1 .. peerHeight
      /\ Reached \subseteq Reached'
      /\ b.main => b.height \in Reached'
  BY <1>1, PutsStep
<1>3. ASSUME b.main, NEW k \in 1 .. b.height PROVE k \in Reached'
  <2>1. b.height \in Nat
    BY DEF Blocks, Heights
  <2>2. k = b.height \/ k \in 1 .. b.height - 1
    BY <2>1
  <2> QED
    BY <1>2, <1>3, <2>2
<1>4. AncestorsStored'
  BY <1>1, <1>3 DEF AncestorsStored, Reached
<1> QED
  BY <1>1, <1>2, <1>4

\* A failed write leaves the tip.
LEMMA StoreFailsStep ==
  ASSUME NEW b \in Blocks, SyncIInv, StoreFails(b), b.main => b.height \in 1 .. peerHeight
  PROVE  /\ tip' \in Blocks
         /\ stored' \subseteq 1 .. peerHeight /\ overwritten' \subseteq 1 .. peerHeight
         /\ Reached \subseteq Reached'
         /\ AncestorsStored'
<1>1. tip' = tip /\ (Puts(b) \/ UNCHANGED <<stored, overwritten>>)
  BY DEF StoreFails
<1>2. /\ stored' \subseteq 1 .. peerHeight /\ overwritten' \subseteq 1 .. peerHeight
      /\ Reached \subseteq Reached'
  <2>1. CASE Puts(b)
    BY <2>1, PutsStep
  <2>2. CASE UNCHANGED <<stored, overwritten>>
    BY <2>2 DEF SyncIInv, SyncTypeOK, Reached
  <2> QED
    BY <1>1, <2>1, <2>2
<1>3. AncestorsStored'
  BY <1>1, <1>2 DEF SyncIInv, AncestorsStored, Reached
<1> QED
  BY <1>1, <1>2, <1>3 DEF SyncIInv, SyncTypeOK

LEMMA OtherAddsStep ==
  ASSUME NEW w \in Writers, SyncIInv, OtherAdds(w) PROVE SyncIInv'
<1> USE SyncAssumption DEF SyncIInv
<1> DEFINE b == writing[w]
<1>1. b \in Blocks /\ b # Nothing
  BY DEF OtherAdds, SyncTypeOK
<1>2. /\ Stores(b) \/ StoreFails(b)
      /\ writing' = [writing EXCEPT ![w] = Nothing]
      /\ UNCHANGED <<status, current, target, peerHeight, requests,
                     processing, verified, failed>>
  BY DEF OtherAdds
<1>3. b.main => b.height \in 1 .. peerHeight /\ 1 .. b.height - 1 \subseteq Reached
  BY <1>1 DEF SyncInv
<1>4. /\ tip' \in Blocks
      /\ stored' \subseteq 1 .. peerHeight /\ overwritten' \subseteq 1 .. peerHeight
      /\ Reached \subseteq Reached'
      /\ AncestorsStored'
  <2> HIDE DEF b
  <2> QED
    BY <1>1, <1>2, <1>3, StoresStep, StoreFailsStep
<1>5. SyncTypeOK'
  BY <1>2, <1>4 DEF SyncTypeOK
<1>6. SyncEnds'
  BY <1>2 DEF SyncEnds, Unlocked
<1>7. SyncInv'
  <2>1. ASSUME NEW v \in Writers, writing'[v] # Nothing, writing'[v].main
        PROVE  /\ writing'[v].height \in 1 .. peerHeight
               /\ 1 .. writing'[v].height - 1 \subseteq Reached'
    <3>1. v # w /\ writing'[v] = writing[v]
      BY <1>2, <2>1 DEF SyncTypeOK
    <3> QED
      BY <1>4, <2>1, <3>1 DEF SyncInv
  <2>2. verified => processing # Nothing /\ 1 .. processing.first - 1 \subseteq Reached'
    BY <1>4 DEF SyncInv
  <2> QED
    BY <1>2, <2>1, <2>2 DEF SyncInv
<1> QED
  BY <1>4, <1>5, <1>6, <1>7

-----------------------------------------------------------------------------
(* The manager.                                                            *)

LEMMA StartSyncStep ==
  ASSUME NEW h \in 0 .. peerHeight, SyncIInv, StartSync(h) PROVE SyncIInv'
<1> USE SyncAssumption DEF SyncIInv, StartSync, store
<1>1. tip.height \in Heights
  BY DEF SyncTypeOK, Blocks
<1>2. SyncTypeOK'
  <2>1. current' \in Heights /\ target' \in 0 .. peerHeight
    BY <1>1 DEF SyncTypeOK
  <2>2. status' \in {"synced", "syncing", "behind"} /\ failed' \in BOOLEAN
    OBVIOUS
  <2> QED
    BY <2>1, <2>2 DEF SyncTypeOK
<1>3. SyncEnds'
  BY <1>1 DEF SyncEnds, SyncTypeOK, Heights, Unlocked
<1>4. AncestorsStored' /\ SyncInv'
  BY DEF AncestorsStored, SyncInv, Reached
<1> QED
  BY <1>2, <1>3, <1>4

LEMMA CheckIfBehindStep ==
  ASSUME NEW h \in 0 .. peerHeight, SyncIInv, CheckIfBehind(h) PROVE SyncIInv'
<1> USE DEF SyncIInv, CheckIfBehind, store
<1>1. SyncTypeOK' /\ AncestorsStored' /\ SyncEnds' /\ SyncInv'
  BY DEF SyncTypeOK, AncestorsStored, SyncEnds, SyncInv, Reached
<1> QED
  BY <1>1

\* A request never ends above the target, which is no higher than the peers.
LEMMA CreateBlockRequestStep ==
  ASSUME SyncIInv, CreateBlockRequest PROVE SyncIInv'
<1> USE SyncAssumption DEF SyncIInv, store
<1>1. /\ requests' = requests \cup {BlockRequest}
      /\ BlockRequest.first <= BlockRequest.last
      /\ UNCHANGED <<status, current, target, store, peerHeight,
                     processing, verified, writing, failed>>
  BY DEF CreateBlockRequest
<1>2. BlockRequest \in BlockRange /\ BlockRequest.last <= peerHeight
  <2>1. current + 1 \in 1 .. MaxHeight + 1
    BY DEF SyncTypeOK, Heights
  <2>2. Smaller(current + BatchSize, target) \in 0 .. peerHeight
    BY DEF SyncTypeOK, Heights, Smaller
  <2> QED
    BY <2>1, <2>2 DEF SyncTypeOK, Heights, BlockRequest, BlockRange
<1>3. SyncTypeOK'
  BY <1>1, <1>2 DEF SyncTypeOK
<1>4. AncestorsStored' /\ SyncEnds' /\ SyncInv'
  BY <1>1 DEF AncestorsStored, SyncEnds, SyncInv, Reached, Unlocked
<1> QED
  BY <1>3, <1>4

LEMMA LoseRequestStep ==
  ASSUME NEW r \in requests, SyncIInv, LoseRequest(r) PROVE SyncIInv'
<1> USE DEF SyncIInv, LoseRequest, store
<1>1. SyncTypeOK' /\ AncestorsStored' /\ SyncEnds' /\ SyncInv'
  BY DEF SyncTypeOK, AncestorsStored, SyncEnds, SyncInv, Reached, Unlocked
<1> QED
  BY <1>1

LEMMA ReceiveResponseStep ==
  ASSUME NEW r \in requests, SyncIInv, ReceiveResponse(r) PROVE SyncIInv'
<1> USE SyncAssumption DEF SyncIInv, store
<1>1. PICK h \in 1 .. peerHeight :
        /\ HandleBlockRequest(r, h) # Nothing
        /\ processing' = HandleBlockRequest(r, h) /\ verified' = FALSE
        /\ UNCHANGED <<status, current, target, store, peerHeight,
                       requests, writing, failed>>
  BY DEF ReceiveResponse
<1>2. r \in BlockRange /\ r.first <= r.last /\ r.last <= peerHeight
  BY DEF SyncTypeOK, SyncInv
<1>3. /\ processing' = [first |-> r.first, last |-> Smaller(r.last, h)]
      /\ r.first <= h
  BY <1>1, <1>2 DEF HandleBlockRequest, BlockRange
<1>4. /\ processing' \in BlockRange /\ processing' # Nothing
      /\ processing'.first <= processing'.last /\ processing'.last <= peerHeight
  BY <1>2, <1>3 DEF BlockRange, Heights, Smaller, SyncTypeOK
<1>5. SyncTypeOK'
  BY <1>1, <1>4 DEF SyncTypeOK
<1>6. AncestorsStored' /\ SyncEnds' /\ SyncInv'
  BY <1>1, <1>4 DEF AncestorsStored, SyncEnds, SyncInv, Reached, Unlocked
<1> QED
  BY <1>5, <1>6

LEMMA VerifyNextStep ==
  ASSUME SyncIInv, VerifyNext PROVE SyncIInv'
<1> USE SyncAssumption DEF SyncIInv, VerifyNext, store
<1>1. SyncTypeOK' /\ AncestorsStored'
  BY DEF SyncTypeOK, AncestorsStored
<1>2. SyncEnds'
  BY DEF SyncEnds, Unlocked
<1>3. 1 .. processing.first - 1 \subseteq Reached
  BY DEF Extends, AncestorsStored, SyncTypeOK, BlockRange, Blocks, Heights, Reached
<1>4. SyncInv'
  BY <1>3 DEF SyncInv, Reached
<1> QED
  BY <1>1, <1>2, <1>4

LEMMA AddNextStep ==
  ASSUME SyncIInv, AddNext PROVE SyncIInv'
<1> USE SyncAssumption DEF SyncIInv
<1> DEFINE h == processing.first
           b == [height |-> h, main |-> TRUE]
           done == h = processing.last
<1>1. /\ processing # Nothing /\ verified
      /\ Stores(b)
      /\ current' = h /\ verified' = FALSE
      /\ processing' = IF done THEN Nothing ELSE [processing EXCEPT !.first = h + 1]
      /\ status' = IF done THEN StatusAt(h) ELSE status
      /\ failed' = IF done THEN FALSE ELSE failed
      /\ UNCHANGED <<target, peerHeight, requests, writing>>
  BY DEF AddNext
<1>2. /\ processing \in BlockRange /\ h \in Heights /\ h <= processing.last
      /\ processing.last <= peerHeight /\ 1 .. h - 1 \subseteq Reached
      /\ h \in 1 .. peerHeight
  BY <1>1 DEF SyncTypeOK, SyncInv, BlockRange, Heights
<1>3. /\ tip' \in Blocks
      /\ stored' \subseteq 1 .. peerHeight /\ overwritten' \subseteq 1 .. peerHeight
      /\ AncestorsStored'
  <2>1. b \in Blocks /\ b.main /\ b.height = h
    BY <1>2 DEF Blocks
  <2> HIDE DEF b, h
  <2> QED
    BY <1>1, <1>2, <2>1, StoresStep
<1>4. /\ processing' \in BlockRange \cup {Nothing}
      /\ processing' # Nothing =>
           processing'.first <= processing'.last /\ processing'.last <= peerHeight
  BY <1>1, <1>2 DEF BlockRange, Heights, SyncTypeOK
<1>5. SyncTypeOK'
  <2>1. status' \in {"synced", "syncing", "behind"} /\ failed' \in BOOLEAN
    BY <1>1 DEF SyncTypeOK, StatusAt
  <2> QED
    BY <1>1, <1>2, <1>3, <1>4, <2>1 DEF SyncTypeOK
<1>6. SyncEnds'
  <2>1. CASE done
    BY <1>1, <1>2, <2>1 DEF StatusAt, SyncEnds, SyncTypeOK, Heights
  <2>2. CASE ~done
    <3>1. processing' \in BlockRange
      BY <1>1, <1>2, <2>2 DEF BlockRange, Heights
    <3> QED
      BY <3>1 DEF SyncEnds, Unlocked
  <2> QED
    BY <2>1, <2>2
<1>7. SyncInv'
  <2>1. Reached \subseteq Reached'
    BY <1>1, <1>2 DEF Stores, Puts, Reached
  <2> QED
    BY <1>1, <1>4, <2>1 DEF SyncInv
<1> QED
  BY <1>3, <1>5, <1>6, <1>7

LEMMA ResponseFailsStep ==
  ASSUME SyncIInv, ResponseFails PROVE SyncIInv'
<1> USE SyncAssumption DEF SyncIInv
<1>1. /\ processing # Nothing
      /\ processing' = Nothing /\ verified' = FALSE /\ failed' = TRUE
      /\ UNCHANGED <<status, current, target, peerHeight, requests, writing>>
  BY DEF ResponseFails
<1>2. /\ tip' \in Blocks
      /\ stored' \subseteq 1 .. peerHeight /\ overwritten' \subseteq 1 .. peerHeight
      /\ Reached \subseteq Reached'
      /\ AncestorsStored'
  <2>1. CASE UNCHANGED store
    BY <2>1 DEF store, SyncTypeOK, AncestorsStored, Reached
  <2>2. ASSUME StoreFails([height |-> processing.first, main |-> TRUE]), verified
        PROVE  /\ tip' \in Blocks
               /\ stored' \subseteq 1 .. peerHeight /\ overwritten' \subseteq 1 .. peerHeight
               /\ Reached \subseteq Reached'
               /\ AncestorsStored'
    <3> DEFINE b == [height |-> processing.first, main |-> TRUE]
    <3>1. b \in Blocks /\ b.height \in 1 .. peerHeight
      BY <1>1 DEF SyncTypeOK, SyncInv, BlockRange, Blocks, Heights
    <3>2. StoreFails(b)
      BY <2>2
    <3> HIDE DEF b
    <3> QED
      BY <3>1, <3>2, StoreFailsStep
  <2> QED
    BY <2>1, <2>2 DEF ResponseFails
<1>3. SyncTypeOK' /\ SyncEnds'
  BY <1>1, <1>2 DEF SyncTypeOK, SyncEnds
<1>4. SyncInv'
  BY <1>1, <1>2 DEF SyncInv
<1> QED
  BY <1>2, <1>3, <1>4

LEMMA PeersGrowStep ==
  ASSUME SyncIInv, PeersGrow PROVE SyncIInv'
<1> USE SyncAssumption DEF SyncIInv, PeersGrow, store
<1>1. peerHeight' \in Heights /\ peerHeight' = peerHeight + 1
  BY DEF SyncTypeOK, Heights
<1>2. SyncTypeOK'
  BY <1>1 DEF SyncTypeOK, Heights, BlockRange
<1>3. AncestorsStored' /\ SyncEnds'
  BY DEF AncestorsStored, SyncEnds, Unlocked
<1>4. SyncInv'
  <2>1. ASSUME NEW w \in Writers, writing[w] # Nothing, writing[w].main
        PROVE  writing[w].height \in 1 .. peerHeight'
    BY <1>1, <2>1 DEF SyncInv, SyncTypeOK, Heights
  <2>2. processing # Nothing => processing.last <= peerHeight'
    BY <1>1 DEF SyncInv, SyncTypeOK, Heights, BlockRange
  <2> QED
    BY <2>1, <2>2 DEF SyncInv, Reached
<1> QED
  BY <1>2, <1>3, <1>4

-----------------------------------------------------------------------------
(* Theorems.                                                               *)

LEMMA NextSyncIInv == SyncIInv /\ [SyncNext]_syncVars => SyncIInv'
<1> SUFFICES ASSUME SyncIInv, [SyncNext]_syncVars PROVE SyncIInv'
  OBVIOUS
<1>1. ASSUME NEW w \in Writers, OtherVerifies(w) PROVE SyncIInv'
  BY <1>1, OtherVerifiesStep
<1>2. ASSUME NEW w \in Writers, OtherAdds(w) PROVE SyncIInv'
  BY <1>2, OtherAddsStep
<1>3. ASSUME NEW h \in 0 .. peerHeight, StartSync(h) PROVE SyncIInv'
  BY <1>3, StartSyncStep
<1>4. ASSUME NEW h \in 0 .. peerHeight, CheckIfBehind(h) PROVE SyncIInv'
  BY <1>4, CheckIfBehindStep
<1>5. CASE CreateBlockRequest
  BY <1>5, CreateBlockRequestStep
<1>6. ASSUME NEW r \in requests, ReceiveResponse(r) \/ LoseRequest(r) PROVE SyncIInv'
  BY <1>6, ReceiveResponseStep, LoseRequestStep
<1>7. CASE VerifyNext
  BY <1>7, VerifyNextStep
<1>8. CASE AddNext
  BY <1>8, AddNextStep
<1>9. CASE ResponseFails
  BY <1>9, ResponseFailsStep
<1>10. CASE PeersGrow
  BY <1>10, PeersGrowStep
<1>11. CASE UNCHANGED syncVars
  BY <1>11 DEF syncVars, store, SyncIInv, SyncTypeOK, AncestorsStored, SyncEnds, SyncInv, Reached, Unlocked
<1> QED
  BY <1>1, <1>2, <1>3, <1>4, <1>5, <1>6, <1>7, <1>8, <1>9, <1>10, <1>11 DEF SyncNext

LEMMA SyncIInvAlways == SyncSpec => []SyncIInv
  BY InitSyncIInv, NextSyncIInv, PTL DEF SyncSpec

\* The synchroniser and the store are well typed, and nothing above what the peers have
\* is asked for or stored of their chain.
THEOREM SyncTypes == SyncSpec => []SyncTypeOK
<1>1. SyncIInv => SyncTypeOK
  BY DEF SyncIInv
<1> QED
  BY <1>1, SyncIInvAlways, PTL

\* However the writers of the store interleave and its writes fail, a tip on the peers'
\* chain has all its ancestors stored, but for those whose key another block took.
THEOREM AncestorsAlwaysStored == SyncSpec => []AncestorsStored
<1>1. SyncIInv => AncestorsStored
  BY DEF SyncIInv
<1> QED
  BY <1>1, SyncIInvAlways, PTL

\* Only an error leaves a synchronisation that reached its target in syncing.
THEOREM OnlyErrorsLeaveSyncing == SyncSpec => []SyncEnds
<1>1. SyncIInv => SyncEnds
  BY DEF SyncIInv
<1> QED
  BY <1>1, SyncIInvAlways, PTL

-----------------------------------------------------------------------------
(***************************************************************************)
(* PoBTests: what a tester may take for acknowledgements.                  *)
(*                                                                         *)
(* A message in the inbox can end one Read for an ACK, or two if that Read *)
(* may leave one of its bytes: the message at the head if it is a whole    *)
(* PONG, and at most k of those behind it.  The PONGs behind the head are  *)
(* among the first k + 1 messages, because a candidate that has sent an    *)
(* ACK sends no more PONGs.                                                *)
(***************************************************************************)

\* The Reads that the messages can end, k being the spare ones behind the head.
Reads(box, k) == Len(box) + k + (IF box # <<>> /\ box[1] = PongLen THEN 1 ELSE 0)

PongsWithin(box, k) == \A i \in 2 .. Len(box) : box[i] <= AckLen \/ i <= k + 1

\* Before the tester's goroutine has dialled.
Untouched(t) ==
    /\ handler[t] = "none" /\ inbox[t] = <<>> /\ pingsIn[t] = 0
    /\ dataIn[t] = 0 /\ acked[t] = 0

\* Every PING that is not answered, and every PONG that is not read, has been counted as
\* lost, but for the one the tester waits for.
Pinging(t) ==
    /\ handler[t] = "ping" /\ dataIn[t] = 0 /\ acked[t] = 0
    /\ \A i \in 1 .. Len(inbox[t]) : inbox[t][i] = PongLen
    /\ Len(inbox[t]) + pingsIn[t] <= lost[t] + (IF tester[t] = "pong" THEN 1 ELSE 0)

Paid(t, k) == acked[t] + Reads(inbox[t], k) + 2 * pingsIn[t] <= acks[t] + 2 * lost[t]

Earned(t, k) ==
    /\ PongsWithin(inbox[t], k)
    /\ handler[t] = "ping" => Len(inbox[t]) <= k + 1
    /\ Paid(t, k)

Stage(t) ==
    /\ tester[t] \in {"none", "idle"} => Untouched(t)
    /\ tester[t] \in {"ping", "pong"} => Pinging(t)
    /\ tester[t] \in {"send", "ack", "finished", "failed"} => \E k \in Nat : Earned(t, k)

Counters ==
    /\ chunks \in Nat \ {0}
    /\ tester \in [Testers -> TesterAt] /\ handler \in [Testers -> HandlerAt]
    /\ lost \in [Testers -> Nat] /\ acked \in [Testers -> Nat] /\ acks \in [Testers -> Nat]
    /\ pingsIn \in [Testers -> Nat] /\ dataIn \in [Testers -> Int]
    /\ inbox \in [Testers -> Seq(1 .. PongLen)]

TestsIInv ==
    /\ Counters
    /\ run = "idle" => \A t \in Testers : tester[t] = "none"
    /\ \A t \in Testers : Stage(t)

-----------------------------------------------------------------------------
(* One Read.                                                               *)

LEMMA ReadsTyped ==
  ASSUME NEW box \in Seq(1 .. PongLen), NEW k \in Nat PROVE Reads(box, k) \in Nat
<1>1. Len(box) \in Nat
  OBVIOUS
<1> QED
  BY <1>1 DEF Reads

\* The three ways in which a sum is kept: a Read for an ACK, a PONG sent, an ACK sent.
LEMMA Balance ==
  ASSUME NEW c \in Nat, NEW r \in Nat, NEW p \in Nat, NEW a \in Nat, NEW l \in Nat,
         NEW q \in Int, c + r + 2 * p <= a + 2 * l
  PROVE  /\ q <= r - 1 => (c + 1) + q + 2 * p <= a + 2 * l
         /\ q <= r + 2 => c + q + 2 * (p - 1) <= a + 2 * l
         /\ q <= r + 1 => c + q + 2 * p <= (a + 1) + 2 * l
OBVIOUS

\* Two messages are more than one.
LEMMA TailLeft ==
  ASSUME NEW box \in Seq(1 .. PongLen), Len(box) > 1
  PROVE  Tail(box) \in Seq(1 .. PongLen) /\ Tail(box) # <<>> /\ Head(box) \in 1 .. PongLen
<1>1. Len(Tail(box)) = Len(box) - 1 /\ Len(box) \in Nat /\ box # <<>>
  OBVIOUS
<1>2. Len(Tail(box)) >= 1
  BY <1>1
<1>3. Tail(box) # <<>>
  BY <1>2
<1> QED
  BY <1>1, <1>3 DEF PongLen

\* Without its first message the inbox ends a Read less.
LEMMA TailReads ==
  ASSUME NEW box \in Seq(1 .. PongLen), box # <<>>, NEW k \in Nat, PongsWithin(box, k)
  PROVE  /\ Tail(box) \in Seq(1 .. PongLen)
         /\ \E j \in Nat : /\ PongsWithin(Tail(box), j)
                           /\ Reads(Tail(box), j) <= Reads(box, k) - 1
                           /\ Len(box) <= k + 1 => Len(Tail(box)) <= j + 1
<1> DEFINE tail == Tail(box)
           j == IF k = 0 THEN 0 ELSE k - 1
<1>1. /\ tail \in Seq(1 .. PongLen) /\ Len(box) \in Nat \ {0} /\ Len(tail) = Len(box) - 1
      /\ \A i \in 1 .. Len(tail) : tail[i] = box[i + 1]
      /\ \A i \in 1 .. Len(box) : box[i] \in 1 .. PongLen
      /\ tail # <<>> => Len(tail) >= 1
  BY DEF PongLen
<1>2. j \in Nat /\ (k = 0 => j = 0) /\ (k # 0 => j = k - 1)
  OBVIOUS
<1> HIDE DEF tail, j
<1>3. PongsWithin(tail, j)
  <2> SUFFICES ASSUME NEW i \in 2 .. Len(tail) PROVE tail[i] <= AckLen \/ i <= j + 1
    BY DEF PongsWithin
  <2>1. tail[i] = box[i + 1] /\ i + 1 \in 2 .. Len(box)
    BY <1>1
  <2>2. box[i + 1] <= AckLen \/ i + 1 <= k + 1
    BY <2>1 DEF PongsWithin
  <2> QED
    BY <2>1, <2>2, <1>2
<1>4. Reads(tail, j) <= Reads(box, k) - 1
  <2>1. Reads(box, k) >= Len(box) + k /\ Reads(box, k) \in Int
    BY <1>1 DEF Reads
  <2>2. CASE tail # <<>> /\ tail[1] = PongLen
    <3>1. Reads(tail, j) = Len(tail) + j + 1
      BY <2>2 DEF Reads
    <3>2. tail[1] = box[2] /\ 2 \in 2 .. Len(box)
      BY <1>1, <2>2
    <3>3. k # 0
      BY <2>2, <3>2, <1>1 DEF PongsWithin, PongLen, AckLen
    <3> QED
      BY <2>1, <3>1, <3>3, <1>1, <1>2
  <2>3. CASE ~(tail # <<>> /\ tail[1] = PongLen)
    <3>1. Reads(tail, j) = Len(tail) + j
      BY <2>3, <1>1, <1>2 DEF Reads
    <3> QED
      BY <2>1, <3>1, <1>1, <1>2
  <2> QED
    BY <2>2, <2>3
<1>5. Len(box) <= k + 1 => Len(tail) <= j + 1
  BY <1>1, <1>2
<1> QED
  BY <1>1, <1>2, <1>3, <1>4, <1>5 DEF tail

\* Taking bytes off the first message never makes more of the inbox, and a Read of an
\* ACK's length makes less of it.
LEMMA TakenReads ==
  ASSUME NEW box \in Seq(1 .. PongLen), box # <<>>, NEW k \in Nat, PongsWithin(box, k),
         NEW n \in 1 .. AckLen
  PROVE  /\ Taken(box, n) \in Seq(1 .. PongLen)
         /\ \E j \in Nat : /\ PongsWithin(Taken(box, n), j)
                           /\ Reads(Taken(box, n), j) <= Reads(box, k)
                           /\ n = AckLen => Reads(Taken(box, n), j) <= Reads(box, k) - 1
                           /\ Len(box) <= k + 1 => Len(Taken(box, n)) <= j + 1
<1> USE DEF PongLen, AckLen
<1>1. Len(box) \in Nat \ {0} /\ box[1] \in 1 .. PongLen /\ Head(box) = box[1]
  OBVIOUS
<1>2. CASE Head(box) > n
  <2> DEFINE cut == <<Head(box) - n>> \o Tail(box)
  <2>1. Taken(box, n) = cut
    BY <1>2 DEF Taken
  <2>2. Head(box) - n \in 1 .. AckLen
    BY <1>1, <1>2
  <2>3. <<Head(box) - n>> \in Seq(1 .. PongLen) /\ Tail(box) \in Seq(1 .. PongLen)
    BY <2>2
  <2>4. /\ cut \in Seq(1 .. PongLen) /\ Len(cut) = Len(box) /\ cut[1] = Head(box) - n
        /\ \A i \in 2 .. Len(box) : cut[i] = box[i]
    BY <2>3, <1>1
  <2> HIDE DEF cut
  <2>5. PongsWithin(cut, k)
    BY <2>4 DEF PongsWithin
  <2>6. Reads(cut, k) = Len(box) + k
    BY <2>4, <2>2, <1>1 DEF Reads
  <2>7. Reads(box, k) >= Len(box) + k /\ (n = AckLen => Reads(box, k) = Len(box) + k + 1)
    BY <1>1, <1>2 DEF Reads
  <2> QED
    BY <2>1, <2>4, <2>5, <2>6, <2>7, <1>1
<1>3. CASE ~(Head(box) > n)
  <2>1. Taken(box, n) = Tail(box)
    BY <1>3 DEF Taken
  <2>2. Reads(box, k) \in Int /\ \A j \in Nat : Reads(Tail(box), j) \in Int
    BY DEF Reads
  <2> HIDE DEF PongLen, AckLen
  <2> QED
    BY <2>1, <2>2, TailReads
<1> QED
  BY <1>2, <1>3

\* A Read for an ACK ends one of the Reads.
LEMMA AckReads ==
  ASSUME NEW box \in Seq(1 .. PongLen), box # <<>>, NEW k \in Nat, PongsWithin(box, k),
         NEW new \in AfterRead(box, AckLen)
  PROVE  /\ new \in Seq(1 .. PongLen)
         /\ \E j \in Nat : /\ PongsWithin(new, j) /\ Reads(new, j) <= Reads(box, k) - 1
                           /\ Len(box) <= k + 1 => Len(new) <= j + 1
<1>1. CASE new = Taken(box, AckLen)
  <2>1. AckLen \in 1 .. AckLen
    BY DEF AckLen
  <2> QED
    BY <1>1, <2>1, TakenReads
<1>2. CASE /\ Head(box) < AckLen /\ Len(box) > 1
           /\ new = Taken(Tail(box), AckLen - Head(box))
  <2>1. Tail(box) \in Seq(1 .. PongLen) /\ Tail(box) # <<>> /\ Head(box) \in 1 .. PongLen
    BY <1>2, TailLeft
  <2>2. AckLen - Head(box) \in 1 .. AckLen
    BY <1>2, <2>1 DEF AckLen, PongLen
  <2>3. PICK i \in Nat : /\ PongsWithin(Tail(box), i) /\ Reads(Tail(box), i) <= Reads(box, k) - 1
                         /\ Len(box) <= k + 1 => Len(Tail(box)) <= i + 1
    BY TailReads
  <2>4. PICK j \in Nat : /\ PongsWithin(new, j) /\ Reads(new, j) <= Reads(Tail(box), i)
                         /\ Len(Tail(box)) <= i + 1 => Len(new) <= j + 1
    BY <1>2, <2>1, <2>2, <2>3, TakenReads
  <2>5. new \in Seq(1 .. PongLen)
    BY <1>2, <2>1, <2>2, <2>3, TakenReads
  <2>6. Reads(new, j) \in Int /\ Reads(Tail(box), i) \in Int /\ Reads(box, k) \in Int
    BY <2>1, <2>5 DEF Reads
  <2>7. Reads(new, j) <= Reads(box, k) - 1
    BY <2>3, <2>4, <2>6
  <2> QED
    BY <2>3, <2>4, <2>5, <2>7
<1> QED
  BY <1>1, <1>2 DEF AfterRead

\* What a Read leaves is messages again.
LEMMA ReadsKeepMessages ==
  ASSUME NEW box \in Seq(1 .. PongLen), box # <<>>, NEW n \in 1 .. PongLen,
         NEW new \in AfterRead(box, n)
  PROVE  new \in Seq(1 .. PongLen)
<1>1. ASSUME NEW b \in Seq(1 .. PongLen), b # <<>>, NEW m \in 1 .. PongLen
      PROVE  Taken(b, m) \in Seq(1 .. PongLen)
  <2>1. Tail(b) \in Seq(1 .. PongLen) /\ Head(b) \in 1 .. PongLen
    BY <1>1 DEF PongLen
  <2>2. CASE Head(b) > m
    <3>1. Head(b) - m \in 1 .. PongLen
      BY <2>1, <2>2 DEF PongLen
    <3>2. <<Head(b) - m>> \in Seq(1 .. PongLen)
      BY <3>1
    <3>3. <<Head(b) - m>> \o Tail(b) \in Seq(1 .. PongLen)
      BY ONLY <2>1, <3>2
    <3> QED
      BY <2>2, <3>3 DEF Taken
  <2> QED
    BY <2>1, <2>2 DEF Taken
<1>2. CASE Head(box) < n /\ Len(box) > 1
  <2>1. Tail(box) \in Seq(1 .. PongLen) /\ Tail(box) # <<>> /\ Head(box) \in 1 .. PongLen
    BY <1>2, TailLeft
  <2>2. n - Head(box) \in 1 .. PongLen
    BY <1>2, <2>1 DEF PongLen
  <2> QED
    BY <1>1, <2>1, <2>2 DEF AfterRead
<1> QED
  BY <1>1, <1>2 DEF AfterRead

\* A Read for a PONG takes one, if nothing else can have come.
LEMMA PongReads ==
  ASSUME NEW box \in Seq(1 .. PongLen), box # <<>>, Head(box) = PongLen,
         NEW new \in AfterRead(box, PongLen)
  PROVE  new = Tail(box)
BY DEF AfterRead, Taken, PongLen

-----------------------------------------------------------------------------
(* What arrives.                                                           *)

\* A PONG behind other messages needs one more spare Read.
LEMMA PongArrives ==
  ASSUME NEW box \in Seq(1 .. PongLen), NEW k \in Nat, Len(box) <= k + 1
  PROVE  \E j \in Nat : /\ PongsWithin(Append(box, PongLen), j)
                        /\ Len(Append(box, PongLen)) <= j + 1
                        /\ Reads(Append(box, PongLen), j) <= Reads(box, k) + 2
<1> DEFINE new == Append(box, PongLen)
<1>1. /\ Len(box) \in Nat /\ Len(new) = Len(box) + 1 /\ new # <<>>
      /\ box # <<>> => new[1] = box[1]
  <2>2. Len(box) \in Nat /\ (box # <<>> => Len(box) >= 1)
    OBVIOUS
  <2>3. /\ Len(new) = Len(box) + 1 /\ new # <<>>
        /\ \A i \in 1 .. Len(box) : new[i] = box[i]
    BY DEF PongLen
  <2> QED
    BY <2>2, <2>3
<1>2. \A j \in Nat : Len(new) <= j + 1 => PongsWithin(new, j)
  BY <1>1 DEF PongsWithin
<1> HIDE DEF new
<1>3. CASE box = <<>>
  <2>1. Reads(new, k) <= Len(new) + k + 1 /\ Reads(box, k) = 0 + k /\ Len(box) = 0
    BY <1>1, <1>3 DEF Reads
  <2>2. Reads(new, k) \in Int
    BY <1>1 DEF Reads
  <2>3. Len(new) <= k + 1 /\ Reads(new, k) <= Reads(box, k) + 2
    BY ONLY <1>1, <2>1, <2>2, k \in Nat
  <2> QED
    BY <1>2, <2>3 DEF new
<1>4. CASE box # <<>>
  <2>1. k + 1 \in Nat /\ Len(new) <= (k + 1) + 1
    BY <1>1
  <2>2. Reads(new, k + 1) = Reads(box, k) + 2
    <3>1. CASE box[1] = PongLen
      BY <1>1, <1>4, <3>1 DEF Reads
    <3>2. CASE box[1] # PongLen
      BY <1>1, <1>4, <3>2 DEF Reads
    <3> QED
      BY <3>1, <3>2
  <2>3. Reads(box, k) \in Int
    BY <1>1 DEF Reads
  <2>4. Reads(new, k + 1) <= Reads(box, k) + 2
    BY <2>2, <2>3
  <2> QED
    BY <1>2, <2>1, <2>4 DEF new
<1> QED
  BY <1>3, <1>4

\* An ACK adds its own Read.
LEMMA AckArrives ==
  ASSUME NEW box \in Seq(1 .. PongLen), NEW k \in Nat, PongsWithin(box, k)
  PROVE  /\ PongsWithin(Append(box, AckLen), k)
         /\ Reads(Append(box, AckLen), k) = Reads(box, k) + 1
<1> DEFINE new == Append(box, AckLen)
<1>1. /\ Len(box) \in Nat /\ Len(new) = Len(box) + 1 /\ new # <<>>
      /\ \A i \in 1 .. Len(box) : new[i] = box[i]
      /\ new[Len(box) + 1] = AckLen /\ AckLen # PongLen /\ AckLen <= AckLen
  BY DEF PongLen, AckLen
<1>2. box # <<>> => Len(box) >= 1 /\ new[1] = box[1]
  BY DEF AckLen
<1>3. box = <<>> => Len(box) = 0 /\ new[1] = AckLen
  BY DEF AckLen
<1> HIDE DEF new
<1>4. PongsWithin(new, k)
  <2> SUFFICES ASSUME NEW i \in 2 .. Len(new) PROVE new[i] <= AckLen \/ i <= k + 1
    BY DEF PongsWithin
  <2>1. CASE i = Len(box) + 1
    BY <1>1, <2>1
  <2>2. CASE i # Len(box) + 1
    <3>1. i \in 2 .. Len(box) /\ i \in 1 .. Len(box)
      BY <1>1, <2>2
    <3>2. new[i] = box[i]
      BY <1>1, <3>1
    <3> QED
      BY <3>1, <3>2 DEF PongsWithin
  <2> QED
    BY <2>1, <2>2
<1>5. Reads(new, k) = Reads(box, k) + 1
  <2>1. CASE box = <<>>
    BY <1>1, <1>3, <2>1 DEF Reads
  <2>2. CASE box # <<>> /\ box[1] = PongLen
    BY <1>1, <1>2, <2>2 DEF Reads
  <2>3. CASE box # <<>> /\ box[1] # PongLen
    BY <1>1, <1>2, <2>3 DEF Reads
  <2> QED
    BY <2>1, <2>2, <2>3
<1> QED
  BY <1>4, <1>5 DEF new

\* Two Reads for each PONG are enough.
LEMMA PongsOnly ==
  ASSUME NEW box \in Seq(1 .. PongLen)
  PROVE  \E k \in Nat : /\ PongsWithin(box, k) /\ Len(box) <= k + 1
                        /\ Reads(box, k) <= 2 * Len(box)
<1>1. Len(box) \in Nat /\ (box = <<>> => Len(box) = 0) /\ (box # <<>> => Len(box) >= 1)
  OBVIOUS
<1>2. CASE box = <<>>
  <2>1. PongsWithin(box, 0) /\ Reads(box, 0) = 0
    BY <1>2 DEF PongsWithin, Reads
  <2> QED
    BY <1>1, <1>2, <2>1
<1>3. CASE box # <<>>
  <2>1. Len(box) - 1 \in Nat /\ PongsWithin(box, Len(box) - 1)
    BY <1>1, <1>3 DEF PongsWithin
  <2>2. Reads(box, Len(box) - 1) <= 2 * Len(box)
    BY <1>1 DEF Reads
  <2> QED
    BY <1>1, <2>1, <2>2
<1> QED
  BY <1>2, <1>3

-----------------------------------------------------------------------------
(* A step of the exchange.                                                 *)

LEMMA CountersKept ==
  ASSUME Counters, NEW t \in Testers, Exchanges(t) PROVE Counters'
<1> USE ExchangeAssumption DEF Set
<1>1. chunks' \in Nat \ {0}
  BY DEF Counters, Exchanges, Dial, SendPing, ReadPong, PongLate, StartUpload, SendChunk,
         ReadAck, AckLate, Finish, SendPong, FirstBytes, ReadChunk, HandlerEnds
<1>2. tester' \in [Testers -> TesterAt]
  BY DEF Counters, TesterAt, Exchanges, Dial, SendPing, ReadPong, PongLate, StartUpload,
         SendChunk, ReadAck, AckLate, Finish, SendPong, FirstBytes, ReadChunk, HandlerEnds
<1>3. handler' \in [Testers -> HandlerAt]
  BY DEF Counters, HandlerAt, Exchanges, Dial, SendPing, ReadPong, PongLate, StartUpload,
         SendChunk, ReadAck, AckLate, Finish, SendPong, FirstBytes, ReadChunk, HandlerEnds
<1>4. lost' \in [Testers -> Nat]
  <2>1. lost' = lost \/ lost' = Set(lost, t, lost[t] + 1)
    BY DEF Exchanges, Dial, SendPing, ReadPong, PongLate, StartUpload, SendChunk,
           ReadAck, AckLate, Finish, SendPong, FirstBytes, ReadChunk, HandlerEnds
  <2> QED
    BY <2>1 DEF Counters
<1>5. acked' \in [Testers -> Nat]
  <2>1. acked' = acked \/ acked' = Set(acked, t, acked[t] + 1)
    BY DEF Exchanges, Dial, SendPing, ReadPong, PongLate, StartUpload, SendChunk,
           ReadAck, AckLate, Finish, SendPong, FirstBytes, ReadChunk, HandlerEnds
  <2> QED
    BY <2>1 DEF Counters
<1>6. acks' \in [Testers -> Nat]
  <2>1. acks' = acks \/ acks' = Set(acks, t, acks[t] + 1)
    BY DEF Exchanges, Dial, SendPing, ReadPong, PongLate, StartUpload, SendChunk,
           ReadAck, AckLate, Finish, SendPong, FirstBytes, ReadChunk, HandlerEnds
  <2> QED
    BY <2>1 DEF Counters
<1>7. dataIn' \in [Testers -> Int]
  BY DEF Counters, Exchanges, Dial, SendPing, ReadPong, PongLate, StartUpload, SendChunk,
         ReadAck, AckLate, Finish, SendPong, FirstBytes, ReadChunk, HandlerEnds
<1>8. pingsIn' \in [Testers -> Nat]
  <2>1. \/ pingsIn' = pingsIn \/ pingsIn' = Set(pingsIn, t, pingsIn[t] + 1)
        \/ pingsIn[t] > 0 /\ pingsIn' = Set(pingsIn, t, pingsIn[t] - 1)
    BY DEF Exchanges, Dial, SendPing, ReadPong, PongLate, StartUpload, SendChunk,
           ReadAck, AckLate, Finish, SendPong, FirstBytes, ReadChunk, HandlerEnds
  <2>2. pingsIn \in [Testers -> Nat] /\ pingsIn[t] \in Nat
    BY DEF Counters
  <2>3. CASE pingsIn[t] > 0 /\ pingsIn' = Set(pingsIn, t, pingsIn[t] - 1)
    <3>1. pingsIn[t] - 1 \in Nat
      BY ONLY <2>2, <2>3
    <3> QED
      BY ONLY <2>2, <2>3, <3>1 DEF Set
  <2> QED
    BY <2>1, <2>2, <2>3
<1>9. inbox' \in [Testers -> Seq(1 .. PongLen)]
  <2>1. \/ inbox' = inbox
        \/ \E box \in Seq(1 .. PongLen) : inbox' = Set(inbox, t, box)
    <3>1. CASE ReadPong(t) \/ ReadAck(t)
      <4>1. /\ inbox[t] \in Seq(1 .. PongLen) /\ inbox[t] # <<>>
            /\ \E n \in {PongLen, AckLen} :
                 \E box \in AfterRead(inbox[t], n) : inbox' = Set(inbox, t, box)
        BY <3>1 DEF Counters, ReadPong, ReadAck
      <4>2. \A n \in {PongLen, AckLen} : AfterRead(inbox[t], n) \subseteq Seq(1 .. PongLen)
        BY <4>1, ReadsKeepMessages DEF PongLen, AckLen
      <4> QED
        BY <4>1, <4>2
    <3>2. CASE SendPong(t) \/ ReadChunk(t)
      <4>1. /\ inbox[t] \in Seq(1 .. PongLen) /\ PongLen \in 1 .. PongLen /\ AckLen \in 1 .. PongLen
            /\ <<>> \in Seq(1 .. PongLen)
        BY DEF Counters, PongLen, AckLen
      <4>2. /\ Append(inbox[t], PongLen) \in Seq(1 .. PongLen)
            /\ Append(inbox[t], AckLen) \in Seq(1 .. PongLen)
        BY <4>1
      <4> QED
        BY <3>2, <4>1, <4>2 DEF SendPong, ReadChunk
    <3>3. CASE ~(ReadPong(t) \/ ReadAck(t) \/ SendPong(t) \/ ReadChunk(t))
      BY <3>3 DEF Exchanges, Dial, SendPing, PongLate, StartUpload, SendChunk,
             AckLate, Finish, FirstBytes, HandlerEnds
    <3> QED
      BY <3>1, <3>2, <3>3
  <2> QED
    BY <2>1 DEF Counters
<1> QED
  BY <1>1, <1>2, <1>3, <1>4, <1>5, <1>6, <1>7, <1>8, <1>9 DEF Counters

\* What concerns one tester and its connection.
Side(t) == <<tester[t], handler[t], inbox[t], lost[t], acked[t], acks[t], pingsIn[t], dataIn[t]>>

LEMMA OtherSides ==
  ASSUME Counters, NEW t \in Testers, Exchanges(t), NEW u \in Testers \ {t}
  PROVE  Side(u)' = Side(u) /\ chunks' = chunks
BY DEF Counters, Side, Set, Exchanges, Dial, SendPing, ReadPong, PongLate, StartUpload, SendChunk,
       ReadAck, AckLate, Finish, SendPong, FirstBytes, ReadChunk, HandlerEnds

LEMMA SideKeepsStage ==
  ASSUME NEW u \in Testers, Stage(u), Side(u)' = Side(u), chunks' = chunks
  PROVE  Stage(u)'
BY DEF Stage, Side, Untouched, Pinging, Earned, Paid

LEMMA ActingSideKeepsStage ==
  ASSUME Counters, NEW t \in Testers, Stage(t), Exchanges(t)
  PROVE  Stage(t)'
<1> USE DEF PongLen, AckLen
<1>0. /\ tester[t] \in TesterAt /\ lost[t] \in Nat /\ acked[t] \in Nat /\ acks[t] \in Nat
      /\ pingsIn[t] \in Nat /\ dataIn[t] \in Int
      /\ Len(inbox[t]) \in Nat
  BY DEF Counters
<1>01. inbox[t] \in Seq(1 .. PongLen)
  BY DEF Counters
<1>02. ASSUME NEW k \in Nat PROVE Reads(inbox[t], k) \in Nat
  BY <1>01, ReadsTyped
<1>1. CASE Dial(t)
  <2>1. /\ tester[t] = "idle" /\ tester'[t] \in {"ping", "failed"}
        /\ tester'[t] = "ping" => handler'[t] = "ping"
        /\ lost'[t] = lost[t] /\ acked'[t] = acked[t] /\ inbox'[t] = inbox[t]
        /\ pingsIn'[t] = pingsIn[t] /\ dataIn'[t] = dataIn[t] /\ acks'[t] = acks[t]
        /\ tester'[t] = "failed" => handler'[t] = handler[t]
    BY <1>1 DEF Dial, Set, Counters
  <2>2. Untouched(t) /\ Len(<<>>) = 0
    BY <2>1 DEF Stage
  <2>3. CASE tester'[t] = "ping"
    BY <2>1, <2>2, <2>3, <1>0 DEF Stage, Pinging, Untouched
  <2>4. CASE tester'[t] = "failed"
    <3>1. Earned(t, 0)'
      BY <2>1, <2>2, <2>4, <1>0 DEF Earned, Paid, Untouched, PongsWithin, Reads
    <3> QED
      BY <2>4, <3>1 DEF Stage
  <2> QED
    BY <2>1, <2>3, <2>4
<1>2. CASE SendPing(t)
  <2>1. tester[t] = "ping" /\ Pinging(t)
    BY <1>2 DEF SendPing, Stage
  <2>2. /\ tester'[t] = "pong" /\ pingsIn'[t] = pingsIn[t] + 1
        /\ lost'[t] = lost[t] /\ acked'[t] = acked[t] /\ inbox'[t] = inbox[t]
        /\ handler'[t] = handler[t] /\ dataIn'[t] = dataIn[t] /\ acks'[t] = acks[t]
    BY <1>2, <2>1 DEF SendPing, Set, Counters, Pinging
  <2> QED
    BY <2>1, <2>2, <1>0 DEF Stage, Pinging
<1>3. CASE ReadPong(t)
  <2>1. /\ tester[t] = "pong" /\ inbox[t] # <<>> /\ tester'[t] = "ping"
        /\ lost'[t] = lost[t] /\ acked'[t] = acked[t] /\ handler'[t] = handler[t]
        /\ pingsIn'[t] = pingsIn[t] /\ dataIn'[t] = dataIn[t] /\ acks'[t] = acks[t]
        /\ inbox'[t] \in AfterRead(inbox[t], PongLen)
    BY <1>3 DEF ReadPong, Set, Counters
  <2>2. Pinging(t) /\ Head(inbox[t]) = PongLen
    BY <2>1, <1>0 DEF Stage, Pinging
  <2>3. inbox'[t] = Tail(inbox[t])
    BY <2>1, <2>2, <1>0, <1>01, PongReads
  <2>4. /\ Len(inbox'[t]) = Len(inbox[t]) - 1
        /\ \A i \in 1 .. Len(inbox'[t]) : inbox'[t][i] = PongLen
    BY <2>1, <2>2, <2>3, <1>0, <1>01 DEF Pinging
  <2> QED
    BY <2>1, <2>2, <2>4, <1>0 DEF Stage, Pinging
<1>4. CASE PongLate(t)
  <2>1. /\ tester[t] = "pong" /\ tester'[t] = "ping" /\ lost'[t] = lost[t] + 1
        /\ acked'[t] = acked[t] /\ inbox'[t] = inbox[t] /\ handler'[t] = handler[t]
        /\ pingsIn'[t] = pingsIn[t] /\ dataIn'[t] = dataIn[t] /\ acks'[t] = acks[t]
    BY <1>4 DEF PongLate, Set, Counters
  <2> QED
    BY <2>1, <1>0 DEF Stage, Pinging
<1>5. CASE StartUpload(t)
  <2>1. /\ tester[t] = "ping" /\ tester'[t] = "send"
        /\ lost'[t] = lost[t] /\ acked'[t] = acked[t] /\ inbox'[t] = inbox[t]
        /\ handler'[t] = handler[t] /\ pingsIn'[t] = pingsIn[t] /\ dataIn'[t] = dataIn[t]
        /\ acks'[t] = acks[t]
    BY <1>5 DEF StartUpload, Set, Counters
  <2>2. Pinging(t)
    BY <2>1 DEF Stage
  <2>3. PICK k \in Nat : /\ PongsWithin(inbox[t], k) /\ Len(inbox[t]) <= k + 1
                         /\ Reads(inbox[t], k) <= 2 * Len(inbox[t])
    BY <1>01, PongsOnly
  <2>4. Len(inbox[t]) + pingsIn[t] <= lost[t] /\ acked[t] = 0
    BY <1>0, <2>1, <2>2 DEF Pinging
  <2>5. Reads(inbox[t], k) \in Nat
    BY <1>02
  <2>6. Paid(t, k)
    BY <1>0, <2>3, <2>4, <2>5 DEF Paid
  <2>7. Earned(t, k)'
    BY <2>1, <2>3, <2>6 DEF Earned, Paid
  <2> QED
    BY <2>1, <2>7 DEF Stage
<1>6. CASE SendChunk(t) \/ AckLate(t) \/ Finish(t)
  <2>1. /\ tester[t] \in {"send", "ack"} /\ tester'[t] \in {"send", "ack", "finished", "failed"}
        /\ lost'[t] = lost[t] /\ acked'[t] = acked[t] /\ inbox'[t] = inbox[t]
        /\ handler'[t] = handler[t] /\ pingsIn'[t] = pingsIn[t] /\ acks'[t] = acks[t]
    BY <1>6 DEF SendChunk, AckLate, Finish, Set, Counters
  <2>2. PICK k \in Nat : Earned(t, k)
    BY <2>1 DEF Stage
  <2>3. Earned(t, k)'
    BY <2>1, <2>2 DEF Earned, Paid
  <2> QED
    BY <2>1, <2>3 DEF Stage
<1>7. CASE ReadAck(t)
  <2>1. /\ tester[t] = "ack" /\ inbox[t] # <<>> /\ tester'[t] = "send"
        /\ acked'[t] = acked[t] + 1
        /\ lost'[t] = lost[t] /\ handler'[t] = handler[t] /\ pingsIn'[t] = pingsIn[t]
        /\ dataIn'[t] = dataIn[t] /\ acks'[t] = acks[t]
        /\ inbox'[t] \in AfterRead(inbox[t], AckLen)
    BY <1>7 DEF ReadAck, Set, Counters
  <2>2. PICK k \in Nat : Earned(t, k)
    BY <2>1 DEF Stage
  <2>3. PICK j \in Nat :
          /\ PongsWithin(inbox'[t], j) /\ Reads(inbox'[t], j) <= Reads(inbox[t], k) - 1
          /\ Len(inbox[t]) <= k + 1 => Len(inbox'[t]) <= j + 1
    BY <2>1, <2>2, <1>0, <1>01, AckReads DEF Earned
  <2>4. Reads(inbox'[t], j) \in Int
    BY <2>1, <2>2, <1>0, <1>01, AckReads DEF Earned, Reads
  <2>5. Paid(t, k) /\ Reads(inbox[t], k) \in Nat
    BY <1>02, <2>2 DEF Earned
  <2>6. Paid(t, j)'
    <3>1. (acked[t] + 1) + Reads(inbox'[t], j) + 2 * pingsIn[t] <= acks[t] + 2 * lost[t]
      BY ONLY <1>0, <2>3, <2>4, <2>5, Balance DEF Paid
    <3> QED
      BY <2>1, <3>1 DEF Paid
  <2>7. Earned(t, j)'
    BY <2>1, <2>2, <2>3, <2>6 DEF Earned
  <2> QED
    BY <2>1, <2>7 DEF Stage
<1>8. CASE SendPong(t)
  <2>1. /\ handler[t] = "ping" /\ pingsIn[t] > 0 /\ pingsIn'[t] = pingsIn[t] - 1
        /\ inbox'[t] = Append(inbox[t], PongLen)
        /\ tester'[t] = tester[t] /\ lost'[t] = lost[t] /\ acked'[t] = acked[t]
        /\ handler'[t] = handler[t] /\ dataIn'[t] = dataIn[t] /\ acks'[t] = acks[t]
    BY <1>8 DEF SendPong, Set, Counters
  <2>2. /\ Len(inbox'[t]) = Len(inbox[t]) + 1 /\ inbox'[t] # <<>>
        /\ \A i \in 1 .. Len(inbox[t]) : inbox'[t][i] = inbox[t][i]
        /\ inbox'[t][Len(inbox[t]) + 1] = PongLen
    BY <2>1, <1>01
  <2>3. CASE tester[t] \in {"none", "idle"}
    BY <2>1, <2>3 DEF Stage, Untouched
  <2>4. CASE tester[t] \in {"ping", "pong"}
    <3>1. \A i \in 1 .. Len(inbox'[t]) : inbox'[t][i] = PongLen
      BY <2>2, <2>4, <1>0 DEF Stage, Pinging
    <3> QED
      BY <2>1, <2>2, <2>4, <3>1, <1>0 DEF Stage, Pinging
  <2>5. CASE tester[t] \in {"send", "ack", "finished", "failed"}
    <3>1. PICK k \in Nat : Earned(t, k)
      BY <2>5 DEF Stage
    <3>2. PICK j \in Nat : /\ PongsWithin(inbox'[t], j) /\ Len(inbox'[t]) <= j + 1
                           /\ Reads(inbox'[t], j) <= Reads(inbox[t], k) + 2
      BY <1>01, <2>1, <3>1, PongArrives DEF Earned
    <3>3. Paid(t, k) /\ Reads(inbox[t], k) \in Nat
      BY <1>02, <3>1 DEF Earned
    <3>6. Reads(inbox'[t], j) \in Int
      BY <1>0, <2>2 DEF Reads
    <3>4. Paid(t, j)'
      <4>1. acked[t] + Reads(inbox'[t], j) + 2 * (pingsIn[t] - 1) <= acks[t] + 2 * lost[t]
        BY ONLY <1>0, <3>2, <3>3, <3>6, Balance DEF Paid
      <4> QED
        BY <2>1, <4>1 DEF Paid
    <3>5. Earned(t, j)'
      BY <3>2, <3>4 DEF Earned
    <3> QED
      BY <2>1, <2>5, <3>5 DEF Stage
  <2> QED
    BY <1>0, <2>3, <2>4, <2>5 DEF TesterAt
<1>9. CASE FirstBytes(t)
  <2>1. /\ handler[t] = "ping" /\ dataIn[t] > 0 /\ handler'[t] = "payload"
        /\ tester'[t] = tester[t] /\ lost'[t] = lost[t] /\ acked'[t] = acked[t]
        /\ inbox'[t] = inbox[t] /\ pingsIn'[t] = pingsIn[t] /\ acks'[t] = acks[t]
    BY <1>9 DEF FirstBytes, Set, Counters
  <2>2. tester[t] \in {"send", "ack", "finished", "failed"}
    BY <2>1, <1>0 DEF Stage, Untouched, Pinging, TesterAt
  <2>3. PICK k \in Nat : Earned(t, k)
    BY <2>2 DEF Stage
  <2>4. Earned(t, k)'
    BY <2>1, <2>3 DEF Earned, Paid
  <2> QED
    BY <2>1, <2>2, <2>4 DEF Stage
<1>10. CASE ReadChunk(t)
  <2>1. /\ handler[t] = "payload" /\ handler'[t] # "ping" /\ acks'[t] = acks[t] + 1
        /\ inbox'[t] = Append(inbox[t], AckLen) \/ inbox'[t] = <<>>
        /\ tester'[t] = tester[t] /\ lost'[t] = lost[t] /\ acked'[t] = acked[t]
        /\ pingsIn'[t] = pingsIn[t]
    BY <1>10 DEF ReadChunk, Set, Counters
  <2>2. tester[t] \in {"send", "ack", "finished", "failed"}
    BY <2>1, <1>0 DEF Stage, Untouched, Pinging, TesterAt
  <2>3. PICK k \in Nat : Earned(t, k)
    BY <2>2 DEF Stage
  <2>4. CASE inbox'[t] = Append(inbox[t], AckLen)
    <3>1. /\ PongsWithin(inbox'[t], k) /\ Reads(inbox'[t], k) = Reads(inbox[t], k) + 1
      BY <1>01, <2>3, <2>4, AckArrives DEF Earned
    <3>2. Paid(t, k) /\ Reads(inbox[t], k) \in Nat
      BY <1>02, <2>3 DEF Earned
    <3>3. Paid(t, k)'
      <4>1. /\ Reads(inbox'[t], k) \in Int
            /\ Reads(inbox'[t], k) <= Reads(inbox[t], k) + 1
        BY ONLY <3>1, <3>2
      <4>2. acked[t] + Reads(inbox'[t], k) + 2 * pingsIn[t] <= (acks[t] + 1) + 2 * lost[t]
        BY ONLY <1>0, <3>2, <4>1, Balance DEF Paid
      <4> QED
        BY <2>1, <4>2 DEF Paid
    <3>4. Earned(t, k)'
      BY <2>1, <3>1, <3>3 DEF Earned
    <3> QED
      BY <2>1, <2>2, <3>4 DEF Stage
  <2>5. CASE inbox'[t] = <<>>
    <3>1. PongsWithin(inbox'[t], 0) /\ Reads(inbox'[t], 0) = 0
      BY <2>5 DEF PongsWithin, Reads
    <3>2. Paid(t, k) /\ Reads(inbox[t], k) \in Nat
      BY <1>02, <2>3 DEF Earned
    <3>3. Paid(t, 0)'
      <4>1. 0 \in Int /\ 0 <= Reads(inbox[t], k) + 1
        BY ONLY <3>2
      <4>2. acked[t] + 0 + 2 * pingsIn[t] <= (acks[t] + 1) + 2 * lost[t]
        BY ONLY <1>0, <3>2, <4>1, Balance DEF Paid
      <4> QED
        BY <2>1, <3>1, <4>2 DEF Paid
    <3>4. Earned(t, 0)'
      BY <2>1, <3>1, <3>3 DEF Earned
    <3> QED
      BY <2>1, <2>2, <3>4 DEF Stage
  <2> QED
    BY <2>1, <2>4, <2>5
<1>11. CASE HandlerEnds(t)
  <2>1. /\ tester[t] \in {"finished", "failed"} /\ handler'[t] = "closed"
        /\ tester'[t] = tester[t] /\ lost'[t] = lost[t] /\ acked'[t] = acked[t]
        /\ inbox'[t] = inbox[t] /\ pingsIn'[t] = pingsIn[t] /\ acks'[t] = acks[t]
    BY <1>11 DEF HandlerEnds, Over, Set, Counters
  <2>2. PICK k \in Nat : Earned(t, k)
    BY <2>1 DEF Stage
  <2>3. Earned(t, k)'
    BY <2>1, <2>2 DEF Earned, Paid
  <2> QED
    BY <2>1, <2>3 DEF Stage
<1> QED
  BY <1>1, <1>2, <1>3, <1>4, <1>5, <1>6, <1>7, <1>8, <1>9, <1>10, <1>11 DEF Exchanges

-----------------------------------------------------------------------------
(* A step of the program.                                                  *)

LEMMA NotRunning ==
  ASSUME Counters, NEW t \in Testers, Exchanges(t) PROVE tester[t] # "none" \/ handler[t] # "none"
BY DEF Exchanges, Dial, SendPing, ReadPong, PongLate, StartUpload, SendChunk, ReadAck,
       AckLate, Finish, SendPong, FirstBytes, ReadChunk, HandlerEnds, Over

LEMMA Initially == TestsInit => TestsIInv
<1> SUFFICES ASSUME TestsInit PROVE TestsIInv
  OBVIOUS
<1> USE DEF TestsInit, ExchangeInit
<1>1. Counters
  BY DEF Counters, TesterAt, HandlerAt
<1>2. \A t \in Testers : tester[t] = "none" /\ Stage(t)
  BY DEF Stage, Untouched
<1> QED
  BY <1>1, <1>2 DEF TestsIInv

LEMMA ExchangeStep ==
  ASSUME TestsIInv, NEW t \in Testers, Exchanges(t), UNCHANGED run
  PROVE  TestsIInv'
<1>1. Counters /\ Counters'
  BY CountersKept DEF TestsIInv
<1>2. ASSUME NEW u \in Testers PROVE Stage(u)'
  <2>1. CASE u = t
    BY <1>1, <2>1, ActingSideKeepsStage DEF TestsIInv
  <2>2. CASE u # t
    BY <1>1, <2>2, OtherSides, SideKeepsStage DEF TestsIInv
  <2> QED
    BY <2>1, <2>2
<1>3. run # "idle"
  BY <1>1, NotRunning DEF TestsIInv, Stage, Untouched
<1> QED
  BY <1>1, <1>2, <1>3 DEF TestsIInv

\* InitiateTest: no tester had begun.
LEMMA InitiateStep ==
  ASSUME TestsIInv, InitiateTest PROVE TestsIInv'
<1>1. /\ \A t \in Testers : tester[t] = "none" /\ tester'[t] = "idle" /\ Stage(t)
      /\ UNCHANGED <<chunks, handler, inbox, lost, acked, acks, pingsIn, dataIn>>
      /\ run' = "testing"
  BY DEF InitiateTest, TestsIInv
<1>2. Counters'
  BY DEF TestsIInv, Counters, InitiateTest, TesterAt
<1>3. \A t \in Testers : Stage(t)'
  BY <1>1 DEF Stage, Untouched
<1> QED
  BY <1>1, <1>2, <1>3 DEF TestsIInv

\* Every other step leaves the exchange alone, and RunPoBTest never becomes idle again.
LEMMA OtherSteps ==
  ASSUME TestsIInv, UNCHANGED exchange, run' = run \/ run' # "idle" PROVE TestsIInv'
<1>1. Counters' /\ (\A t \in Testers : tester'[t] = tester[t])
  BY DEF TestsIInv, Counters, exchange
<1>2. \A t \in Testers : Stage(t)'
  BY DEF TestsIInv, exchange, Stage, Untouched, Pinging, Earned, Paid
<1> QED
  BY <1>1, <1>2 DEF TestsIInv

\* Every step of a test keeps the invariant: what a tester counts and could still count is
\* covered by ACKs sent and PINGs lost (ConductBandwidthTest against HandlePoBTestRequest).
THEOREM StagesHold == TestsSpec => []TestsIInv
<1>1. TestsInit => TestsIInv
  BY Initially
<1>2. TestsIInv /\ [TestsNext]_testVars => TestsIInv'
  <2> SUFFICES ASSUME TestsIInv, [TestsNext]_testVars PROVE TestsIInv'
    OBVIOUS
  <2>1. CASE InitiateTest
    BY <2>1, InitiateStep
  <2>2. CASE SleepOver
    BY <2>2, OtherSteps DEF SleepOver
  <2>3. CASE AggregateResults
    BY <2>3, OtherSteps DEF AggregateResults
  <2>4. ASSUME NEW t \in Testers,
               StartRecord(t) \/ EndRecord(t) \/ (Exchanges(t) /\ UNCHANGED <<tests, crashed>>)
        PROVE  TestsIInv'
    <3>1. CASE StartRecord(t) \/ EndRecord(t)
      BY <3>1, OtherSteps DEF StartRecord, EndRecord
    <3>2. CASE Exchanges(t) /\ UNCHANGED <<tests, crashed>>
      BY <3>2, ExchangeStep DEF tests
    <3> QED
      BY <2>4, <3>1, <3>2
  <2>5. CASE InitiateP2PSpeedTest \/ Timeout \/ EndWait \/ AggregateP2PResults
    BY <2>5, OtherSteps DEF InitiateP2PSpeedTest, Timeout, EndWait, AggregateP2PResults
  <2>6. ASSUME NEW v \in Validators, SubmitTesterResult(v) PROVE TestsIInv'
    BY <2>6, OtherSteps DEF SubmitTesterResult
  <2>7. CASE MapFault
    BY <2>7, OtherSteps DEF MapFault, tests
  <2>8. CASE UNCHANGED testVars
    BY <2>8, OtherSteps DEF testVars, tests
  <2> QED
    BY <2>1, <2>2, <2>3, <2>4, <2>5, <2>6, <2>7, <2>8 DEF TestsNext, TestSteps
<1> QED
  BY <1>1, <1>2, PTL DEF TestsSpec

\* However the PONGs are delayed and the bytes of the messages cut and joined, a tester
\* counts at most the ACKs the candidate sent and two for each PING it lost.
THEOREM UploadsEarned == TestsSpec => []UploadEarned
<1>1. TestsIInv => UploadEarned
  <2> SUFFICES ASSUME TestsIInv, NEW t \in Testers PROVE acked[t] <= acks[t] + 2 * lost[t]
    BY DEF UploadEarned
  <2>1. /\ tester[t] \in TesterAt /\ lost[t] \in Nat /\ acked[t] \in Nat /\ acks[t] \in Nat
        /\ pingsIn[t] \in Nat /\ \A k \in Nat : Reads(inbox[t], k) \in Nat
    BY DEF TestsIInv, Counters, Reads
  <2>2. acked[t] = 0 \/ \E k \in Nat : Earned(t, k)
    BY <2>1 DEF TestsIInv, Stage, Untouched, Pinging, TesterAt
  <2>3. CASE acked[t] = 0
    BY <2>1, <2>3
  <2>4. CASE \E k \in Nat : Earned(t, k)
    <3>1. PICK k \in Nat : Paid(t, k)
      BY <2>4 DEF Earned
    <3>2. acked[t] + Reads(inbox[t], k) + 2 * pingsIn[t] <= acks[t] + 2 * lost[t]
      BY <3>1 DEF Paid
    <3>3. Reads(inbox[t], k) \in Nat
      BY <2>1
    <3> QED
      BY ONLY <2>1, <3>2, <3>3
  <2> QED
    BY <2>2, <2>3, <2>4
<1> QED
  BY <1>1, StagesHold, PTL
=============================================================================
