------------------------------- MODULE PeerGate -------------------------------
(***************************************************************************)
(* What stands between a libp2p stream and the handler of its protocol     *)
(* (pkg/network/p2p_auth.go, p2p_auth_protocol.go, p2p_ratelimit.go, the   *)
(* stream handlers of p2p.go and vrf_broadcast.go): the peer must be       *)
(* authenticated, have a token left, and stay within the bandwidth.        *)
(*                                                                         *)
(* Every manager has a lock of its own, held for one call.  Between the    *)
(* token and the bandwidth a handler reads the whole stream, which may     *)
(* take any time: what was decided before may have changed.                *)
(*                                                                         *)
(* Time advances in ticks, and every time stamp is kept as an age.  A hash *)
(* is kept as what was hashed.                                             *)
(***************************************************************************)
EXTENDS Integers, FiniteSets

CONSTANTS
    Peers, Self,
    Streams,        \* handlers that run at once
    MaxChallenges,  \* bound on challenges, each with a nonce of its own
    AuthTimeout, ChallengeTTL,                 \* 30 s to answer, 5 min authenticated
    Burst, Refill, MaxBytes,                   \* 10, 60 a minute, 10 MB a second
    RequestViolations, ByteViolations,         \* 5 and 3, then a ban
    LongBan, ShortBan,                         \* 10 min and 5 min
    IdleLimit,                                 \* 10 min until a limit is forgotten
    Sizes,          \* of messages, up to more than a second allows
    None

Lesser(a, b) == IF a < b THEN a ELSE b

ASSUME GateAssumption ==
    /\ IsFiniteSet(Streams) /\ Self \notin Peers /\ Sizes \subseteq Nat
    /\ {MaxChallenges, AuthTimeout, ChallengeTTL} \subseteq Nat
    /\ {Burst, Refill, MaxBytes, ShortBan, IdleLimit} \subseteq Nat \ {0}
    /\ ByteViolations \in 1 .. RequestViolations /\ RequestViolations \in Nat
    /\ LongBan \in Nat /\ ShortBan <= LongBan
    /\ Burst <= Refill * IdleLimit

Nonces == 1 .. MaxChallenges

Challenge == [nonce : Nonces, age : 0 .. AuthTimeout + 1]
PeerLimit == [tokens : 0 .. Burst, idle : 0 .. IdleLimit + 1,
              bytes : 0 .. MaxBytes, newSecond : BOOLEAN,
              violations : 0 .. RequestViolations + Cardinality(Streams),
              banned : BOOLEAN, banLeft : 0 .. LongBan]

ASSUME NoneAssumption ==
    None \notin Challenge /\ None \notin PeerLimit /\ None \notin Nat /\ None \notin Peers

VARIABLES
    challenges,    \* [Peers -> Challenge or None]
    authenticated, \* [Peers -> age of the authentication, or None]
    nonces,        \* how many challenges were generated
    asked,         \* whom each of them was sent to
    limits,        \* [Peers -> PeerLimit or None]
    reading,       \* [Streams -> the peer whose stream is being read, or None]
    budget,        \* history: tokens of an exact bucket that drops nothing
    sinceBan       \* history: ticks since the peer was last banned, or None

auth == <<challenges, authenticated, nonces, asked>>
gate == <<auth, limits, reading, budget, sinceBan>>

-----------------------------------------------------------------------------
(* Authentication.                                                         *)

IsAuthenticated(p) == authenticated[p] # None /\ authenticated[p] <= ChallengeTTL

\* AuthenticatePeerViaProtocol up to the challenge it sends; an earlier one for the same
\* peer, which may still be on its way, is replaced.
GenerateChallenge(p) ==
    /\ ~IsAuthenticated(p)
    /\ nonces < MaxChallenges
    /\ nonces' = nonces + 1
    /\ challenges' = [challenges EXCEPT ![p] = [nonce |-> nonces', age |-> 0]]
    /\ asked' = [asked EXCEPT ![nonces'] = p]
    /\ UNCHANGED <<authenticated, limits, reading, budget, sinceBan>>

\* SHA256(nonce || peer).
SolveChallenge(p, n) == <<n, p>>

\* How handleAuthChallenge of this code answers: remotePeer is who sent the challenge.
CodeSolution(p, n) == SolveChallenge(Self, n)

\* VerifyResponse, for the peer that started the handshake and for one that opens a
\* stream to respond.
VerifyResponse(p, n, solution) ==
    LET c == challenges[p]
        expired == c # None /\ c.age > AuthTimeout
        ok == c # None /\ ~expired /\ c.nonce = n /\ solution = SolveChallenge(p, n)
    IN  /\ challenges' = IF expired \/ ok THEN [challenges EXCEPT ![p] = None] ELSE challenges
        /\ authenticated' = IF ok THEN [authenticated EXCEPT ![p] = 0] ELSE authenticated
        /\ UNCHANGED <<nonces, asked, limits, reading, budget, sinceBan>>

\* A peer answers a challenge it was sent, as this code does: with the hash over the
\* verifier's ID, where the verifier expects the one over the peer's.
CodeResponds(p, n) == asked[n] = p /\ VerifyResponse(p, n, CodeSolution(p, n))

\* A peer that hashes its own ID, as the verifier expects.
PeerResponds(p, n) == asked[n] = p /\ VerifyResponse(p, n, SolveChallenge(p, n))

RevokeAuthentication(p) ==
    /\ challenges' = [challenges EXCEPT ![p] = None]
    /\ authenticated' = [authenticated EXCEPT ![p] = None]
    /\ UNCHANGED <<nonces, asked, limits, reading, budget, sinceBan>>

CleanupExpired ==
    /\ challenges' = [p \in Peers |->
         IF challenges[p] # None /\ challenges[p].age > AuthTimeout THEN None ELSE challenges[p]]
    /\ authenticated' = [p \in Peers |-> IF IsAuthenticated(p) THEN authenticated[p] ELSE None]
    /\ UNCHANGED <<nonces, asked, limits, reading, budget, sinceBan>>

-----------------------------------------------------------------------------
(* Mutants.                                                                *)

RefillAgain(l) == [l EXCEPT !.tokens = Lesser(Burst, @ + l.idle * Refill)]

BannedForgotten(l) == l.idle > IdleLimit

UnbannedKeepsCount(l) == IF l.banned THEN [l EXCEPT !.banned = FALSE] ELSE l

-----------------------------------------------------------------------------
(* Rate limits.                                                            *)

NewLimit == [tokens |-> Burst, idle |-> 0, bytes |-> 0, newSecond |-> FALSE,
             violations |-> 0, banned |-> FALSE, banLeft |-> 0]

LimitOf(p) == IF limits[p] = None THEN NewLimit ELSE limits[p]

\* The ban that is over is lifted at the next request.
Unbanned(l) == IF l.banned THEN [l EXCEPT !.banned = FALSE, !.violations = 0] ELSE l

\* The tokens that time has earned; a refill of none leaves LastRefill.
Refilled(l) == [l EXCEPT !.tokens = Lesser(Burst, @ + l.idle * Refill), !.idle = 0]

Banned(l, ticks) == [l EXCEPT !.banned = TRUE, !.banLeft = ticks]

\* One violation more, and the ban for too many of them.
Violated(l, most, ticks) ==
    LET v == [l EXCEPT !.violations = @ + 1]
    IN  IF v.violations >= most THEN Banned(v, ticks) ELSE v

Imposes(p, ban) == sinceBan' = IF ban THEN [sinceBan EXCEPT ![p] = 0] ELSE sinceBan

\* A handler starts: the peer is authenticated and AllowRequest has a token for it.  The
\* two calls are one step: no other step depends on what is between them.
AllowRequest(s, p) ==
    LET l == Refilled(Unbanned(LimitOf(p)))
    IN  /\ reading[s] = None /\ IsAuthenticated(p)
        /\ ~(LimitOf(p).banned /\ LimitOf(p).banLeft > 0)
        /\ l.tokens > 0
        /\ limits' = [limits EXCEPT ![p] = [l EXCEPT !.tokens = @ - 1]]
        /\ reading' = [reading EXCEPT ![s] = p]
        /\ budget' = [budget EXCEPT ![p] = @ - 1]
        /\ UNCHANGED <<auth, sinceBan>>

\* It has none: the handler returns.  A banned peer is turned away with nothing changed.
RefuseRequest(p) ==
    LET l == Refilled(Unbanned(LimitOf(p)))
        v == Violated(l, RequestViolations, LongBan)
    IN  /\ IsAuthenticated(p)
        /\ ~(LimitOf(p).banned /\ LimitOf(p).banLeft > 0)
        /\ l.tokens = 0
        /\ limits' = [limits EXCEPT ![p] = v]
        /\ Imposes(p, v.banned)
        /\ UNCHANGED <<auth, reading, budget>>

\* A second has passed since the bytes were last reset.
Counted(l) == IF l.newSecond THEN [l EXCEPT !.bytes = 0, !.newSecond = FALSE] ELSE l

\* AllowBytes after the stream has been read: the handler goes on to its message.
AllowBytes(s, n) ==
    LET p == reading[s]
        l == Counted(LimitOf(p))
    IN  /\ p # None /\ limits[p] # None
        /\ l.bytes + n <= MaxBytes
        /\ limits' = [limits EXCEPT ![p] = [l EXCEPT !.bytes = @ + n]]
        /\ reading' = [reading EXCEPT ![s] = None]
        /\ UNCHANGED <<auth, budget, sinceBan>>

\* It refuses: too many bytes, or the limit was forgotten while the stream was read.  A
\* ban that is running is replaced, by a shorter one even.
RefuseBytes(s, n) ==
    LET p == reading[s]
        l == Counted(LimitOf(p))
        v == Violated(l, ByteViolations, ShortBan)
    IN  /\ p # None
        /\ reading' = [reading EXCEPT ![s] = None]
        /\ \/ /\ limits[p] = None
              /\ UNCHANGED <<limits, sinceBan>>
           \/ /\ limits[p] # None /\ l.bytes + n > MaxBytes
              /\ limits' = [limits EXCEPT ![p] = v]
              /\ Imposes(p, v.violations >= ByteViolations)
        /\ UNCHANGED <<auth, budget>>

\* io.ReadAll fails.
ReadFails(s) ==
    /\ reading[s] # None
    /\ reading' = [reading EXCEPT ![s] = None]
    /\ UNCHANGED <<auth, limits, budget, sinceBan>>

\* Which limits CleanupOldLimits drops; a ban keeps one, even when it is over.
Forgotten(l) == ~l.banned /\ l.idle > IdleLimit

CleanupOldLimits ==
    /\ limits' = [p \in Peers |->
         IF limits[p] # None /\ Forgotten(limits[p]) THEN None ELSE limits[p]]
    /\ UNCHANGED <<auth, reading, budget, sinceBan>>

-----------------------------------------------------------------------------
Older(age, most) == IF age = None THEN None ELSE Lesser(age + 1, most)

\* Ages stop where no comparison can tell them apart.
Tick ==
    /\ challenges' = [p \in Peers |->
         IF challenges[p] = None THEN None
         ELSE [challenges[p] EXCEPT !.age = Older(@, AuthTimeout + 1)]]
    /\ authenticated' = [p \in Peers |-> Older(authenticated[p], ChallengeTTL + 1)]
    /\ limits' = [p \in Peers |->
         IF limits[p] = None THEN None
         ELSE [limits[p] EXCEPT !.idle = Older(@, IdleLimit + 1), !.newSecond = TRUE,
                                !.banLeft = IF @ > 0 THEN @ - 1 ELSE 0]]
    /\ budget' = [p \in Peers |-> Lesser(Burst, budget[p] + Refill)]
    /\ sinceBan' = [p \in Peers |-> Older(sinceBan[p], ShortBan)]
    /\ UNCHANGED <<nonces, asked, reading>>

GateInit ==
    /\ challenges = [p \in Peers |-> None] /\ authenticated = [p \in Peers |-> None]
    /\ nonces = 0 /\ asked = [n \in Nonces |-> None]
    /\ limits = [p \in Peers |-> None]
    /\ reading = [s \in Streams |-> None]
    /\ budget = [p \in Peers |-> Burst] /\ sinceBan = [p \in Peers |-> None]

\* All steps that hand no message to a protocol's handler.
GateNext ==
    \/ \E p \in Peers :
         \/ GenerateChallenge(p) \/ RevokeAuthentication(p)
         \/ \E n \in Nonces : CodeResponds(p, n) \/ PeerResponds(p, n)
         \/ RefuseRequest(p)
         \/ \E s \in Streams : AllowRequest(s, p)
    \/ \E s \in Streams, n \in Sizes : RefuseBytes(s, n)
    \/ \E s \in Streams : ReadFails(s)
    \/ CleanupExpired \/ CleanupOldLimits \/ Tick

-----------------------------------------------------------------------------
(* Properties.                                                             *)

\* Types; streams that were let in before a ban add at most one violation each to it.
GateTypeOK ==
    /\ challenges \in [Peers -> Challenge \cup {None}]
    /\ authenticated \in [Peers -> 0 .. ChallengeTTL + 1 \cup {None}]
    /\ nonces \in 0 .. MaxChallenges /\ asked \in [Nonces -> Peers \cup {None}]
    /\ limits \in [Peers -> PeerLimit \cup {None}]
    /\ reading \in [Streams -> Peers \cup {None}]
    /\ budget \in [Peers -> Int]
    /\ sinceBan \in [Peers -> 0 .. ShortBan \cup {None}]

\* AllowRequest never lets through more than the burst and what the rate has earned since,
\* although it counts lazily, and CleanupOldLimits forgets and so refills a bucket.
RateHeld == \A p \in Peers : budget[p] >= 0

\* A ban lasts at least the shorter of the two durations, whatever cleanups, streams let
\* in before it and a second ban do to it.  (The longer one may be cut to that.)
BanHolds ==
    [][\A s \in Streams : reading'[s] # None /\ reading[s] = None
         => sinceBan[reading'[s]] \in {None, ShortBan}]_gate
=============================================================================
