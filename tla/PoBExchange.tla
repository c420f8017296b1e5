------------------------------ MODULE PoBExchange ------------------------------
(***************************************************************************)
(* The TCP bandwidth test: ConductBandwidthTest of each tester against     *)
(* HandlePoBTestRequest of the candidate (pkg/consensus/pob_testing.go).   *)
(*                                                                         *)
(* The tester sends PINGs and waits 200 ms for each PONG, then the payload *)
(* in chunks and waits 100 ms for an ACK after each; what it reads it does *)
(* not look at.  The candidate tells the two phases apart by reading four  *)
(* bytes, and the last chunk from the others by its length.                *)
(*                                                                         *)
(* TCP keeps the order of bytes and no boundaries: a Read returns what has *)
(* arrived, up to its buffer.  Payload bytes are counted in units: the     *)
(* four bytes that the PING phase reads are one, a chunk has ChunkUnits.   *)
(***************************************************************************)
EXTENDS Integers, Sequences

CONSTANTS Testers, Pings, MaxChunks, ChunkUnits

ASSUME ExchangeAssumption ==
    Pings \in Nat \ {0} /\ MaxChunks \in Nat \ {0} /\ ChunkUnits \in Nat \ {0, 1}

Least(a, b) == IF a < b THEN a ELSE b

PongLen == 4
AckLen == 3

VARIABLES
    chunks,   \* of the payload (128 in the code)
    tester,   \* [Testers -> where ConductBandwidthTest is]
    pinged,   \* [Testers -> PINGs done with]
    lost,     \* [Testers -> PINGs without a PONG in time]
    acked,    \* [Testers -> chunks it takes for acknowledged]
    inbox,    \* [Testers -> lengths of the messages that are on their way to it]
    handler,  \* [Testers -> where HandlePoBTestRequest of its connection is]
    pingsIn,  \* [Testers -> PINGs the candidate has not read]
    dataIn,   \* [Testers -> units of payload it has not read]
    acks      \* [Testers -> ACKs it has sent]

exchange == <<chunks, tester, pinged, lost, acked, inbox, handler, pingsIn, dataIn, acks>>

TesterAt == {"none", "idle", "ping", "pong", "send", "ack", "finished", "failed"}
HandlerAt == {"none", "ping", "payload", "closed"}

Over(t) == tester[t] \in {"finished", "failed"}

Set(f, t, v) == [f EXCEPT ![t] = v]

-----------------------------------------------------------------------------
(* Mutants.                                                                *)

\* Going on after the deadline, as with a PONG.
LateAckCounted(t) ==
    /\ tester[t] = "ack"
    /\ tester' = Set(tester, t, "send") /\ acked' = Set(acked, t, acked[t] + 1)
    /\ UNCHANGED <<chunks, pinged, lost, inbox, handler, pingsIn, dataIn, acks>>

-----------------------------------------------------------------------------
(* The tester.                                                             *)

Dial(t) ==
    /\ tester[t] = "idle"
    /\ \/ tester' = Set(tester, t, "ping") /\ handler' = Set(handler, t, "ping")
       \/ tester' = Set(tester, t, "failed") /\ UNCHANGED handler
    /\ UNCHANGED <<chunks, pinged, lost, acked, inbox, pingsIn, dataIn, acks>>

\* Writing to a candidate that has hung up may fail, at once or later.
SendPing(t) ==
    /\ tester[t] = "ping" /\ pinged[t] < Pings
    /\ \/ /\ tester' = Set(tester, t, "pong")
          /\ pingsIn' = Set(pingsIn, t, pingsIn[t] + 1)
          /\ UNCHANGED <<pinged, lost>>
       \/ /\ handler[t] = "closed"
          /\ pinged' = Set(pinged, t, pinged[t] + 1) /\ lost' = Set(lost, t, lost[t] + 1)
          /\ UNCHANGED <<tester, pingsIn>>
    /\ UNCHANGED <<chunks, acked, inbox, handler, dataIn, acks>>

\* Up to n bytes off the first message.
Taken(box, n) == IF Head(box) > n THEN <<Head(box) - n>> \o Tail(box) ELSE Tail(box)

\* One Read of up to n bytes leaves this of the messages, each of which arrives as a
\* whole: it takes of the first only, or of all that has come.
AfterRead(box, n) ==
    {Taken(box, n)} \cup
    IF Head(box) < n /\ Len(box) > 1 THEN {Taken(Tail(box), n - Head(box))} ELSE {}

ReadPong(t) ==
    /\ tester[t] = "pong" /\ inbox[t] # <<>>
    /\ \E box \in AfterRead(inbox[t], PongLen) : inbox' = Set(inbox, t, box)
    /\ tester' = Set(tester, t, "ping") /\ pinged' = Set(pinged, t, pinged[t] + 1)
    /\ UNCHANGED <<chunks, lost, acked, handler, pingsIn, dataIn, acks>>

\* The deadline passes; the PONG may come later.
PongLate(t) ==
    /\ tester[t] = "pong"
    /\ tester' = Set(tester, t, "ping") /\ pinged' = Set(pinged, t, pinged[t] + 1)
    /\ lost' = Set(lost, t, lost[t] + 1)
    /\ UNCHANGED <<chunks, acked, inbox, handler, pingsIn, dataIn, acks>>

StartUpload(t) ==
    /\ tester[t] = "ping" /\ pinged[t] = Pings
    /\ tester' = Set(tester, t, "send")
    /\ UNCHANGED <<chunks, pinged, lost, acked, inbox, handler, pingsIn, dataIn, acks>>

SendChunk(t) ==
    /\ tester[t] = "send" /\ acked[t] < chunks
    /\ \/ /\ tester' = Set(tester, t, "ack")
          /\ dataIn' = Set(dataIn, t, dataIn[t] + ChunkUnits)
       \/ /\ handler[t] = "closed"
          /\ tester' = Set(tester, t, "failed") /\ UNCHANGED dataIn
    /\ UNCHANGED <<chunks, pinged, lost, acked, inbox, handler, pingsIn, acks>>

\* Any bytes will do.
ReadAck(t) ==
    /\ tester[t] = "ack" /\ inbox[t] # <<>>
    /\ \E box \in AfterRead(inbox[t], AckLen) : inbox' = Set(inbox, t, box)
    /\ acked' = Set(acked, t, acked[t] + 1)
    /\ tester' = Set(tester, t, "send")
    /\ UNCHANGED <<chunks, pinged, lost, handler, pingsIn, dataIn, acks>>

AckLate(t) ==
    /\ tester[t] = "ack"
    /\ tester' = Set(tester, t, "failed")
    /\ UNCHANGED <<chunks, pinged, lost, acked, inbox, handler, pingsIn, dataIn, acks>>

Finish(t) ==
    /\ tester[t] = "send" /\ acked[t] = chunks
    /\ tester' = Set(tester, t, "finished")
    /\ UNCHANGED <<chunks, pinged, lost, acked, inbox, handler, pingsIn, dataIn, acks>>

-----------------------------------------------------------------------------
(* The candidate.                                                          *)

SendPong(t) ==
    /\ handler[t] = "ping" /\ pingsIn[t] > 0
    /\ pingsIn' = Set(pingsIn, t, pingsIn[t] - 1)
    /\ inbox' = Set(inbox, t, Append(inbox[t], PongLen))
    /\ UNCHANGED <<chunks, tester, pinged, lost, acked, handler, dataIn, acks>>

\* The four bytes that are not PING are gone, though a comment says "Unread this data":
\* nothing puts them back.
FirstBytes(t) ==
    /\ handler[t] = "ping" /\ pingsIn[t] = 0 /\ dataIn[t] > 0
    /\ dataIn' = Set(dataIn, t, dataIn[t] - 1)
    /\ handler' = Set(handler, t, "payload")
    /\ UNCHANGED <<chunks, tester, pinged, lost, acked, inbox, pingsIn, acks>>

\* One Read into a buffer of a chunk's length, one ACK; if the Read did not fill the
\* buffer the test is over, and what is unread or unsent may be lost with the connection.
ReadChunk(t) ==
    \E n \in 1 .. Least(dataIn[t], ChunkUnits) :
        /\ handler[t] = "payload"
        /\ dataIn' = Set(dataIn, t, dataIn[t] - n)
        /\ acks' = Set(acks, t, acks[t] + 1)
        /\ handler' = IF n < ChunkUnits THEN Set(handler, t, "closed") ELSE handler
        /\ \/ inbox' = Set(inbox, t, Append(inbox[t], AckLen))
           \/ n < ChunkUnits /\ dataIn'[t] > 0 /\ inbox' = Set(inbox, t, <<>>)
        /\ UNCHANGED <<chunks, tester, pinged, lost, acked, pingsIn>>

\* The tester has closed the connection: a Read or a Write fails.
HandlerEnds(t) ==
    /\ handler[t] \in {"ping", "payload"} /\ Over(t)
    /\ handler' = Set(handler, t, "closed")
    /\ UNCHANGED <<chunks, tester, pinged, lost, acked, inbox, pingsIn, dataIn, acks>>

ExchangeInit ==
    /\ chunks \in 1 .. MaxChunks
    /\ tester = [t \in Testers |-> "none"]
    /\ handler = [t \in Testers |-> "none"]
    /\ inbox = [t \in Testers |-> <<>>]
    /\ LET zero == [t \in Testers |-> 0]
       IN  pinged = zero /\ lost = zero /\ acked = zero /\ pingsIn = zero /\ dataIn = zero /\ acks = zero

\* The step of a tester or of the candidate's handler, but for its result.
Exchanges(t) ==
    \/ Dial(t) \/ SendPing(t) \/ ReadPong(t) \/ PongLate(t) \/ StartUpload(t)
    \/ SendChunk(t) \/ ReadAck(t) \/ AckLate(t) \/ Finish(t)
    \/ SendPong(t) \/ FirstBytes(t) \/ ReadChunk(t) \/ HandlerEnds(t)

-----------------------------------------------------------------------------
(* Properties.                                                             *)

ExchangeTypeOK ==
    /\ chunks \in 1 .. MaxChunks
    /\ tester \in [Testers -> TesterAt] /\ handler \in [Testers -> HandlerAt]
    /\ \A t \in Testers :
         /\ pinged[t] \in 0 .. Pings /\ lost[t] \in 0 .. pinged[t]
         /\ acked[t] \in 0 .. chunks /\ acks[t] \in Nat
         /\ inbox[t] \in Seq(1 .. PongLen)
         /\ pingsIn[t] \in 0 .. Pings /\ dataIn[t] \in 0 .. chunks * ChunkUnits

\* A tester takes any bytes for an ACK, also those of a PONG that came after its
\* deadline.  Still it never counts more chunks as uploaded than the candidate has
\* acknowledged and two for each PING that it counts as lost: a PONG fills one ACK and
\* part of a second.
UploadEarned == \A t \in Testers : acked[t] <= acks[t] + 2 * lost[t]
=============================================================================
