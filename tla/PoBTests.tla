------------------------------- MODULE PoBTests -------------------------------
(***************************************************************************)
(* The two bandwidth tests of one candidate: RunPoBTest, whose testers use *)
(* the TCP exchange (validator_service.go, pob_testing.go), and            *)
(* RunP2PSpeedTest with its committee (pob_speedtest_integration.go,       *)
(* pob_speedtest.go).  Both end in the candidate's record in State.        *)
(*                                                                         *)
(* RunPoBTest starts a goroutine per tester, sleeps 35 s and aggregates    *)
(* what is there.  session.Results is a Go map that goroutines write and   *)
(* AggregateResults walks without a lock: two of them at once may end the  *)
(* process (fatal error: concurrent map writes), or do nothing worse than  *)
(* miss a result.  The committee's results are under the manager's lock.   *)
(***************************************************************************)
EXTENDS PoBExchange, FiniteSets

CONSTANTS
    Validators, Candidate,
    CommitteeSize,     \* 3
    MinValid           \* 2 results without anomaly

ASSUME CommitteeAssumption ==
    /\ IsFiniteSet(Validators)
    /\ CommitteeSize \in Nat \ {0} /\ MinValid \in 1 .. CommitteeSize

VARIABLES
    run,        \* RunPoBTest: "idle", "testing", "aggregating", "done"
    results,    \* [Testers -> session.Results]
    recording,    \* goroutines inside session.Results[tid] = result
    crashed,    \* the process has ended
    p2p,        \* RunP2PSpeedTest: "idle", "running", "aggregating", "done"
    committee,  \* testers that have a payload generator, and all of them
    submitted,  \* [Validators -> TesterResults]
    expired,    \* the 60 s are over
    score       \* in State: none, zero, or positive by either test

tests == <<run, results, recording, p2p, committee, submitted, expired, score>>
testVars == <<exchange, tests, crashed>>

Result == {"none", "passed", "poor"}

Responded == {v \in Validators : submitted[v] # "none"}
Clean == {v \in Validators : submitted[v] = "clean"}

-----------------------------------------------------------------------------
(* Mutants.                                                                *)

CompletedOnly(over) == committee.all = Responded

-----------------------------------------------------------------------------
(* RunPoBTest.                                                             *)

\* InitiateTest, and a goroutine per tester.
InitiateTest ==
    /\ run = "idle"
    /\ run' = "testing"
    /\ tester' = [t \in Testers |-> "idle"]
    /\ UNCHANGED <<chunks, pinged, lost, acked, inbox, handler, pingsIn, dataIn, acks,
                   results, recording, crashed, p2p, committee, submitted, expired, score>>

\* evaluatePoBResult: of a hundred PINGs none may be lost; bandwidth and latency may or
\* may not do.
Evaluations(t) == IF lost[t] > 0 THEN {"poor"} ELSE {"poor", "passed"}

\* A goroutine that has a result enters the map, and leaves it.
StartRecord(t) ==
    /\ tester[t] = "finished" /\ results[t] = "none" /\ t \notin recording
    /\ recording' = recording \cup {t}
    /\ UNCHANGED <<exchange, run, results, crashed, p2p, committee, submitted, expired, score>>

EndRecord(t) ==
    /\ t \in recording
    /\ \E r \in Evaluations(t) : results' = Set(results, t, r)
    /\ recording' = recording \ {t}
    /\ UNCHANGED <<exchange, run, crashed, p2p, committee, submitted, expired, score>>

\* The runtime notices two goroutines in the map.
MapFault ==
    /\ recording # {}
    /\ Cardinality(recording) > 1 \/ run = "aggregating"
    /\ crashed' = TRUE
    /\ UNCHANGED <<exchange, tests>>

\* time.Sleep(35 s) is over: goroutines may still be at work (a dial of 5 s, 100 PINGs
\* of 200 ms and 128 chunks of 100 ms take longer).
SleepOver ==
    /\ run = "testing"
    /\ run' = "aggregating"
    /\ UNCHANGED <<exchange, results, recording, crashed, p2p, committee, submitted, expired, score>>

\* CalculatePoBScore averages those that passed, whatever the others found; a result
\* that is being written is seen or not.
AggregateResults ==
    /\ run = "aggregating"
    /\ \E racing \in {{}} \cup {recording} :
         score' = IF \/ \E t \in Testers : results[t] = "passed"
                     \/ \E t \in racing : "passed" \in Evaluations(t)
                  THEN "tcp" ELSE "zero"
    /\ run' = "done"
    /\ UNCHANGED <<exchange, results, recording, crashed, p2p, committee, submitted, expired>>

-----------------------------------------------------------------------------
(* RunP2PSpeedTest.                                                        *)

\* selectCommitteeTesters draws from all but the candidate.
Eligible == Validators \ {Candidate}

\* InitiateP2PSpeedTest: CommitteeSize testers other than the candidate, or an error;
\* those for whom no generator can be made get no goroutine.
InitiateP2PSpeedTest ==
    /\ p2p = "idle"
    /\ \E all \in SUBSET Eligible : \E ready \in SUBSET all :
         /\ Cardinality(all) = CommitteeSize
         /\ committee' = [all |-> all, ready |-> ready]
    /\ p2p' = "running"
    /\ UNCHANGED <<exchange, run, results, recording, crashed, submitted, expired, score>>

\* The goroutine of a tester ends: SubmitTesterResult with or without anomalies, unless
\* no payload was generated.
SubmitTesterResult(v) ==
    /\ v \in committee.ready
    /\ committee' = [committee EXCEPT !.ready = @ \ {v}]
    /\ \/ \E r \in {"clean", "anomalous"} : submitted' = Set(submitted, v, r)
       \/ UNCHANGED submitted
    /\ UNCHANGED <<exchange, run, results, recording, crashed, p2p, expired, score>>

Timeout ==
    /\ p2p = "running" /\ ~expired
    /\ expired' = TRUE
    /\ UNCHANGED <<exchange, run, results, recording, crashed, p2p, committee, submitted, score>>

\* The ticker finds the status completed, or the time is over.
WaitOver(over) == over \/ committee.all = Responded

EndWait ==
    /\ p2p = "running" /\ WaitOver(expired)
    /\ p2p' = "aggregating"
    /\ UNCHANGED <<exchange, run, results, recording, crashed, committee, submitted, expired, score>>

\* Medians of the clean results, which may pass or not; too few of them are an error and
\* leave the record.
AggregateP2PResults ==
    /\ p2p = "aggregating"
    /\ p2p' = "done"
    /\ IF Cardinality(Clean) >= MinValid THEN score' \in {"p2p", "zero"} ELSE UNCHANGED score
    /\ UNCHANGED <<exchange, run, results, recording, crashed, committee, submitted, expired>>

-----------------------------------------------------------------------------
TestsInit ==
    /\ ExchangeInit
    /\ run = "idle" /\ results = [t \in Testers |-> "none"] /\ recording = {}
    /\ crashed = FALSE
    /\ p2p = "idle" /\ committee = [all |-> {}, ready |-> {}]
    /\ submitted = [v \in Validators |-> "none"] /\ expired = FALSE
    /\ score = "none"

TestSteps ==
    \/ InitiateTest \/ SleepOver \/ AggregateResults
    \/ \E t \in Testers : StartRecord(t) \/ EndRecord(t) \/ (Exchanges(t) /\ UNCHANGED <<tests, crashed>>)
    \/ InitiateP2PSpeedTest \/ Timeout \/ EndWait \/ AggregateP2PResults
    \/ \E v \in Validators : SubmitTesterResult(v)
    \/ MapFault

TestsNext == ~crashed /\ TestSteps

TestsSpec == TestsInit /\ [][TestsNext]_testVars

\* Timers fire and goroutines that can go on do; a peer need not.
FairTestsSpec ==
    /\ TestsSpec
    /\ WF_testVars(~crashed /\ (SleepOver \/ AggregateResults))
    /\ WF_testVars(~crashed /\ (Timeout \/ EndWait \/ AggregateP2PResults))

-----------------------------------------------------------------------------
(* Properties.                                                             *)

\* Types.
TestsTypeOK ==
    /\ ExchangeTypeOK
    /\ run \in {"idle", "testing", "aggregating", "done"}
    /\ results \in [Testers -> Result] /\ recording \subseteq Testers
    /\ crashed \in BOOLEAN
    /\ p2p \in {"idle", "running", "aggregating", "done"}
    /\ committee.ready \subseteq committee.all /\ Responded \subseteq committee.all
    /\ committee.all \subseteq Validators \ {Candidate}
    /\ submitted \in [Validators -> {"none", "clean", "anomalous"}]
    /\ expired \in BOOLEAN
    /\ score \in {"none", "zero", "tcp", "p2p"}

\* A test that was started ends, whatever the candidate and the testers do, unless the
\* unguarded map ends the process.
TestsEnd ==
    /\ run = "testing" ~> run = "done" \/ crashed
    /\ p2p = "running" ~> p2p = "done" \/ crashed
=============================================================================
