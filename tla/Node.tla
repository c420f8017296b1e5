--------------------------------- MODULE Node ---------------------------------
(***************************************************************************)
(* The node's block-production loop and its end: the ticker, the retries   *)
(* and the circuit breaker around ProposeBlock (main.go,                   *)
(* pkg/utils/errors.go), and the shutdown manager (pkg/utils/shutdown.go). *)
(* What a block does to the chain and to State is in Chain and Ledger.     *)
(*                                                                         *)
(* Time is in seconds, kept as what is left and as an age.  A step may be  *)
(* delayed for any time; a ticker drops the ticks nobody takes.            *)
(***************************************************************************)
EXTENDS Integers

CONSTANTS
    BlockTime,                  \* 30 s between ticks
    MaxRetries, RetryDelay,     \* 3 and 1 s, doubled each time
    MaxDelay,                   \* 30 s, the most a retry waits
    MaxFailures, ResetTimeout,  \* 5 and 30 s, of the breaker
    HalfOpenMax,                \* 3 successes close it
    GracePeriod,                \* 10 s for tasks to end
    MaxTasks,                   \* bound on tasks of the wait group
    FailuresBound               \* the count of failures is not told apart from here on

ASSUME NodeAssumption ==
    /\ {BlockTime, RetryDelay, MaxFailures, ResetTimeout, HalfOpenMax} \subseteq Nat \ {0}
    /\ {MaxRetries, MaxDelay, GracePeriod, MaxTasks} \subseteq Nat
    /\ RetryDelay <= MaxDelay
    /\ FailuresBound \in Nat /\ FailuresBound >= MaxFailures

VARIABLES
    next, tick,        \* seconds to the next tick; a tick waits in the channel
    loop,              \* where the block-production goroutine is
    attempt, sleep,    \* of RetryWithBackoff
    breaker,           \* "closed", "open", "half-open"
    failures, tries,   \* failures and halfOpenTries of the breaker
    sinceFail,         \* age of lastFailTime, as far as it matters
    healed,            \* proposing has stopped to fail
    shutdown,          \* where InitiateShutdown is
    grace, tasks,      \* seconds of grace left; tasks of the wait group
    db                 \* open or closed

retrying == <<loop, attempt, sleep>>
circuit == <<breaker, failures, tries, sinceFail>>
ending == <<shutdown, grace, tasks, db>>
loopVars == <<next, tick, retrying, circuit, healed, ending>>

Cancelled == shutdown \notin {"running", "exited"}

-----------------------------------------------------------------------------
(* Mutants.                                                                *)

RejectionCounts(age) == 0

KeepsCount(n) == n

WaitsForTasks(left) == FALSE

-----------------------------------------------------------------------------
(* One attempt.                                                            *)

\* The delay before attempt n of RetryWithBackoff.
Delay(n) == LET d == RetryDelay * 2 ^ (n - 1) IN IF d > MaxDelay THEN MaxDelay ELSE d

\* The operation returned nil: the loop goes back to its select.
Succeeds == loop' = "select" /\ attempt' = 0 /\ sleep' = 0

\* It returned an error: another attempt after a delay, or none is left and it is logged.
Retries ==
    IF attempt < MaxRetries
    THEN loop' = "sleep" /\ attempt' = attempt + 1 /\ sleep' = Delay(attempt + 1)
    ELSE Succeeds

TakeTick ==
    /\ loop = "select" /\ tick
    /\ tick' = FALSE
    /\ loop' = "attempt"
    /\ UNCHANGED <<next, attempt, sleep, circuit, healed, ending>>

\* time.Sleep between attempts, which no shutdown interrupts.
Wake ==
    /\ loop = "sleep" /\ sleep = 0
    /\ loop' = "attempt"
    /\ UNCHANGED <<next, tick, attempt, sleep, circuit, healed, ending>>

\* Another validator proposes: nothing to do.
NotProposer ==
    /\ loop = "attempt"
    /\ Succeeds
    /\ UNCHANGED <<next, tick, circuit, healed, ending>>

\* IsProposer fails, outside of the breaker.
ProposerUnknown ==
    /\ loop = "attempt" /\ ~healed
    /\ Retries
    /\ UNCHANGED <<next, tick, circuit, healed, ending>>

MayTry == breaker = "open" => sinceFail > ResetTimeout

\* CircuitBreaker.Call lets the operation through; an open breaker is half-open now.
CallStarts ==
    /\ loop = "attempt" /\ MayTry
    /\ loop' = "propose"
    /\ IF breaker = "open" THEN breaker' = "half-open" /\ tries' = 0
                           ELSE UNCHANGED <<breaker, tries>>
    /\ UNCHANGED <<next, tick, attempt, sleep, failures, sinceFail, healed, ending>>

\* The age of the last failure after a call the breaker refused.
AgeKept(age) == age

CallRefused ==
    /\ loop = "attempt" /\ ~MayTry
    /\ Retries
    /\ sinceFail' = AgeKept(sinceFail)
    /\ UNCHANGED <<next, tick, breaker, failures, tries, healed, ending>>

\* ProposeBlock fails, as everything does once the database is closed.
ProposeFails ==
    /\ loop = "propose" /\ (~healed \/ db = "closed")
    /\ failures' = IF failures < FailuresBound THEN failures + 1 ELSE failures
    /\ sinceFail' = 0
    /\ breaker' = IF breaker = "half-open" \/ failures' >= MaxFailures THEN "open" ELSE breaker
    /\ Retries
    /\ UNCHANGED <<next, tick, tries, healed, ending>>

\* The count after enough successes in half-open.
CountAfterClose(n) == 0

\* ProposeBlock succeeds, which a half-open breaker counts; then the block is broadcast
\* and voted on.
ProposeSucceeds ==
    /\ loop = "propose" /\ db = "open"
    /\ loop' = "vote"
    /\ IF breaker = "half-open"
       THEN /\ tries' = tries + 1
            /\ IF tries' >= HalfOpenMax
               THEN breaker' = "closed" /\ failures' = CountAfterClose(failures)
               ELSE UNCHANGED <<breaker, failures>>
       ELSE failures' = 0 /\ UNCHANGED <<breaker, tries>>
    /\ UNCHANGED <<next, tick, attempt, sleep, sinceFail, healed, ending>>

\* An error of VoteOnBlock is logged and not returned: the attempt has succeeded.
VoteReturns ==
    /\ loop = "vote"
    /\ Succeeds
    /\ UNCHANGED <<next, tick, circuit, healed, ending>>

\* A panic in an attempt: RecoverFromPanic ends the goroutine, for good.
Panic ==
    /\ loop \in {"attempt", "propose", "vote"} /\ ~healed
    /\ loop' = "dead"
    /\ UNCHANGED <<next, tick, attempt, sleep, circuit, healed, ending>>

\* The select sees the cancelled context, if not a tick first.
LoopStops ==
    /\ loop = "select" /\ Cancelled
    /\ loop' = "stopped"
    /\ UNCHANGED <<next, tick, attempt, sleep, circuit, healed, ending>>

-----------------------------------------------------------------------------
(* Shutdown.                                                               *)

\* A signal, or the end of AddTask and TaskDone.
Signal ==
    /\ shutdown = "running"
    /\ shutdown' = "waiting" /\ grace' = GracePeriod
    /\ UNCHANGED <<next, tick, retrying, circuit, healed, tasks, db>>

AddTask ==
    /\ shutdown = "running" /\ tasks < MaxTasks
    /\ tasks' = tasks + 1
    /\ UNCHANGED <<next, tick, retrying, circuit, healed, shutdown, grace, db>>

TaskDone ==
    /\ tasks > 0
    /\ tasks' = tasks - 1
    /\ UNCHANGED <<next, tick, retrying, circuit, healed, shutdown, grace, db>>

GraceOver(left) == left = 0

\* No task is left (the node's own goroutines are none), or the grace period is over.
WaitEnds ==
    /\ shutdown = "waiting"
    /\ tasks = 0 \/ GraceOver(grace)
    /\ shutdown' = "final-state"
    /\ UNCHANGED <<next, tick, retrying, circuit, healed, grace, tasks, db>>

\* The hooks in reverse order of registration, whatever they return, and os.Exit.
FinalStateHook ==
    /\ shutdown = "final-state"
    /\ shutdown' = "database"
    /\ UNCHANGED <<next, tick, retrying, circuit, healed, grace, tasks, db>>

DatabaseHook ==
    /\ shutdown = "database"
    /\ db' = "closed" /\ shutdown' = "exit"
    /\ UNCHANGED <<next, tick, retrying, circuit, healed, grace, tasks>>

ExitProcess ==
    /\ shutdown = "exit"
    /\ shutdown' = "exited"
    /\ UNCHANGED <<next, tick, retrying, circuit, healed, grace, tasks, db>>

\* main waits for the same context: it returns, and ends the process with whatever hooks
\* have not run and whatever the loop is doing.
MainReturns ==
    /\ Cancelled
    /\ shutdown' = "exited"
    /\ UNCHANGED <<next, tick, retrying, circuit, healed, grace, tasks, db>>

-----------------------------------------------------------------------------
Heal ==
    /\ ~healed /\ healed' = TRUE
    /\ UNCHANGED <<next, tick, retrying, circuit, ending>>

Down(n) == IF n > 0 THEN n - 1 ELSE 0

Second ==
    /\ next' = IF next = 0 THEN BlockTime - 1 ELSE next - 1
    /\ tick' = (tick \/ next = 0)
    /\ sleep' = Down(sleep)
    /\ sinceFail' = IF sinceFail > ResetTimeout THEN sinceFail ELSE sinceFail + 1
    /\ grace' = Down(grace)
    /\ UNCHANGED <<loop, attempt, breaker, failures, tries, healed, shutdown, tasks, db>>

LoopInit ==
    /\ next = BlockTime - 1 /\ tick = FALSE
    /\ loop = "select" /\ attempt = 0 /\ sleep = 0
    /\ breaker = "closed" /\ failures = 0 /\ tries = 0 /\ sinceFail = ResetTimeout + 1
    /\ healed = FALSE
    /\ shutdown = "running" /\ grace = 0 /\ tasks = 0 /\ db = "open"

Attempts ==
    \/ TakeTick \/ Wake \/ NotProposer \/ ProposerUnknown \/ CallStarts \/ CallRefused
    \/ ProposeFails \/ ProposeSucceeds \/ VoteReturns \/ LoopStops

ShutdownSteps == WaitEnds \/ FinalStateHook \/ DatabaseHook \/ ExitProcess

Steps ==
    \/ Attempts \/ Panic \/ Heal \/ Second
    \/ Signal \/ AddTask \/ TaskDone \/ ShutdownSteps \/ MainReturns

LoopNext == shutdown # "exited" /\ Steps

LoopSpec == LoopInit /\ [][LoopNext]_loopVars

\* Time passes, the scheduler gives every goroutine its turn, and this node is proposer
\* again and again.  Nothing is assumed of the tasks, of main, or of what fails.
FairLoopSpec ==
    /\ LoopSpec
    /\ WF_loopVars(shutdown # "exited" /\ Second)
    /\ WF_loopVars(shutdown # "exited" /\ Attempts)
    /\ SF_loopVars(shutdown # "exited" /\ (CallStarts \/ CallRefused))
    /\ WF_loopVars(ShutdownSteps)

-----------------------------------------------------------------------------
(* Properties.                                                             *)

\* Types; a closed breaker has counted fewer failures than would have opened it.
LoopTypeOK ==
    /\ next \in 0 .. BlockTime - 1 /\ tick \in BOOLEAN
    /\ loop \in {"select", "attempt", "propose", "vote", "sleep", "dead", "stopped"}
    /\ attempt \in 0 .. MaxRetries /\ sleep \in 0 .. MaxDelay
    /\ breaker \in {"closed", "open", "half-open"}
    /\ failures \in 0 .. FailuresBound /\ (breaker = "closed" => failures < MaxFailures)
    /\ tries \in 0 .. HalfOpenMax /\ sinceFail \in 0 .. ResetTimeout + 1
    /\ healed \in BOOLEAN
    /\ shutdown \in {"running", "waiting", "final-state", "database", "exit", "exited"}
    /\ grace \in 0 .. GracePeriod /\ tasks \in 0 .. MaxTasks /\ db \in {"open", "closed"}

\* Once proposing no longer fails the breaker closes again, whatever ticks it drops,
\* however the retries meet its timeout and however often it was reopened, unless a panic
\* or a shutdown has ended the loop: calls that it refuses do not put the trial off.
BreakerRecovers ==
    healed ~> (breaker = "closed" \/ loop \in {"dead", "stopped"} \/ shutdown # "running")

\* A shutdown that was begun ends the process, with tasks that never end and a loop in
\* the middle of its retries.
ShutdownEnds == Cancelled ~> shutdown = "exited"
=============================================================================
