------------------------------- MODULE Registry -------------------------------
(***************************************************************************)
(* The validator registry (pkg/consensus/validator_registry.go), the       *)
(* slashing manager (slashing.go) and the other writer of validator        *)
(* records, the PoB test (validator_service.go, RunPoBTest).               *)
(*                                                                         *)
(* Two stores describe a validator: vr.validators, in memory only, and the *)
(* ValidatorInfo of blockchain.State, which survives a restart and is      *)
(* changed by Get - modify - Update.  Registry methods hold vr.mu and are  *)
(* one action each.  Slashing methods hold sm.mu; the sweep over expired   *)
(* suspensions takes vr.mu again for each validator, so it is split there. *)
(* The PoB test holds no lock between its Get and its Update: whether      *)
(* GetValidator hands out copies is up to State, which is not in the       *)
(* repository, so the Update writes back either the old record or the      *)
(* current one.                                                            *)
(***************************************************************************)
EXTENDS Integers, FiniteSets

CONSTANTS
    Validators,        \* validator ids
    Genesis,           \* those State has from the start
    Subjects,          \* those that register, are tested and are slashed
    Heights, Hashes,   \* what votes are for
    MinValidators, MaxValidators,   \* 100, 1000 in calculateObserverDuration
    MinDuration, MaxDuration,       \* 6 h, 24 h there, in clock ticks
    FeePerTick,        \* entry fee per tick of observer duration
    InitialBalance,    \* balance of a validator's account, or NoAccount
    ExitDelay,         \* vr.exitDelay
    SuspensionTicks,   \* sm.suspensionDurations of the reasons in use
    MaxAge,            \* argument of CleanupOldTracking
    MaxTime, MaxSlashes, MaxRestarts,   \* bounds
    None, NoAccount

Reasons == {"double_voting", "downtime", "invalid_block"}

Info == [active : BOOLEAN, observer : BOOLEAN, observed : Nat, pob : BOOLEAN,
         suspended : BOOLEAN, until : Nat]
Registration == [status : {"pending", "active", "exiting"}, exit : Nat]

ASSUME RegistryAssumption ==
    /\ IsFiniteSet(Validators) /\ Genesis \subseteq Validators /\ Subjects \subseteq Validators
    /\ MinValidators \in Nat /\ MaxValidators \in Nat /\ MinValidators < MaxValidators
    /\ MinDuration \in Nat /\ MaxDuration \in Nat /\ MinDuration <= MaxDuration
    /\ FeePerTick \in Nat /\ ExitDelay \in Nat /\ MaxAge \in Nat
    /\ InitialBalance \in [Validators -> Nat \cup {NoAccount}]
    /\ SuspensionTicks \in [Reasons -> Nat]
    /\ MaxTime \in Nat /\ MaxSlashes \in Nat /\ MaxRestarts \in Nat
    /\ None \notin Validators \cup Hashes /\ NoAccount \notin Nat
    /\ None \notin Info /\ None \notin Registration

VARIABLES
    reg,          \* vr.validators: status and ExitTime, or None
    info,         \* State's ValidatorInfo, or None
    balance,      \* State's accounts
    tracker,      \* sm.doubleVoteTracker
    events,       \* sm.events
    eventDb,      \* "slashing_<validator>_<height>" keys
    clearing,     \* validators the running sweep has yet to release; it holds sm.mu
    pobTest,      \* RunPoBTest between Get and Update: candidate and record, or None
    now,
    slashes, restarts,
    raced,        \* history: whose record a PoB test wrote back stale
    lost          \* history: whose registration a restart lost

slashing == <<tracker, events, eventDb, slashes>>
history == <<raced, lost>>
vars == <<reg, info, balance, slashing, clearing, pobTest, now, restarts, history>>

Registered(v) == reg[v] # None
Suspended(v) == info[v] # None /\ info[v].suspended

-----------------------------------------------------------------------------
(* Mutants.                                                                *)

FeeUnchecked(v, fee) == TRUE

SweepIdleAlways == TRUE

DeactivatedNot(i) == i

ExpiredActiveOnly(v) ==
    /\ Registered(v) /\ reg[v].status = "active"
    /\ Suspended(v) /\ now > info[v].until

-----------------------------------------------------------------------------
(* Registration, activation and exit.                                      *)

ActiveCount == Cardinality({v \in Validators : info[v] # None /\ info[v].active})

calculateObserverDuration(n) ==
    IF n < MinValidators THEN MinDuration
    ELSE IF n >= MaxValidators THEN MaxDuration
    ELSE MinDuration + ((n - MinValidators) * (MaxDuration - MinDuration))
                           \div (MaxValidators - MinValidators)

\* 7 MB/s for the whole observer duration.
calculateDynamicEntryFee(duration) == FeePerTick * duration

\* An account that State does not have is not charged.
CanPay(v, fee) == balance[v] # NoAccount => balance[v] >= fee

\* The record in State is replaced as a whole: a suspension or an active flag that an
\* earlier registration left there is gone.
RegisterValidator(v) ==
    LET duration == calculateObserverDuration(ActiveCount)
        fee == calculateDynamicEntryFee(duration)
    IN  /\ ~Registered(v)
        /\ CanPay(v, fee)
        /\ balance' = [balance EXCEPT ![v] = IF @ = NoAccount THEN @ ELSE @ - fee]
        /\ reg' = [reg EXCEPT ![v] = [status |-> "pending", exit |-> 0]]
        /\ info' = [info EXCEPT ![v] =
                      [active |-> FALSE, observer |-> TRUE, observed |-> now + duration,
                       pob |-> FALSE, suspended |-> FALSE, until |-> 0]]
        /\ raced' = raced \ {v} /\ lost' = lost \ {v}
        /\ UNCHANGED <<slashing, clearing, pobTest, now, restarts>>

\* An observer who has served its time with a good enough PoB score; a suspension
\* does not matter.
Promotable(v) ==
    /\ Registered(v) /\ reg[v].status = "pending"
    /\ info[v].observer /\ now >= info[v].observed
    /\ info[v].pob

ActivatePendingValidators ==
    LET promoted == {v \in Validators : Promotable(v)} IN
    /\ promoted # {}
    /\ reg' = [v \in Validators |->
                 IF v \in promoted THEN [reg[v] EXCEPT !.status = "active"] ELSE reg[v]]
    /\ info' = [v \in Validators |->
                  IF v \in promoted THEN [info[v] EXCEPT !.active = TRUE, !.observer = FALSE]
                  ELSE info[v]]
    /\ UNCHANGED <<balance, slashing, clearing, pobTest, now, restarts, history>>

Deactivated(i) == [i EXCEPT !.active = FALSE]

RequestExit(v) ==
    /\ Registered(v) /\ reg[v].status = "active"
    /\ reg' = [reg EXCEPT ![v] = [status |-> "exiting", exit |-> now]]
    /\ info' = [info EXCEPT ![v] = Deactivated(@)]
    /\ UNCHANGED <<balance, slashing, clearing, pobTest, now, restarts, history>>

ProcessExits ==
    LET gone == {v \in Validators : /\ Registered(v) /\ reg[v].status = "exiting"
                                    /\ now - reg[v].exit >= ExitDelay} IN
    /\ gone # {}
    /\ reg' = [v \in Validators |-> IF v \in gone THEN None ELSE reg[v]]
    /\ UNCHANGED <<info, balance, slashing, clearing, pobTest, now, restarts, history>>

-----------------------------------------------------------------------------
(* Slashing: every entry point takes sm.mu first.                          *)

SweepIdle == clearing = {}

\* SuspendValidator replaces the end of a running suspension, even by an earlier one.
SuspendValidator(v, until) ==
    info' = [info EXCEPT ![v] = [@ EXCEPT !.suspended = TRUE, !.until = until]]

\* slashValidator: no record, no slashing; a failing Put leaves the event in memory.
slashValidator(v, reason, h) ==
    \/ /\ info[v] = None
       /\ UNCHANGED <<info, events, eventDb, slashes>>
    \/ /\ info[v] # None
       /\ slashes < MaxSlashes /\ now + SuspensionTicks[reason] < MaxTime
       /\ slashes' = slashes + 1
       /\ SuspendValidator(v, now + SuspensionTicks[reason])
       /\ events' = events \cup {[v |-> v, h |-> h, at |-> now]}
       /\ \/ eventDb' = eventDb \cup {<<v, h>>}
          \/ UNCHANGED eventDb

\* The first hash seen for a height is kept; a different one later is punished.
DetectDoubleVoting(v, h, hash) ==
    /\ SweepIdle
    /\ \/ /\ tracker[v][h] = None
          /\ tracker' = [tracker EXCEPT ![v][h] = hash]
          /\ UNCHANGED <<info, events, eventDb, slashes>>
       \/ /\ tracker[v][h] \notin {None, hash}
          /\ slashValidator(v, "double_voting", h)
          /\ UNCHANGED tracker
    /\ UNCHANGED <<reg, balance, clearing, pobTest, now, restarts, history>>

\* CheckDowntime of a validator not seen for an hour, SlashForInvalidBlock.
SlashFor(v, reason, h) ==
    /\ SweepIdle
    /\ slashValidator(v, reason, h)
    /\ UNCHANGED <<reg, balance, tracker, clearing, pobTest, now, restarts, history>>

\* GetAllValidators goes through the registry, not through State.
Expired(v) == Registered(v) /\ Suspended(v) /\ now > info[v].until

\* CheckAndClearExpiredSuspensions: the list is made under vr.mu ...
CheckExpired ==
    /\ SweepIdle
    /\ \E v \in Validators : Expired(v)
    /\ clearing' = {v \in Validators : Expired(v)}
    /\ UNCHANGED <<reg, info, balance, slashing, pobTest, now, restarts, history>>

\* ... and each validator on it is released under vr.mu, whatever happened since.
ClearSuspension(v) ==
    /\ v \in clearing
    /\ clearing' = clearing \ {v}
    /\ info' = [info EXCEPT ![v] = [@ EXCEPT !.suspended = FALSE, !.until = 0]]
    /\ UNCHANGED <<reg, balance, slashing, pobTest, now, restarts, history>>

\* Only events are trimmed; doubleVoteTracker grows for ever.
CleanupOldTracking ==
    /\ SweepIdle
    /\ events' = {e \in events : e.at > now - MaxAge}
    /\ events' # events
    /\ UNCHANGED <<reg, info, balance, tracker, eventDb, slashes, clearing, pobTest, now,
                   restarts, history>>

-----------------------------------------------------------------------------
(* The PoB test.                                                           *)

PoBGet(v) ==
    /\ pobTest = None /\ info[v] # None
    /\ pobTest' = [v |-> v, record |-> info[v]]
    /\ UNCHANGED <<reg, info, balance, slashing, clearing, now, restarts, history>>

PoBUpdate ==
    /\ pobTest # None
    /\ \E good \in BOOLEAN, record \in {pobTest.record, info[pobTest.v]} :
          LET new == [record EXCEPT !.pob = good]
              old == info[pobTest.v]
          IN  /\ info' = [info EXCEPT ![pobTest.v] = new]
              /\ raced' = IF new = [old EXCEPT !.pob = good] THEN raced
                          ELSE raced \cup {pobTest.v}
    /\ pobTest' = None
    /\ UNCHANGED <<reg, balance, slashing, clearing, now, restarts, lost>>

-----------------------------------------------------------------------------
Tick ==
    /\ now < MaxTime
    /\ now' = now + 1
    /\ UNCHANGED <<reg, info, balance, slashing, clearing, pobTest, restarts, history>>

\* loadSlashingEvents keeps the keys whose first eight characters are "slashing_",
\* a string of nine: none.
LoadedEvents == {}

\* State and the slashing records are on disk; the registry starts empty.
Restart ==
    /\ restarts < MaxRestarts
    /\ restarts' = restarts + 1
    /\ lost' = lost \cup {v \in Validators : Registered(v)}
    /\ reg' = [v \in Validators |-> None]
    /\ tracker' = [v \in Validators |-> [h \in Heights |-> None]]
    /\ events' = LoadedEvents
    /\ clearing' = {}
    /\ pobTest' = None
    /\ UNCHANGED <<info, balance, eventDb, slashes, now, raced>>

GenesisInfo == [active |-> TRUE, observer |-> FALSE, observed |-> 0, pob |-> TRUE,
                suspended |-> FALSE, until |-> 0]

Init ==
    /\ reg = [v \in Validators |-> None]
    /\ info = [v \in Validators |-> IF v \in Genesis THEN GenesisInfo ELSE None]
    /\ balance = InitialBalance
    /\ tracker = [v \in Validators |-> [h \in Heights |-> None]]
    /\ events = {} /\ eventDb = {} /\ clearing = {} /\ pobTest = None
    /\ now = 0 /\ slashes = 0 /\ restarts = 0
    /\ raced = {} /\ lost = {}

Next ==
    \/ \E v \in Subjects :
          \/ RegisterValidator(v)
          \/ RequestExit(v)
          \/ ClearSuspension(v)
          \/ PoBGet(v)
          \/ \E h \in Heights :
                \/ \E hash \in Hashes : DetectDoubleVoting(v, h, hash)
                \/ \E reason \in {"downtime", "invalid_block"} : SlashFor(v, reason, h)
    \/ ActivatePendingValidators
    \/ ProcessExits
    \/ CheckExpired
    \/ CleanupOldTracking
    \/ PoBUpdate
    \/ Tick
    \/ Restart

\* Time passes, and the one-minute ticker of main runs the sweep to its end.
Fairness ==
    /\ WF_vars(Tick)
    /\ WF_vars(CheckExpired)
    /\ \A v \in Subjects : WF_vars(ClearSuspension(v))

Spec == Init /\ [][Next]_vars
FairSpec == Spec /\ Fairness

-----------------------------------------------------------------------------
(* Properties.                                                             *)

\* The fields of both stores, the accounts and the slashing manager; a balance that
\* pays the entry fee never goes below zero.
TypeOK ==
    /\ reg \in [Validators -> Registration \cup {None}]
    /\ info \in [Validators -> Info \cup {None}]
    /\ balance \in [Validators -> Nat \cup {NoAccount}]
    /\ tracker \in [Validators -> [Heights -> Hashes \cup {None}]]
    /\ events \subseteq [v : Validators, h : Heights, at : Nat]
    /\ eventDb \subseteq Validators \X Heights
    /\ clearing \subseteq Validators
    /\ pobTest \in [v : Validators, record : Info] \cup {None}
    /\ now \in Nat /\ slashes \in Nat /\ restarts \in Nat
    /\ raced \subseteq Validators /\ lost \subseteq Validators

\* The two stores agree: State has a validator active exactly while the registry does,
\* and an observer exactly while it is pending, through registration, promotion, exit
\* and re-registration.  The exceptions are the genesis validators, a validator whose
\* registration a restart lost, and one whose record a PoB test wrote back stale.
StoresAgree ==
    \A v \in Validators \ raced :
        /\ Registered(v) =>
             /\ info[v].active = (reg[v].status = "active")
             /\ info[v].observer = (reg[v].status = "pending")
        /\ ~Registered(v) /\ v \notin Genesis \cup lost => info[v] = None \/ ~info[v].active

\* A suspension is served: it ends before SuspensionEndTime only by a new registration
\* of the validator or by a stale PoB write, because sm.mu keeps a new slashing out of
\* the sweep between its list and its ClearSuspension.
SuspensionServed ==
    [][\A v \in Validators :
         Suspended(v) /\ ~Suspended(v)' =>
            now > info[v].until \/ RegisterValidator(v) \/ v \in raced']_vars

\* The automatic release works for a registered validator: its suspension ends, or it
\* leaves the registry first.
RegisteredReleased ==
    \A v \in Validators :
        Suspended(v) /\ Registered(v) ~> ~Suspended(v) \/ ~Registered(v)
=============================================================================
