--------------------------- MODULE RegistryProofs ---------------------------
(***************************************************************************)
(* TLAPS proofs about Registry, for any sets of validators, heights and    *)
(* hashes, any fees and any durations: types, agreement of the registry    *)
(* with State, and that suspensions are served.                            *)
(***************************************************************************)
EXTENDS Registry, FiniteSetTheorems, TLAPS

\* State never forgets a validator: whoever is registered, tested or about to be
\* released has a record.
KnownInv ==
    /\ \A v \in Validators : Registered(v) \/ v \in clearing => info[v] # None
    /\ pobTest # None => info[pobTest.v] # None

\* The sweep's list stays right while sm.mu keeps slashing out.
ListInv ==
    \A v \in clearing : Suspended(v) => now > info[v].until \/ v \in raced

IInv == TypeOK /\ KnownInv /\ StoresAgree /\ ListInv

-----------------------------------------------------------------------------
\* The observer time is a number between its limits' types, for any active set.
LEMMA DurationType ==
    ASSUME NEW n \in Nat PROVE calculateObserverDuration(n) \in Nat
<1>1. /\ MinValidators \in Nat /\ MaxValidators \in Nat /\ MinValidators < MaxValidators
      /\ MinDuration \in Nat /\ MaxDuration \in Nat /\ MinDuration <= MaxDuration
  BY RegistryAssumption
<1>2. CASE n < MinValidators \/ n >= MaxValidators
  BY <1>1, <1>2 DEF calculateObserverDuration
<1>3. CASE ~(n < MinValidators) /\ ~(n >= MaxValidators)
  <2>1. n - MinValidators \in Nat /\ MaxDuration - MinDuration \in Nat
    BY <1>1, <1>3
  <2>2. ASSUME NEW a \in Nat, NEW b \in Nat PROVE a * b \in Nat
    OBVIOUS
  <2>3. (n - MinValidators) * (MaxDuration - MinDuration) \in Nat
    BY <2>1, <2>2
  <2>4. MaxValidators - MinValidators \in Nat \ {0}
    BY <1>1
  <2>5. ASSUME NEW a \in Nat, NEW d \in Nat \ {0} PROVE a \div d \in Nat
    OBVIOUS
  <2>6. ((n - MinValidators) * (MaxDuration - MinDuration))
           \div (MaxValidators - MinValidators) \in Nat
    BY <2>3, <2>4, <2>5
  <2> QED
    BY <1>1, <1>3, <2>6 DEF calculateObserverDuration
<1> QED
  BY <1>2, <1>3

\* The entry fee is a number.
LEMMA FeeType ==
    ASSUME NEW d \in Nat PROVE calculateDynamicEntryFee(d) \in Nat
<1>1. FeePerTick \in Nat
  BY RegistryAssumption
<1>2. ASSUME NEW a \in Nat, NEW b \in Nat PROVE a * b \in Nat
  OBVIOUS
<1> QED
  BY <1>1, <1>2 DEF calculateDynamicEntryFee

\* The active set is finite and has a size.
LEMMA CountType == ActiveCount \in Nat
<1>1. IsFiniteSet({v \in Validators : info[v] # None /\ info[v].active})
  BY RegistryAssumption, FS_Subset
<1> QED
  BY <1>1, FS_CardinalityType DEF ActiveCount

\* A registration that is accepted leaves a balance of at least zero.
LEMMA PaidType ==
    ASSUME TypeOK, NEW v \in Validators, RegisterValidator(v)
    PROVE  /\ balance' \in [Validators -> Nat \cup {NoAccount}]
           /\ info' \in [Validators -> Info \cup {None}]
<1> DEFINE duration == calculateObserverDuration(ActiveCount)
           fee == calculateDynamicEntryFee(duration)
<1>1. duration \in Nat /\ fee \in Nat
  BY CountType, DurationType, FeeType
<1> HIDE DEF duration, fee
<1>2. /\ CanPay(v, fee)
      /\ balance' = [balance EXCEPT ![v] = IF @ = NoAccount THEN @ ELSE @ - fee]
      /\ info' = [info EXCEPT ![v] =
                    [active |-> FALSE, observer |-> TRUE, observed |-> now + duration,
                     pob |-> FALSE, suspended |-> FALSE, until |-> 0]]
  BY DEF RegisterValidator, duration, fee
<1>3. balance[v] # NoAccount => balance[v] - fee \in Nat
  BY <1>1, <1>2 DEF CanPay, TypeOK
<1>4. now + duration \in Nat
  BY <1>1 DEF TypeOK
<1> QED
  BY <1>2, <1>3, <1>4 DEF TypeOK, Info

-----------------------------------------------------------------------------
(* The inductive invariant.                                                *)

\* At the first start the registry is empty and State has the genesis validators.
LEMMA InitInv == Init => IInv
<1> SUFFICES ASSUME Init PROVE IInv
  OBVIOUS
<1>1. TypeOK
  BY RegistryAssumption DEF Init, TypeOK, Info, GenesisInfo
<1>2. KnownInv /\ ListInv
  BY DEF Init, KnownInv, ListInv, Registered
<1>3. StoresAgree
  BY DEF Init, StoresAgree, Registered
<1> QED
  BY <1>1, <1>2, <1>3 DEF IInv

\* slashValidator keeps the types of what it writes.
LEMMA SlashType ==
    ASSUME TypeOK, NEW v \in Validators, NEW reason \in Reasons, NEW h \in Heights,
           slashValidator(v, reason, h)
    PROVE  /\ info' \in [Validators -> Info \cup {None}]
           /\ events' \subseteq [v : Validators, h : Heights, at : Nat]
           /\ eventDb' \subseteq Validators \X Heights
           /\ slashes' \in Nat
<1>1. CASE info[v] = None
  BY <1>1 DEF slashValidator, TypeOK
<1>2. CASE info[v] # None
  <2>1. now + SuspensionTicks[reason] \in Nat
    BY RegistryAssumption DEF TypeOK
  <2>2. info[v] \in Info
    BY <1>2 DEF TypeOK
  <2>3. [info[v] EXCEPT !.suspended = TRUE, !.until = now + SuspensionTicks[reason]] \in Info
    BY <2>1, <2>2 DEF Info
  <2>4. info' \in [Validators -> Info \cup {None}]
    BY <1>2, <2>3 DEF slashValidator, SuspendValidator, TypeOK
  <2>5. slashes' \in Nat
    BY <1>2 DEF slashValidator, TypeOK
  <2>6. events' \subseteq [v : Validators, h : Heights, at : Nat]
    BY <1>2 DEF slashValidator, TypeOK
  <2>7. eventDb' \subseteq Validators \X Heights
    BY <1>2 DEF slashValidator, TypeOK
  <2> QED
    BY <2>4, <2>5, <2>6, <2>7
<1> QED
  BY <1>1, <1>2

\* Every operation keeps the types; an account that pays the entry fee stays at or
\* above zero.
LEMMA TypeStep == IInv /\ [Next]_vars => TypeOK'
<1> SUFFICES ASSUME IInv, [Next]_vars PROVE TypeOK'
  OBVIOUS
<1>0. TypeOK /\ KnownInv /\ Subjects \subseteq Validators
  BY RegistryAssumption DEF IInv
<1>1. ASSUME NEW v \in Subjects, RegisterValidator(v) PROVE TypeOK'
  <2>1. reg' \in [Validators -> Registration \cup {None}]
    BY <1>0, <1>1 DEF RegisterValidator, TypeOK, Registration
  <2>2. raced' \subseteq Validators /\ lost' \subseteq Validators
    BY <1>0, <1>1 DEF RegisterValidator, TypeOK
  <2>3. UNCHANGED <<slashing, clearing, pobTest, now, restarts>>
    BY <1>1 DEF RegisterValidator
  <2> QED
    BY <1>0, <1>1, <2>1, <2>2, <2>3, PaidType DEF TypeOK, slashing
<1>2. ASSUME NEW v \in Subjects, RequestExit(v) PROVE TypeOK'
  <2>1. info[v] \in Info /\ Deactivated(info[v]) \in Info
    BY <1>0, <1>2 DEF RequestExit, Deactivated, KnownInv, TypeOK, Info
  <2> QED
    BY <1>0, <1>2, <2>1 DEF RequestExit, TypeOK, Registration, slashing, history
<1>3. ASSUME NEW v \in Subjects, ClearSuspension(v) PROVE TypeOK'
  <2>1. info[v] \in Info /\ [info[v] EXCEPT !.suspended = FALSE, !.until = 0] \in Info
    BY <1>0, <1>3 DEF ClearSuspension, KnownInv, TypeOK, Info
  <2> QED
    BY <1>0, <1>3, <2>1 DEF ClearSuspension, TypeOK, slashing, history
<1>4. ASSUME NEW v \in Subjects, PoBGet(v) PROVE TypeOK'
  BY <1>0, <1>4 DEF PoBGet, TypeOK, slashing, history
<1>5. ASSUME NEW v \in Subjects, NEW h \in Heights, NEW hash \in Hashes,
             DetectDoubleVoting(v, h, hash) PROVE TypeOK'
  <2>0. UNCHANGED <<reg, balance, clearing, pobTest, now, restarts, history>>
    BY <1>5 DEF DetectDoubleVoting
  <2>1. CASE UNCHANGED <<info, events, eventDb, slashes>> /\ tracker' = [tracker EXCEPT ![v][h] = hash]
    <3>1. [tracker[v] EXCEPT ![h] = hash] \in [Heights -> Hashes \cup {None}]
      BY <1>0 DEF TypeOK
    <3>2. tracker' \in [Validators -> [Heights -> Hashes \cup {None}]]
      BY <1>0, <2>1, <3>1 DEF TypeOK
    <3> QED
      BY <1>0, <2>0, <2>1, <3>2 DEF TypeOK, history
  <2>2. CASE slashValidator(v, "double_voting", h) /\ UNCHANGED tracker
    <3>1. "double_voting" \in Reasons
      BY DEF Reasons
    <3> QED
      BY <1>0, <2>0, <2>2, <3>1, SlashType DEF TypeOK, history
  <2> QED
    BY <1>5, <2>1, <2>2 DEF DetectDoubleVoting
<1>6. ASSUME NEW v \in Subjects, NEW h \in Heights, NEW reason \in {"downtime", "invalid_block"},
             SlashFor(v, reason, h) PROVE TypeOK'
  <2>1. reason \in Reasons
    BY DEF Reasons
  <2> QED
    BY <1>0, <1>6, <2>1, SlashType DEF SlashFor, TypeOK, history
<1>7. ASSUME ActivatePendingValidators PROVE TypeOK'
  <2>1. ASSUME NEW v \in Validators, Promotable(v)
        PROVE  /\ [reg[v] EXCEPT !.status = "active"] \in Registration
               /\ [info[v] EXCEPT !.active = TRUE, !.observer = FALSE] \in Info
    <3>1. reg[v] \in Registration /\ info[v] # None
      BY <1>0, <2>1 DEF Promotable, Registered, KnownInv, TypeOK
    <3>2. info[v] \in Info
      BY <1>0, <3>1 DEF TypeOK
    <3>3. [reg[v] EXCEPT !.status = "active"] \in Registration
      BY <3>1 DEF Registration
    <3>4. [info[v] EXCEPT !.active = TRUE, !.observer = FALSE] \in Info
      BY <3>2 DEF Info
    <3> QED
      BY <3>3, <3>4
  <2>2. reg' \in [Validators -> Registration \cup {None}]
    BY <1>0, <1>7, <2>1 DEF ActivatePendingValidators, TypeOK
  <2>3. info' \in [Validators -> Info \cup {None}]
    BY <1>0, <1>7, <2>1 DEF ActivatePendingValidators, TypeOK
  <2> QED
    BY <1>0, <1>7, <2>2, <2>3 DEF ActivatePendingValidators, TypeOK, slashing, history
<1>8. ASSUME ProcessExits PROVE TypeOK'
  BY <1>0, <1>8 DEF ProcessExits, TypeOK, slashing, history
<1>9. ASSUME CheckExpired PROVE TypeOK'
  BY <1>0, <1>9 DEF CheckExpired, TypeOK, slashing, history
<1>10. ASSUME CleanupOldTracking PROVE TypeOK'
  BY <1>0, <1>10 DEF CleanupOldTracking, TypeOK, history
<1>11. ASSUME PoBUpdate PROVE TypeOK'
  <2>1. pobTest \in [v : Validators, record : Info] /\ info[pobTest.v] \in Info
    BY <1>0, <1>11 DEF PoBUpdate, KnownInv, TypeOK
  <2>2. PICK good \in BOOLEAN, record \in {pobTest.record, info[pobTest.v]} :
          /\ info' = [info EXCEPT ![pobTest.v] = [record EXCEPT !.pob = good]]
          /\ raced' \in {raced, raced \cup {pobTest.v}}
    BY <1>11 DEF PoBUpdate
  <2>3. record \in Info /\ [record EXCEPT !.pob = good] \in Info
    BY <2>1, <2>2 DEF Info
  <2>4. info' \in [Validators -> Info \cup {None}] /\ raced' \subseteq Validators
    BY <1>0, <2>1, <2>2, <2>3 DEF TypeOK
  <2> QED
    BY <1>0, <1>11, <2>4 DEF PoBUpdate, TypeOK, slashing
<1>12. ASSUME Tick PROVE TypeOK'
  BY <1>0, <1>12 DEF Tick, TypeOK, slashing, history
<1>13. ASSUME Restart PROVE TypeOK'
  BY <1>0, <1>13 DEF Restart, LoadedEvents, TypeOK
<1>14. ASSUME UNCHANGED vars PROVE TypeOK'
  BY <1>0, <1>14 DEF vars, TypeOK, slashing, history
<1> QED
  BY <1>1, <1>2, <1>3, <1>4, <1>5, <1>6, <1>7, <1>8, <1>9, <1>10, <1>11, <1>12, <1>13, <1>14
     DEF Next

-----------------------------------------------------------------------------
(* What the other conjuncts need to know of a step.                        *)

\* slashValidator touches only the suspension of a validator that State has.
LEMMA SlashFrame ==
    ASSUME TypeOK, NEW v \in Validators, NEW reason \in Reasons, NEW h \in Heights,
           slashValidator(v, reason, h)
    PROVE  \A u \in Validators :
              /\ info'[u] = None <=> info[u] = None
              /\ info[u] # None => /\ info'[u].active = info[u].active
                                   /\ info'[u].observer = info[u].observer
<1>1. CASE info[v] = None
  BY <1>1 DEF slashValidator
<1>2. CASE info[v] # None
  <2>1. info[v] \in Info
    BY <1>2 DEF TypeOK
  <2>2. info' = [info EXCEPT ![v] = [@ EXCEPT !.suspended = TRUE,
                                              !.until = now + SuspensionTicks[reason]]]
    BY <1>2 DEF slashValidator, SuspendValidator
  <2>3. /\ info'[v] = [info[v] EXCEPT !.suspended = TRUE,
                                      !.until = now + SuspensionTicks[reason]]
        /\ \A u \in Validators \ {v} : info'[u] = info[u]
    BY <2>2 DEF TypeOK
  <2>4. /\ info'[v].active = info[v].active
        /\ info'[v].observer = info[v].observer
    BY <2>1, <2>3 DEF Info
  <2>5. info'[v] # None
    <3>1. now + SuspensionTicks[reason] \in Nat
      BY RegistryAssumption DEF TypeOK
    <3>2. info'[v] \in Info
      BY <2>1, <2>3, <3>1 DEF Info
    <3> QED
      BY <3>2, RegistryAssumption
  <2> QED
    BY <1>2, <2>3, <2>4, <2>5
<1> QED
  BY <1>1, <1>2

\* RequestExit clears the active flag of its validator and nothing else.
LEMMA ExitFrame ==
    ASSUME IInv, NEW v \in Validators, RequestExit(v)
    PROVE  /\ \A u \in Validators \ {v} : info'[u] = info[u] /\ reg'[u] = reg[u]
           /\ info[v] \in Info /\ info'[v] \in Info
           /\ info'[v] = [info[v] EXCEPT !.active = FALSE]
           /\ reg[v].status = "active" /\ Registered(v)
           /\ reg'[v] = [status |-> "exiting", exit |-> now]
<1>1. info[v] \in Info
  BY DEF IInv, RequestExit, KnownInv, TypeOK
<1>2. info' = [info EXCEPT ![v] = [@ EXCEPT !.active = FALSE]]
  BY DEF RequestExit, Deactivated
<1>3. info'[v] = [info[v] EXCEPT !.active = FALSE] /\ \A u \in Validators \ {v} : info'[u] = info[u]
  BY <1>2 DEF IInv, TypeOK
<1>4. info'[v] \in Info
  BY <1>1, <1>3 DEF Info
<1> QED
  BY <1>1, <1>3, <1>4 DEF RequestExit, IInv, TypeOK

\* ClearSuspension clears the suspension of its validator and nothing else.
LEMMA ClearFrame ==
    ASSUME IInv, NEW v \in Validators, ClearSuspension(v)
    PROVE  /\ \A u \in Validators \ {v} : info'[u] = info[u]
           /\ info[v] \in Info /\ info'[v] \in Info
           /\ info'[v] = [info[v] EXCEPT !.suspended = FALSE, !.until = 0]
<1>1. info[v] \in Info
  BY DEF IInv, ClearSuspension, KnownInv, TypeOK
<1>2. /\ info'[v] = [info[v] EXCEPT !.suspended = FALSE, !.until = 0]
      /\ \A u \in Validators \ {v} : info'[u] = info[u]
  BY DEF ClearSuspension, IInv, TypeOK
<1>3. [info[v] EXCEPT !.suspended = FALSE, !.until = 0] \in Info
  BY <1>1 DEF Info
<1> QED
  BY <1>1, <1>2, <1>3

\* RegisterValidator gives its validator a fresh record in both stores.
LEMMA RegisterFrame ==
    ASSUME IInv, NEW v \in Validators, RegisterValidator(v)
    PROVE  /\ \A u \in Validators \ {v} : info'[u] = info[u] /\ reg'[u] = reg[u]
           /\ info'[v] # None /\ info'[v].active = FALSE /\ info'[v].observer = TRUE
           /\ info'[v].suspended = FALSE
           /\ reg'[v] # None /\ reg'[v].status = "pending"
<1>1. \E d : info' = [info EXCEPT ![v] =
                       [active |-> FALSE, observer |-> TRUE, observed |-> now + d,
                        pob |-> FALSE, suspended |-> FALSE, until |-> 0]]
  BY DEF RegisterValidator
<1>2. reg' = [reg EXCEPT ![v] = [status |-> "pending", exit |-> 0]]
  BY DEF RegisterValidator
<1>3. info' \in [Validators -> Info \cup {None}]
  BY PaidType DEF IInv
<1>4. [status |-> "pending", exit |-> 0] \in Registration
  BY DEF Registration
<1>5. reg'[v] # None /\ reg'[v].status = "pending"
  BY <1>2, <1>4, RegistryAssumption DEF IInv, TypeOK
<1>6. /\ \A u \in Validators \ {v} : info'[u] = info[u] /\ reg'[u] = reg[u]
      /\ info'[v].active = FALSE /\ info'[v].observer = TRUE /\ info'[v].suspended = FALSE
  BY <1>1, <1>2 DEF IInv, TypeOK
<1>7. info'[v] # None
  <2>2. calculateObserverDuration(ActiveCount) \in Nat
    BY CountType, DurationType
  <2>3. now + calculateObserverDuration(ActiveCount) \in Nat
    BY <2>2 DEF IInv, TypeOK
  <2>4. [active |-> FALSE, observer |-> TRUE, observed |-> now + calculateObserverDuration(ActiveCount),
         pob |-> FALSE, suspended |-> FALSE, until |-> 0] \in Info
    BY <2>3 DEF Info
  <2> QED
    BY <2>4, RegistryAssumption DEF RegisterValidator, IInv, TypeOK
<1> QED
  BY <1>5, <1>6, <1>7

\* A PoB test changes the record of its validator only, and unless it is counted as
\* raced only the score.
LEMMA PoBFrame ==
    ASSUME IInv, PoBUpdate
    PROVE  /\ pobTest.v \in Validators
           /\ \A u \in Validators \ {pobTest.v} : info'[u] = info[u]
           /\ info[pobTest.v] # None /\ info'[pobTest.v] # None
           /\ raced \subseteq raced'
           /\ pobTest.v \notin raced' =>
                /\ info'[pobTest.v].active = info[pobTest.v].active
                /\ info'[pobTest.v].observer = info[pobTest.v].observer
                /\ info'[pobTest.v].suspended = info[pobTest.v].suspended
                /\ info'[pobTest.v].until = info[pobTest.v].until
<1>1. pobTest \in [v : Validators, record : Info] /\ info[pobTest.v] \in Info
  BY DEF IInv, PoBUpdate, KnownInv, TypeOK
<1>2. PICK good \in BOOLEAN, record \in {pobTest.record, info[pobTest.v]} :
        /\ info' = [info EXCEPT ![pobTest.v] = [record EXCEPT !.pob = good]]
        /\ raced' = IF [record EXCEPT !.pob = good] = [info[pobTest.v] EXCEPT !.pob = good]
                    THEN raced ELSE raced \cup {pobTest.v}
  BY DEF PoBUpdate
<1>3. record \in Info /\ [record EXCEPT !.pob = good] \in Info
  BY <1>1, <1>2 DEF Info
<1>4. /\ info'[pobTest.v] = [record EXCEPT !.pob = good]
      /\ \A u \in Validators \ {pobTest.v} : info'[u] = info[u]
  BY <1>1, <1>2 DEF IInv, TypeOK
<1>5. info'[pobTest.v] # None /\ info[pobTest.v] # None
  BY <1>1, <1>3, <1>4, RegistryAssumption
<1>6. ASSUME pobTest.v \notin raced'
      PROVE  /\ info'[pobTest.v].active = info[pobTest.v].active
             /\ info'[pobTest.v].observer = info[pobTest.v].observer
             /\ info'[pobTest.v].suspended = info[pobTest.v].suspended
             /\ info'[pobTest.v].until = info[pobTest.v].until
  <2>1. info'[pobTest.v] = [info[pobTest.v] EXCEPT !.pob = good]
    BY <1>2, <1>4, <1>6
  <2> QED
    BY <1>1, <2>1 DEF Info
<1> QED
  BY <1>1, <1>2, <1>4, <1>5, <1>6

\* ActivatePendingValidators makes active what was pending, in both stores.
LEMMA PromoteFrame ==
    ASSUME IInv, ActivatePendingValidators, NEW u \in Validators
    PROVE  /\ ~Promotable(u) => info'[u] = info[u] /\ reg'[u] = reg[u]
           /\ Promotable(u) =>
                /\ reg[u] # None /\ info[u] # None
                /\ reg'[u] # None /\ reg'[u].status = "active"
                /\ info'[u] # None /\ info'[u].active = TRUE /\ info'[u].observer = FALSE
                /\ info'[u].suspended = info[u].suspended /\ info'[u].until = info[u].until
<1>1. ~Promotable(u) => info'[u] = info[u] /\ reg'[u] = reg[u]
  BY DEF ActivatePendingValidators
<1>2. ASSUME Promotable(u)
      PROVE  /\ reg'[u] = [reg[u] EXCEPT !.status = "active"]
             /\ info'[u] = [info[u] EXCEPT !.active = TRUE, !.observer = FALSE]
  BY <1>2 DEF ActivatePendingValidators
<1>3. ASSUME Promotable(u) PROVE reg[u] \in Registration /\ info[u] # None
  BY <1>3 DEF Promotable, Registered, IInv, KnownInv, TypeOK
<1>4. ASSUME Promotable(u) PROVE info[u] \in Info
  BY <1>4, <1>3 DEF IInv, TypeOK
<1>5. ASSUME Promotable(u)
      PROVE  reg'[u] \in Registration /\ reg'[u].status = "active"
  BY <1>2, <1>3, <1>5 DEF Registration
<1>6. ASSUME Promotable(u)
      PROVE  /\ info'[u] \in Info /\ info'[u].active = TRUE /\ info'[u].observer = FALSE
             /\ info'[u].suspended = info[u].suspended /\ info'[u].until = info[u].until
  BY <1>2, <1>4, <1>6 DEF Info
<1> QED
  BY <1>1, <1>3, <1>5, <1>6, RegistryAssumption

\* State never loses a validator, so whoever is registered, tested or on the sweep's
\* list has a record after every step.
LEMMA KnownStep == IInv /\ [Next]_vars => KnownInv'
<1> SUFFICES ASSUME IInv, [Next]_vars PROVE KnownInv'
  OBVIOUS
<1>0. TypeOK /\ KnownInv /\ Subjects \subseteq Validators
  BY RegistryAssumption DEF IInv
<1>1. ASSUME NEW v \in Subjects, RegisterValidator(v) PROVE KnownInv'
  BY <1>0, <1>1, RegisterFrame DEF RegisterValidator, KnownInv, Registered, TypeOK
<1>2. ASSUME NEW v \in Subjects, RequestExit(v) PROVE KnownInv'
  <2>1. info'[v] # None /\ \A u \in Validators \ {v} : info'[u] = info[u] /\ reg'[u] = reg[u]
    BY <1>0, <1>2, ExitFrame, RegistryAssumption
  <2> QED
    BY <1>0, <1>2, <2>1 DEF RequestExit, KnownInv, Registered, TypeOK
<1>3. ASSUME NEW v \in Subjects, ClearSuspension(v) PROVE KnownInv'
  <2>1. info'[v] # None /\ \A u \in Validators \ {v} : info'[u] = info[u]
    BY <1>0, <1>3, ClearFrame, RegistryAssumption
  <2> QED
    BY <1>0, <1>3, <2>1 DEF ClearSuspension, KnownInv, Registered, TypeOK
<1>4. ASSUME NEW v \in Subjects, PoBGet(v) PROVE KnownInv'
  BY <1>0, <1>4 DEF PoBGet, KnownInv, Registered
<1>5. ASSUME NEW v \in Validators, NEW reason \in Reasons, NEW h \in Heights,
             slashValidator(v, reason, h), UNCHANGED <<reg, clearing, pobTest>>
      PROVE  KnownInv'
  <2>1. \A u \in Validators : info'[u] = None <=> info[u] = None
    BY <1>0, <1>5, SlashFrame
  <2> QED
    BY <1>0, <1>5, <2>1 DEF KnownInv, Registered, TypeOK
<1>6. ASSUME NEW v \in Subjects, NEW h \in Heights, NEW hash \in Hashes,
             DetectDoubleVoting(v, h, hash) PROVE KnownInv'
  <2>1. CASE UNCHANGED info
    BY <1>0, <1>6, <2>1 DEF DetectDoubleVoting, KnownInv, Registered
  <2>2. CASE slashValidator(v, "double_voting", h)
    BY <1>0, <1>5, <1>6, <2>2 DEF DetectDoubleVoting, Reasons
  <2> QED
    BY <1>6, <2>1, <2>2 DEF DetectDoubleVoting
<1>7. ASSUME NEW v \in Subjects, NEW h \in Heights, NEW reason \in {"downtime", "invalid_block"},
             SlashFor(v, reason, h) PROVE KnownInv'
  BY <1>0, <1>5, <1>7 DEF SlashFor, Reasons
<1>8. ASSUME ActivatePendingValidators PROVE KnownInv'
  <2>1. \A u \in Validators : /\ info[u] # None => info'[u] # None
                              /\ reg'[u] # None => reg[u] # None
    BY <1>8, PromoteFrame
  <2> QED
    BY <1>0, <1>8, <2>1 DEF ActivatePendingValidators, KnownInv, Registered, TypeOK
<1>9. ASSUME ProcessExits PROVE KnownInv'
  BY <1>0, <1>9 DEF ProcessExits, KnownInv, Registered
<1>10. ASSUME CheckExpired PROVE KnownInv'
  BY <1>0, <1>10 DEF CheckExpired, Expired, Suspended, KnownInv, Registered
<1>11. ASSUME CleanupOldTracking PROVE KnownInv'
  BY <1>0, <1>11 DEF CleanupOldTracking, KnownInv, Registered
<1>12. ASSUME PoBUpdate PROVE KnownInv'
  BY <1>0, <1>12, PoBFrame DEF PoBUpdate, KnownInv, Registered
<1>13. ASSUME Tick PROVE KnownInv'
  BY <1>0, <1>13 DEF Tick, KnownInv, Registered
<1>14. ASSUME Restart PROVE KnownInv'
  BY <1>0, <1>14 DEF Restart, KnownInv, Registered
<1>15. ASSUME UNCHANGED vars PROVE KnownInv'
  BY <1>0, <1>15 DEF vars, KnownInv, Registered
<1> QED
  BY <1>1, <1>2, <1>3, <1>4, <1>6, <1>7, <1>8, <1>9, <1>10, <1>11, <1>12, <1>13, <1>14, <1>15
     DEF Next

\* One validator's part of StoresAgree.
AgreesOn(v) ==
    /\ Registered(v) =>
         /\ info[v].active = (reg[v].status = "active")
         /\ info[v].observer = (reg[v].status = "pending")
    /\ ~Registered(v) /\ v \notin Genesis \cup lost => info[v] = None \/ ~info[v].active

\* Registry and State change the flags of a validator together.
LEMMA AgreeStep == IInv /\ [Next]_vars => StoresAgree'
<1> SUFFICES ASSUME IInv, [Next]_vars PROVE StoresAgree'
  OBVIOUS
<1>0. TypeOK /\ KnownInv /\ Subjects \subseteq Validators
  BY RegistryAssumption DEF IInv
<1>a. \A u \in Validators \ raced : AgreesOn(u)
  BY DEF IInv, StoresAgree, AgreesOn
<1> SUFFICES ASSUME NEW u \in Validators, u \notin raced' PROVE AgreesOn(u)'
  BY DEF StoresAgree, AgreesOn
<1>b. ASSUME u \notin raced, lost' = lost, reg'[u] = reg[u], info'[u] = info[u] PROVE AgreesOn(u)'
  BY <1>a, <1>b DEF AgreesOn, Registered
<1>1. ASSUME NEW v \in Subjects, RegisterValidator(v) PROVE AgreesOn(u)'
  <2>1. CASE u = v
    <3>1. /\ info'[u].active = FALSE /\ info'[u].observer = TRUE
          /\ reg'[u] # None /\ reg'[u].status = "pending"
      BY <1>0, <1>1, <2>1, RegisterFrame
    <3> QED
      BY <3>1 DEF AgreesOn, Registered
  <2>2. CASE u # v
    <3>1. info'[u] = info[u] /\ reg'[u] = reg[u]
      BY <1>0, <1>1, <2>2, RegisterFrame
    <3>2. u \notin raced /\ (u \in lost' <=> u \in lost)
      BY <1>1, <2>2 DEF RegisterValidator
    <3> QED
      BY <1>a, <3>1, <3>2 DEF AgreesOn, Registered
  <2> QED
    BY <2>1, <2>2
<1>2. ASSUME NEW v \in Subjects, RequestExit(v) PROVE AgreesOn(u)'
  <2>0. u \notin raced /\ lost' = lost
    BY <1>2 DEF RequestExit, history
  <2>1. CASE u = v
    <3>1. /\ info[u] \in Info /\ info'[u] = [info[u] EXCEPT !.active = FALSE]
          /\ reg[u].status = "active" /\ Registered(u)
          /\ reg'[u] = [status |-> "exiting", exit |-> now]
      BY <1>0, <1>2, <2>1, ExitFrame
    <3>2. info'[u].active = FALSE /\ info'[u].observer = info[u].observer
      BY <3>1 DEF Info
    <3>3. info[u].observer = FALSE
      BY <1>a, <2>0, <3>1 DEF AgreesOn
    <3>4. reg'[u].status = "exiting"
      BY <3>1
    <3>5. Registered(u)'
      BY <3>1, <1>0, RegistryAssumption DEF Registered, Registration, TypeOK
    <3> QED
      BY <3>2, <3>3, <3>4, <3>5 DEF AgreesOn
  <2>2. CASE u # v
    BY <1>0, <1>2, <1>b, <2>0, <2>2, ExitFrame
  <2> QED
    BY <2>1, <2>2
<1>3. ASSUME NEW v \in Subjects, ClearSuspension(v) PROVE AgreesOn(u)'
  <2>0. u \notin raced /\ lost' = lost /\ reg' = reg
    BY <1>3 DEF ClearSuspension, history
  <2>1. CASE u = v
    <3>1. info[u] \in Info /\ info'[u] = [info[u] EXCEPT !.suspended = FALSE, !.until = 0]
      BY <1>0, <1>3, <2>1, ClearFrame
    <3>2. info'[u].active = info[u].active /\ info'[u].observer = info[u].observer
      BY <3>1 DEF Info
    <3>3. info[u] # None
      BY <3>1, RegistryAssumption
    <3> QED
      BY <1>a, <2>0, <3>2, <3>3 DEF AgreesOn, Registered
  <2>2. CASE u # v
    BY <1>0, <1>3, <1>b, <2>0, <2>2, ClearFrame
  <2> QED
    BY <2>1, <2>2
<1>4. ASSUME NEW v \in Subjects, PoBGet(v) PROVE AgreesOn(u)'
  BY <1>4, <1>b DEF PoBGet, history
<1>5. ASSUME NEW v \in Validators, NEW reason \in Reasons, NEW h \in Heights,
             slashValidator(v, reason, h), UNCHANGED <<reg, lost, raced>>
      PROVE  AgreesOn(u)'
  <2>1. /\ info'[u] = None <=> info[u] = None
        /\ info[u] # None => /\ info'[u].active = info[u].active
                             /\ info'[u].observer = info[u].observer
    BY <1>0, <1>5, SlashFrame
  <2>2. Registered(u) => info[u] # None
    BY <1>0 DEF KnownInv
  <2> QED
    BY <1>a, <1>5, <2>1, <2>2 DEF AgreesOn, Registered
<1>6. ASSUME NEW v \in Subjects, NEW h \in Heights, NEW hash \in Hashes,
             DetectDoubleVoting(v, h, hash) PROVE AgreesOn(u)'
  <2>1. CASE UNCHANGED info
    BY <1>b, <1>6, <2>1 DEF DetectDoubleVoting, history
  <2>2. CASE slashValidator(v, "double_voting", h)
    BY <1>0, <1>5, <1>6, <2>2 DEF DetectDoubleVoting, Reasons, history
  <2> QED
    BY <1>6, <2>1, <2>2 DEF DetectDoubleVoting
<1>7. ASSUME NEW v \in Subjects, NEW h \in Heights, NEW reason \in {"downtime", "invalid_block"},
             SlashFor(v, reason, h) PROVE AgreesOn(u)'
  BY <1>0, <1>5, <1>7 DEF SlashFor, Reasons, history
<1>8. ASSUME ActivatePendingValidators PROVE AgreesOn(u)'
  <2>0. u \notin raced /\ lost' = lost
    BY <1>8 DEF ActivatePendingValidators, history
  <2>1. CASE Promotable(u)
    <3>1. /\ reg'[u] # None /\ reg'[u].status = "active"
          /\ info'[u].active = TRUE /\ info'[u].observer = FALSE
      BY <1>8, <2>1, PromoteFrame
    <3> QED
      BY <3>1 DEF AgreesOn, Registered
  <2>2. CASE ~Promotable(u)
    BY <1>8, <1>b, <2>0, <2>2, PromoteFrame
  <2> QED
    BY <2>1, <2>2
<1>9. ASSUME ProcessExits PROVE AgreesOn(u)'
  <2>0. u \notin raced /\ lost' = lost /\ info' = info
    BY <1>9 DEF ProcessExits, history
  <2>1. CASE reg'[u] = reg[u]
    BY <1>b, <2>0, <2>1
  <2>2. CASE reg'[u] # reg[u]
    <3>1. Registered(u) /\ reg[u].status = "exiting" /\ reg'[u] = None
      BY <1>9, <2>2 DEF ProcessExits
    <3>2. info[u].active = FALSE
      BY <1>a, <2>0, <3>1 DEF AgreesOn
    <3> QED
      BY <2>0, <3>1, <3>2 DEF AgreesOn, Registered
  <2> QED
    BY <2>1, <2>2
<1>10. ASSUME CheckExpired PROVE AgreesOn(u)'
  BY <1>10, <1>b DEF CheckExpired, history
<1>11. ASSUME CleanupOldTracking PROVE AgreesOn(u)'
  BY <1>11, <1>b DEF CleanupOldTracking, history
<1>12. ASSUME PoBUpdate PROVE AgreesOn(u)'
  <2>0. u \notin raced /\ lost' = lost /\ reg' = reg
    BY <1>12, PoBFrame DEF PoBUpdate
  <2>1. CASE u = pobTest.v
    BY <1>12, <1>a, <2>0, <2>1, PoBFrame DEF AgreesOn, Registered
  <2>2. CASE u # pobTest.v
    BY <1>12, <1>b, <2>0, <2>2, PoBFrame
  <2> QED
    BY <2>1, <2>2
<1>13. ASSUME Tick PROVE AgreesOn(u)'
  BY <1>13, <1>b DEF Tick, history
<1>14. ASSUME Restart PROVE AgreesOn(u)'
  BY <1>14, <1>a DEF Restart, AgreesOn, Registered
<1>15. ASSUME UNCHANGED vars PROVE AgreesOn(u)'
  BY <1>15, <1>b DEF vars, history
<1> QED
  BY <1>1, <1>2, <1>3, <1>4, <1>6, <1>7, <1>8, <1>9, <1>10, <1>11, <1>12, <1>13, <1>14, <1>15
     DEF Next

\* One validator's part of ListInv.
ListedRightly(v) == v \in clearing /\ Suspended(v) => now > info[v].until \/ v \in raced

\* While the sweep works no new suspension starts, because slashing needs sm.mu: who is
\* on the list and still suspended has served, or its record was written back stale.
LEMMA ListStep == IInv /\ [Next]_vars => ListInv'
<1> SUFFICES ASSUME IInv, [Next]_vars PROVE ListInv'
  OBVIOUS
<1>0. TypeOK /\ KnownInv /\ Subjects \subseteq Validators
  BY RegistryAssumption DEF IInv
<1>a. \A u \in Validators : ListedRightly(u)
  BY <1>0 DEF IInv, ListInv, ListedRightly
<1>t. TypeOK'
  BY TypeStep
<1> SUFFICES ASSUME NEW u \in Validators PROVE ListedRightly(u)'
  BY <1>t DEF ListInv, ListedRightly, TypeOK
<1>b. ASSUME clearing' \subseteq clearing, info'[u] = info[u], now' = now,
             u \in raced => u \in raced'
      PROVE  ListedRightly(u)'
  BY <1>a, <1>b DEF ListedRightly, Suspended
<1>1. ASSUME NEW v \in Subjects, RegisterValidator(v) PROVE ListedRightly(u)'
  <2>1. CASE u = v
    BY <1>0, <1>1, <2>1, RegisterFrame DEF ListedRightly, Suspended
  <2>2. CASE u # v
    <3>1. info'[u] = info[u]
      BY <1>0, <1>1, <2>2, RegisterFrame
    <3>2. clearing' = clearing /\ now' = now /\ raced' = raced \ {v}
      BY <1>1 DEF RegisterValidator
    <3> QED
      BY <1>b, <2>2, <3>1, <3>2
  <2> QED
    BY <2>1, <2>2
<1>2. ASSUME NEW v \in Subjects, RequestExit(v) PROVE ListedRightly(u)'
  <2>0. clearing' = clearing /\ now' = now /\ raced' = raced
    BY <1>2 DEF RequestExit, history
  <2>1. CASE u = v
    <3>1. info[u] \in Info /\ info'[u] = [info[u] EXCEPT !.active = FALSE]
      BY <1>0, <1>2, <2>1, ExitFrame
    <3>2. info'[u].suspended = info[u].suspended /\ info'[u].until = info[u].until
      BY <3>1 DEF Info
    <3>3. info[u] # None
      BY <3>1, RegistryAssumption
    <3> QED
      BY <1>a, <2>0, <3>2, <3>3 DEF ListedRightly, Suspended
  <2>2. CASE u # v
    BY <1>0, <1>2, <1>b, <2>0, <2>2, ExitFrame
  <2> QED
    BY <2>1, <2>2
<1>3. ASSUME NEW v \in Subjects, ClearSuspension(v) PROVE ListedRightly(u)'
  <2>0. clearing' = clearing \ {v} /\ now' = now /\ raced' = raced
    BY <1>3 DEF ClearSuspension, history
  <2>1. CASE u = v
    BY <2>0, <2>1 DEF ListedRightly
  <2>2. CASE u # v
    BY <1>0, <1>3, <1>b, <2>0, <2>2, ClearFrame
  <2> QED
    BY <2>1, <2>2
<1>4. ASSUME NEW v \in Subjects, PoBGet(v) PROVE ListedRightly(u)'
  BY <1>4, <1>b DEF PoBGet, history
<1>5. ASSUME SweepIdle, clearing' = clearing PROVE ListedRightly(u)'
  BY <1>5 DEF SweepIdle, ListedRightly
<1>6. ASSUME NEW v \in Subjects, NEW h \in Heights, NEW hash \in Hashes,
             DetectDoubleVoting(v, h, hash) PROVE ListedRightly(u)'
  BY <1>5, <1>6 DEF DetectDoubleVoting
<1>7. ASSUME NEW v \in Subjects, NEW h \in Heights, NEW reason \in {"downtime", "invalid_block"},
             SlashFor(v, reason, h) PROVE ListedRightly(u)'
  BY <1>5, <1>7 DEF SlashFor
<1>8. ASSUME ActivatePendingValidators PROVE ListedRightly(u)'
  <2>0. clearing' = clearing /\ now' = now /\ raced' = raced
    BY <1>8 DEF ActivatePendingValidators, history
  <2>1. CASE Promotable(u)
    BY <1>8, <1>a, <2>0, <2>1, PromoteFrame DEF ListedRightly, Suspended
  <2>2. CASE ~Promotable(u)
    BY <1>8, <1>b, <2>0, <2>2, PromoteFrame
  <2> QED
    BY <2>1, <2>2
<1>9. ASSUME ProcessExits PROVE ListedRightly(u)'
  BY <1>9, <1>b DEF ProcessExits, history
<1>10. ASSUME CheckExpired PROVE ListedRightly(u)'
  BY <1>10 DEF CheckExpired, Expired, ListedRightly, Suspended
<1>11. ASSUME CleanupOldTracking PROVE ListedRightly(u)'
  BY <1>11, <1>b DEF CleanupOldTracking, history
<1>12. ASSUME PoBUpdate PROVE ListedRightly(u)'
  <2>0. clearing' = clearing /\ now' = now /\ raced \subseteq raced'
    BY <1>12, PoBFrame DEF PoBUpdate
  <2>1. CASE u = pobTest.v
    BY <1>12, <1>a, <2>0, <2>1, PoBFrame DEF ListedRightly, Suspended
  <2>2. CASE u # pobTest.v
    BY <1>12, <1>b, <2>0, <2>2, PoBFrame
  <2> QED
    BY <2>1, <2>2
<1>13. ASSUME Tick PROVE ListedRightly(u)'
  <2>1. CASE Suspended(u) /\ u \in clearing
    <3>1. info[u].until \in Nat /\ now \in Nat
      <4>1. info[u] \in Info
        BY <1>0, <2>1 DEF Suspended, TypeOK
      <4> QED
        BY <1>0, <4>1 DEF Info, TypeOK
    <3>2. now > info[u].until \/ u \in raced
      BY <1>a, <2>1 DEF ListedRightly
    <3>3. now' = now + 1 /\ info' = info /\ raced' = raced
      BY <1>13 DEF Tick, history
    <3> QED
      BY <3>1, <3>2, <3>3 DEF ListedRightly
  <2>2. CASE ~(Suspended(u) /\ u \in clearing)
    BY <1>13, <2>2 DEF Tick, ListedRightly, Suspended
  <2> QED
    BY <2>1, <2>2
<1>14. ASSUME Restart PROVE ListedRightly(u)'
  BY <1>14 DEF Restart, ListedRightly
<1>15. ASSUME UNCHANGED vars PROVE ListedRightly(u)'
  BY <1>15, <1>b DEF vars, history
<1> QED
  BY <1>1, <1>2, <1>3, <1>4, <1>6, <1>7, <1>8, <1>9, <1>10, <1>11, <1>12, <1>13, <1>14, <1>15
     DEF Next

-----------------------------------------------------------------------------
(* Theorems.                                                               *)

\* The inductive invariant holds in every reachable state.
LEMMA IInvAlways == Spec => []IInv
<1>1. IInv /\ [Next]_vars => IInv'
  BY TypeStep, KnownStep, AgreeStep, ListStep DEF IInv
<1> QED
  BY InitInv, <1>1, PTL DEF Spec

\* The registry, State, the accounts and the slashing manager are well typed; no
\* registration takes an account below zero.
THEOREM TypeCorrect == Spec => []TypeOK
<1>1. IInv => TypeOK
  BY DEF IInv
<1> QED
  BY IInvAlways, <1>1, PTL

\* The registry and State agree on who is active and who observes, for every validator
\* that neither a restart nor a stale PoB write hit.
THEOREM StoresStayInAgreement == Spec => []StoresAgree
<1>1. IInv => StoresAgree
  BY DEF IInv
<1> QED
  BY IInvAlways, <1>1, PTL

\* A suspension is ended early by nothing but a new registration or a stale PoB write:
\* the sweep releases only whose time is over.
THEOREM SuspensionsAreServed == Spec => SuspensionServed
<1> DEFINE Served(v) == Suspended(v) /\ ~Suspended(v)' =>
                           now > info[v].until \/ RegisterValidator(v) \/ v \in raced'
<1>1. IInv /\ [Next]_vars => [\A v \in Validators : Served(v)]_vars
  <2> SUFFICES ASSUME IInv, Next, NEW u \in Validators, Suspended(u), ~Suspended(u)'
               PROVE  now > info[u].until \/ RegisterValidator(u) \/ u \in raced'
    BY DEF Suspended, vars
  <2>0. TypeOK /\ Subjects \subseteq Validators
    BY RegistryAssumption DEF IInv
  <2>a. ASSUME info'[u] = info[u] PROVE FALSE
    BY <2>a DEF Suspended
  <2>1. ASSUME NEW v \in Subjects, RegisterValidator(v) PROVE RegisterValidator(u)
    <3>1. CASE u = v
      BY <2>1, <3>1
    <3>2. CASE u # v
      BY <2>0, <2>1, <2>a, <3>2, RegisterFrame
    <3> QED
      BY <3>1, <3>2
  <2>2. ASSUME NEW v \in Subjects, RequestExit(v) PROVE FALSE
    <3>1. CASE u = v
      <4>1. info'[u] \in Info /\ info[u] \in Info /\ info'[u] = [info[u] EXCEPT !.active = FALSE]
        BY <2>0, <2>2, <3>1, ExitFrame
      <4>2. info'[u].suspended = info[u].suspended
        BY <4>1 DEF Info
      <4>3. info'[u] # None
        BY <4>1, RegistryAssumption
      <4> QED
        BY <4>2, <4>3 DEF Suspended
    <3>2. CASE u # v
      BY <2>0, <2>2, <2>a, <3>2, ExitFrame
    <3> QED
      BY <3>1, <3>2
  <2>3. ASSUME NEW v \in Subjects, ClearSuspension(v) PROVE now > info[u].until \/ u \in raced'
    <3>1. CASE u = v
      BY <2>3, <3>1 DEF ClearSuspension, history, IInv, ListInv
    <3>2. CASE u # v
      BY <2>0, <2>3, <2>a, <3>2, ClearFrame
    <3> QED
      BY <3>1, <3>2
  <2>4. ASSUME NEW v \in Validators, NEW reason \in Reasons, NEW h \in Heights,
               slashValidator(v, reason, h) PROVE FALSE
    <3>1. CASE info[v] = None
      BY <2>4, <2>a, <3>1 DEF slashValidator
    <3>2. CASE info[v] # None
      <4>1. info[v] \in Info
        BY <2>0, <3>2 DEF TypeOK
      <4>2. info' = [info EXCEPT ![v] = [@ EXCEPT !.suspended = TRUE,
                                                  !.until = now + SuspensionTicks[reason]]]
        BY <2>4, <3>2 DEF slashValidator, SuspendValidator
      <4>3. u = v
        BY <2>0, <2>a, <4>2 DEF TypeOK
      <4>4. info'[u] = [info[u] EXCEPT !.suspended = TRUE,
                                       !.until = now + SuspensionTicks[reason]]
        BY <2>0, <4>2, <4>3 DEF TypeOK
      <4>5. info'[u].suspended = TRUE
        BY <4>1, <4>3, <4>4 DEF Info
      <4>6. info'[u] # None
        BY <2>0, <2>4, <3>2, <4>3, SlashFrame
      <4> QED
        BY <4>5, <4>6 DEF Suspended
    <3> QED
      BY <3>1, <3>2
  <2>5. ASSUME NEW v \in Subjects, NEW h \in Heights, NEW hash \in Hashes,
               DetectDoubleVoting(v, h, hash) PROVE FALSE
    <3>1. UNCHANGED info \/ slashValidator(v, "double_voting", h)
      BY <2>5 DEF DetectDoubleVoting
    <3> QED
      BY <2>0, <2>4, <2>a, <3>1 DEF Reasons
  <2>6. ASSUME NEW v \in Subjects, NEW h \in Heights, NEW reason \in {"downtime", "invalid_block"},
               SlashFor(v, reason, h) PROVE FALSE
    BY <2>0, <2>4, <2>6 DEF SlashFor, Reasons
  <2>7. ASSUME ActivatePendingValidators PROVE FALSE
    BY <2>7, <2>a, PromoteFrame DEF Suspended
  <2>8. ASSUME PoBUpdate PROVE u \in raced'
    BY <2>8, <2>a, PoBFrame DEF Suspended
  <2>9. ASSUME \/ ProcessExits \/ CheckExpired \/ CleanupOldTracking \/ Tick \/ Restart
               \/ \E v \in Subjects : PoBGet(v)
        PROVE  FALSE
    BY <2>9, <2>a DEF ProcessExits, CheckExpired, CleanupOldTracking, Tick, Restart, PoBGet
  <2> QED
    BY <2>1, <2>2, <2>3, <2>5, <2>6, <2>7, <2>8, <2>9 DEF Next
<1> QED
  BY IInvAlways, <1>1, PTL DEF Spec, SuspensionServed
=============================================================================
