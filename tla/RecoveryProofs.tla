--------------------------- MODULE RecoveryProofs ---------------------------
(***************************************************************************)
(* Theorems about Recovery for any items, tasks, hosts, advice, failures   *)
(* and bounds, and whether or not the lock excludes.                       *)
(***************************************************************************)
EXTENDS Recovery, ResolutionProofs

----------------------------------------------------------------------------
(* Types.                                                                  *)

RequestTypes ==
  /\ outcome \in [Items -> {"absent", "open", "done", "dead"}]
  /\ tries \in [Items -> 0 .. MaxAttempts]
  /\ held \in Items \cup {NoItem}
  /\ answer \in Answers \cup {"none", "raised"}
  /\ unqueued \subseteq Items /\ listed \in BOOLEAN /\ polling \in BOOLEAN
  /\ ruling \in [at : {"nowhere", "case", "intent"}, state : {"RECONCILED", "MANUAL_REVIEW"}]
  /\ closed \in BOOLEAN /\ overtaken \subseteq Tasks /\ raises \in 0 .. MaxRaises

LEMMA RecoveryTypeParts == RecoveryTypeOK <=> ResolutionTypeOK /\ RequestTypes
BY DEF RecoveryTypeOK, RequestTypes

(* Only the operator does what no step of Resolution does.                 *)
LEMMA RecoverySteps ==
  [RecoveryNext]_recoveryVars =>
    [ResolutionNext]_vars \/ OperatorClosesCase \/ OperatorRules
<1> SUFFICES ASSUME [RecoveryNext]_recoveryVars, ~OperatorClosesCase, ~OperatorRules
             PROVE  [ResolutionNext]_vars
  OBVIOUS
<1>1. ASSUME NEW t \in Tasks, Calls(t) \/ CallSkipped(t) PROVE [ResolutionNext]_vars
  BY <1>1 DEF Calls, CallSkipped, ResolutionNext
<1>2. ASSUME NEW t \in Tasks, Resolves(t) PROVE ResolutionNext
  <2>1. Resolve(t)
    BY <1>2 DEF Resolves, Resolve
  <2> QED BY <2>1 DEF ResolutionNext
<1>3. ASSUME NEW t \in Tasks, Raises(t) PROVE ResolutionNext
  BY <1>3 DEF Raises, ResolutionNext
<1>4. ASSUME NEW i \in Items, Claim(i) \/ Enqueue(i) \/ EnqueueRaises(i)
      PROVE  UNCHANGED vars
  BY <1>4 DEF Claim, Enqueue, EnqueueRaises
<1>5. CASE MarkProcessed \/ Fail \/ PollerLists \/ PollerDies \/ OperatorOpens
           \/ OperatorRaises
  BY <1>5 DEF MarkProcessed, Fail, LetGo, PollerLists, PollerDies, OperatorOpens,
              OperatorRaises
<1>6. CASE ReportFails \/ WebhookArrives \/ CheckoutIsRead \/ CheckoutConfirms
           \/ KeyGoes \/ CustomerPays
  BY <1>6 DEF ReportFails, WebhookArrives, CheckoutIsRead, CheckoutConfirms, KeyGoes,
              CustomerPays, ResolutionNext
<1>7. ASSUME NEW h \in Hosts, ProcessDies(h) PROVE ResolutionNext
  BY <1>7 DEF ProcessDies, ResolutionNext
<1>8. CASE UNCHANGED recoveryVars
  BY <1>8 DEF recoveryVars
<1> QED
  BY <1>1, <1>2, <1>3, <1>4, <1>5, <1>6, <1>7, <1>8 DEF RecoveryNext

(* A request is between its two statements only if there are such requests.*)
CheckoutIsRequested == checkout => "verify_payment" \in RowWriters

LEMMA CheckoutStep ==
  CheckoutIsRequested /\ [RecoveryNext]_recoveryVars => CheckoutIsRequested'
<1> SUFFICES ASSUME CheckoutIsRequested, [RecoveryNext]_recoveryVars
             PROVE  CheckoutIsRequested'
  OBVIOUS
<1>1. CASE OperatorClosesCase \/ OperatorRules
  BY <1>1 DEF OperatorClosesCase, OperatorRules, CheckoutIsRequested
<1>2. ASSUME NEW h \in Hosts, CrashProcess(h) PROVE CheckoutIsRequested'
  BY <1>2 DEF CrashProcess, CheckoutIsRequested
<1>3. CASE CheckoutReads \/ CheckoutWrites
  BY <1>3 DEF CheckoutReads, CheckoutWrites, CheckoutIsRequested
<1>4. CASE \/ UNCHANGED vars \/ KeyExpires \/ PaymentMoves \/ ReportFailure
           \/ WebhookUpsert
           \/ \E t \in Tasks : Start(t) \/ PoolFails(t) \/ Resolve(t) \/ StatementRaises(t)
  <2>1. checkout' = checkout
    BY <1>4 DEF vars, KeyExpires, PaymentMoves, ReportFailure, WebhookUpsert, Start,
         PoolFails, Resolve, StatementRaises, Load, Count, Verify, Decide, Escalate,
         Execute, Record, RecordEvidence, RecordEffect, Commit, Finish
  <2> QED BY <2>1 DEF CheckoutIsRequested
<1> QED BY <1>1, <1>2, <1>3, <1>4, RecoverySteps DEF ResolutionNext

LEMMA RecoveryTypeInit == RecoveryInit => RecoveryTypeOK
<1> SUFFICES ASSUME RecoveryInit PROVE RecoveryTypeOK
  OBVIOUS
<1>1. ResolutionTypeOK
  BY ResolutionTypeInit DEF RecoveryInit
<1>2. RequestTypes
  <2>1. 0 \in 0 .. MaxAttempts /\ 0 \in 0 .. MaxRaises
    BY RecoveryAssumption
  <2>2. tries \in [Items -> 0 .. MaxAttempts] /\ raises \in 0 .. MaxRaises
    BY <2>1 DEF RecoveryInit
  <2>3. ruling \in [at : {"nowhere", "case", "intent"},
                    state : {"RECONCILED", "MANUAL_REVIEW"}]
    BY DEF RecoveryInit, NoRuling
  <2>4. outcome \in [Items -> {"absent", "open", "done", "dead"}]
    BY DEF RecoveryInit
  <2> QED BY <2>2, <2>3, <2>4 DEF RecoveryInit, RequestTypes
<1> QED BY <1>1, <1>2, RecoveryTypeParts

LEMMA RecoveryTypeStep ==
  RecoveryTypeOK /\ CheckoutIsRequested /\ [RecoveryNext]_recoveryVars
    => RecoveryTypeOK'
<1> SUFFICES ASSUME RecoveryTypeOK, CheckoutIsRequested, [RecoveryNext]_recoveryVars
             PROVE  RecoveryTypeOK'
  OBVIOUS
<1>0. ResolutionTypeOK /\ RequestTypes
  BY RecoveryTypeParts
<1>1. ResolutionTypeOK'
  <2>1. CASE [ResolutionNext]_vars
    BY <1>0, <2>1, ResolutionTypeStep
  <2>2. CASE OperatorClosesCase
    <3>1. cases' \in 0 .. MaxCases
      BY <1>0, <2>2, ResolutionAssumption DEF OperatorClosesCase, ResolutionTypeOK
    <3>2. UNCHANGED <<rowVars, worldVars, ledger, printed, evidence, railKeys, checkout,
                      pc, job, lockVars>>
      BY <2>2 DEF OperatorClosesCase
    <3> QED BY <1>0, <3>1, <3>2
            DEF ResolutionTypeOK, LockTypeOK, rowVars, worldVars, lockVars
  <2>3. CASE OperatorRules
    <3>1. currentState' \in States /\ resolved' \in BOOLEAN
      BY <1>0, <2>3 DEF OperatorRules, RequestTypes, States, Terminal
    <3>2. UNCHANGED <<version, linked, worldVars, logVars, railKeys, checkout, pc, job,
                      lockVars>>
      BY <2>3 DEF OperatorRules
    <3> QED BY <1>0, <3>1, <3>2
            DEF ResolutionTypeOK, LockTypeOK, worldVars, logVars, lockVars
  <2> QED BY <2>1, <2>2, <2>3, RecoverySteps
<1>2. RequestTypes'
  <2> USE <1>0 DEF queueVars, pollerVars, operatorVars
  <2>1. ASSUME NEW t \in Tasks, Calls(t) \/ CallSkipped(t) PROVE RequestTypes'
    BY <2>1 DEF Calls, CallSkipped, Says, Answers, RequestTypes
  <2>2. ASSUME NEW t \in Tasks, Resolves(t) PROVE RequestTypes'
    <3>1. /\ UNCHANGED <<outcome, tries, held, unqueued, pollerVars, ruling, closed, raises>>
          /\ answer' \in Answers \cup {"none", "raised"}
      BY <2>2 DEF Resolves, Says, Answers, RequestTypes
    <3>2. overtaken' \subseteq Tasks
      BY <2>2 DEF Resolves, RequestTypes
    <3> QED BY <3>1, <3>2 DEF RequestTypes
  <2>3. ASSUME NEW t \in Tasks, Raises(t) PROVE RequestTypes'
    <3>1. raises' \in 0 .. MaxRaises
      BY <2>3, RecoveryAssumption DEF Raises, RequestTypes
    <3>2. /\ UNCHANGED <<outcome, tries, held, unqueued, pollerVars, operatorVars>>
          /\ answer' \in Answers \cup {"none", "raised"}
      BY <2>3 DEF Raises, Says, Answers, RequestTypes
    <3> QED BY <3>1, <3>2 DEF RequestTypes
  <2>4. ASSUME NEW i \in Items, Claim(i) PROVE RequestTypes'
    <3>1. tries' \in [Items -> 0 .. MaxAttempts]
      BY <2>4, RecoveryAssumption DEF Claim, RequestTypes
    <3> QED BY <2>4, <3>1 DEF Claim, RequestTypes
  <2>5. ASSUME NEW i \in Items, Enqueue(i) \/ EnqueueRaises(i) PROVE RequestTypes'
    BY <2>5 DEF Enqueue, EnqueueRaises, RequestTypes
  <2>6. CASE MarkProcessed \/ Fail
    <3>1. PICK o \in {"open", "done", "dead"} : LetGo(o)
      BY <2>6 DEF MarkProcessed, Fail
    <3> QED BY <3>1 DEF LetGo, RequestTypes
  <2>7. CASE PollerLists \/ PollerDies
    BY <2>7, RecoveryAssumption DEF PollerLists, PollerDies, RequestTypes
  <2>8. CASE ReportFails \/ WebhookArrives \/ CheckoutConfirms
    <3>1. PICK i \in Items : Writes(i)
      <4>1. RowWriters \subseteq Items
        BY RecoveryAssumption
      <4>2. CASE ReportFails
        BY <4>1, <4>2 DEF ReportFails, ReportFailure
      <4>3. CASE WebhookArrives
        BY <4>1, <4>3 DEF WebhookArrives, WebhookUpsert
      <4>4. CASE CheckoutConfirms
        BY <4>1, <4>4 DEF CheckoutConfirms, CheckoutWrites, CheckoutIsRequested
      <4> QED BY <2>8, <4>2, <4>3, <4>4
    <3> QED BY <3>1 DEF Writes, RequestTypes
  <2>9. CASE CheckoutIsRead \/ KeyGoes \/ CustomerPays \/ UNCHANGED recoveryVars
    BY <2>9 DEF CheckoutIsRead, KeyGoes, CustomerPays, recoveryVars, RequestTypes
  <2>10. CASE OperatorOpens
    BY <2>10, RecoveryAssumption DEF OperatorOpens, RequestTypes
  <2>11. CASE OperatorClosesCase
    BY <2>11 DEF OperatorClosesCase, RequestTypes
  <2>12. CASE OperatorRules \/ OperatorRaises
    BY <2>12 DEF OperatorRules, OperatorRaises, NoRuling, RequestTypes
  <2>13. ASSUME NEW h \in Hosts, ProcessDies(h) PROVE RequestTypes'
    BY <2>13 DEF ProcessDies, NoRuling, RequestTypes
  <2> QED
    BY <2>1, <2>2, <2>3, <2>4, <2>5, <2>6, <2>7, <2>8, <2>9, <2>10, <2>11, <2>12,
       <2>13 DEF RecoveryNext
<1> QED BY <1>1, <1>2 DEF RecoveryTypeOK, RequestTypes

(* The queue, the requests and the operator's ruling keep their types.     *)
THEOREM RecoveryTypeCorrect == RecoverySpec => []RecoveryTypeOK
<1>1. RecoveryInit => CheckoutIsRequested
  BY DEF RecoveryInit, ResolutionInit, CheckoutIsRequested
<1> QED BY <1>1, CheckoutStep, RecoveryTypeInit, RecoveryTypeStep, PTL DEF RecoverySpec

----------------------------------------------------------------------------
(* Tasks that are counted as done without a resolution.                    *)

KeyHasHolder ==
  mem = {} /\ (key \in inside \cup {NoTask} \/ restarts > 0 \/ raises > 0)

LEMMA KeyHasHolderStep ==
  ASSUME ~RedisFails, RecoveryTypeOK, KeyHasHolder, [RecoveryNext]_recoveryVars
  PROVE  KeyHasHolder'
<1>0. restarts \in Nat /\ raises \in Nat
  BY RecoveryTypeParts, RecoveryAssumption DEF ResolutionTypeOK, LockTypeOK, RequestTypes
<1> USE DEF lockVars, queueVars, operatorVars, pollerVars
<1>k. ASSUME UNCHANGED <<lockVars, raises>> PROVE KeyHasHolder'
  BY <1>k DEF KeyHasHolder
<1>1. ASSUME NEW t \in Tasks, Calls(t) PROVE KeyHasHolder'
  <2>1. key' = t /\ mem' = mem /\ inside' = inside \cup {t}
    BY <1>1 DEF Calls, Start, Acquire, AcquireRedis, AcquireFallback
  <2> QED BY <2>1 DEF KeyHasHolder
<1>2. ASSUME NEW t \in Tasks, Resolves(t) PROVE KeyHasHolder'
  <2>1. CASE Finish(t)
    <3>1. key' = NoTask /\ mem' = mem
      BY <2>1 DEF Finish, Release, ReleaseRedis, ReleaseFallback
    <3> QED BY <3>1 DEF KeyHasHolder
  <2>2. CASE ~Finish(t)
    <3>1. UNCHANGED <<lockVars, raises>>
      BY <1>2, <2>2 DEF Resolves, Load, Count, Verify, Decide, Escalate, Execute, Record,
                        RecordEvidence, RecordEffect, Commit
    <3> QED BY <1>k, <3>1
  <2> QED BY <2>1, <2>2
<1>3. ASSUME NEW t \in Tasks, Raises(t) PROVE KeyHasHolder'
  <2>1. raises' > 0 /\ mem' = mem
    BY <1>0, <1>3 DEF Raises, StatementRaises, PoolFails, Abandon
  <2> QED BY <2>1 DEF KeyHasHolder
<1>4. ASSUME NEW h \in Hosts, ProcessDies(h) PROVE KeyHasHolder'
  <2>1. restarts' > 0 /\ mem' = mem \ {h}
    BY <1>0, <1>4 DEF ProcessDies, CrashProcess, CrashHost
  <2> QED BY <2>1 DEF KeyHasHolder
<1>5. CASE KeyGoes
  <2>1. key' = NoTask /\ mem' = mem
    BY <1>5 DEF KeyGoes, KeyExpires, Expire, LoseKey
  <2> QED BY <2>1 DEF KeyHasHolder
<1>6. ASSUME NEW t \in Tasks, CallSkipped(t) PROVE KeyHasHolder'
  BY <1>6, <1>k DEF CallSkipped, vars
<1>7. ASSUME NEW i \in Items, Claim(i) \/ Enqueue(i) \/ EnqueueRaises(i) PROVE KeyHasHolder'
  BY <1>7, <1>k DEF Claim, Enqueue, EnqueueRaises, vars
<1>8. CASE \/ MarkProcessed \/ Fail \/ PollerLists \/ PollerDies \/ ReportFails
           \/ WebhookArrives \/ CheckoutIsRead \/ CheckoutConfirms \/ OperatorOpens
           \/ OperatorClosesCase \/ OperatorRules \/ OperatorRaises \/ CustomerPays
           \/ UNCHANGED recoveryVars
  <2>1. UNCHANGED <<lockVars, raises>>
    BY <1>8 DEF MarkProcessed, Fail, LetGo, PollerLists, PollerDies, ReportFails,
         WebhookArrives, CheckoutIsRead, CheckoutConfirms, Writes, OperatorOpens,
         OperatorClosesCase, OperatorRules, OperatorRaises, CustomerPays, recoveryVars,
         ReportFailure, WebhookUpsert, CheckoutReads, CheckoutWrites, UnlockedWrite,
         PaymentMoves, vars
  <2> QED BY <1>k, <2>1
<1> QED BY <1>1, <1>2, <1>3, <1>4, <1>5, <1>6, <1>7, <1>8 DEF RecoveryNext

SkipIsExcused ==
  answer # "SKIPPED" /\ answer' = "SKIPPED" =>
    \/ IsTerminal(currentState)
    \/ \E t \in Tasks \ {Worker} : pc[t] # "idle"
    \/ restarts > 0 \/ raises > 0

LEMMA SkipStep ==
  ASSUME RecoveryTypeOK, KeyHasHolder, [RecoveryNext]_recoveryVars
  PROVE  SkipIsExcused
<1> SUFFICES ASSUME answer # "SKIPPED", answer' = "SKIPPED" PROVE SkipIsExcused
  BY DEF SkipIsExcused
<1> USE DEF queueVars, Says
<1>1. ASSUME NEW t \in Tasks, CallSkipped(t) PROVE SkipIsExcused
  <2>1. t = Worker /\ pc[Worker] = "idle" /\ (key # NoTask \/ HostOf[t] \in mem)
    BY <1>1 DEF CallSkipped
  <2>2. CASE key \in inside
    <3>1. key \in Tasks /\ pc[key] # "idle"
      BY <2>2, RecoveryTypeParts DEF ResolutionTypeOK
    <3> QED BY <2>1, <3>1 DEF SkipIsExcused
  <2>3. CASE restarts > 0 \/ raises > 0
    BY <2>3 DEF SkipIsExcused
  <2> QED BY <2>1, <2>2, <2>3 DEF KeyHasHolder
<1>2. ASSUME NEW t \in Tasks, Resolves(t) PROVE SkipIsExcused
  BY <1>2 DEF Resolves, SkipIsExcused
<1>3. ASSUME NEW t \in Tasks, Calls(t) \/ Raises(t) PROVE FALSE
  BY <1>3 DEF Calls, Raises
<1>4. ASSUME NEW i \in Items, Claim(i) \/ Enqueue(i) \/ EnqueueRaises(i) PROVE FALSE
  BY <1>4 DEF Claim, Enqueue, EnqueueRaises
<1>5. ASSUME NEW h \in Hosts, ProcessDies(h) PROVE FALSE
  BY <1>5 DEF ProcessDies
<1>6. CASE \/ MarkProcessed \/ Fail \/ PollerLists \/ PollerDies \/ ReportFails
           \/ WebhookArrives \/ CheckoutIsRead \/ CheckoutConfirms \/ OperatorOpens
           \/ OperatorClosesCase \/ OperatorRules \/ OperatorRaises \/ KeyGoes
           \/ CustomerPays \/ UNCHANGED recoveryVars
  BY <1>6 DEF MarkProcessed, Fail, LetGo, PollerLists, PollerDies, ReportFails,
       WebhookArrives, CheckoutIsRead, CheckoutConfirms, Writes, OperatorOpens,
       OperatorClosesCase, OperatorRules, OperatorRaises, KeyGoes, CustomerPays,
       recoveryVars
<1> QED BY <1>1, <1>2, <1>3, <1>4, <1>5, <1>6 DEF RecoveryNext

(* Where Redis answers: resolve() skips the worker's task only of a settled*)
(* intent, for another resolution under way, or for a key that a dead      *)
(* process or a failed pool left behind.                                   *)
THEOREM SkipsAreExcused ==
  ASSUME ~RedisFails
  PROVE  RecoverySpec => SkippedIsExcused
<1>1. RecoveryInit => KeyHasHolder
  BY DEF RecoveryInit, ResolutionInit, LockInit, KeyHasHolder
<1>2. RecoveryTypeOK /\ KeyHasHolder /\ [RecoveryNext]_recoveryVars => KeyHasHolder'
  BY KeyHasHolderStep
<1>3. RecoveryTypeOK /\ KeyHasHolder /\ [RecoveryNext]_recoveryVars
        => [SkipIsExcused]_recoveryVars
  BY SkipStep
<1>4. SkippedIsExcused <=> [][SkipIsExcused]_recoveryVars
  BY DEF SkippedIsExcused, SkipIsExcused
<1> QED BY <1>1, <1>2, <1>3, <1>4, RecoveryTypeCorrect, PTL DEF RecoverySpec

----------------------------------------------------------------------------
(* Escalations and rulings.                                                *)

ACaseExists == cases > 0 \/ closed

\* What is so of a resolution at each place, whoever else writes the row.
OnCourse(t) ==
  /\ pc[t] \in Holding => job[t].state # "RECONCILED"
  /\ pc[t] \in {"escalating", "recording", "evidence", "effect", "committing"}
       => job[t].final # "RECONCILED"
  /\ pc[t] \in {"executing", "recording"} => job[t].ext # "UNKNOWN"
  /\ pc[t] \in {"evidence", "effect", "committing"} /\ job[t].ext = "UNKNOWN"
       => ACaseExists

Overseen == RulingOvertakesFew /\ \A t \in Tasks : OnCourse(t)

(* No event the resolver raises leads to RECONCILED.                       *)
LEMMA OnlyOperatorsReconcile ==
  ASSUME NEW s \in States, s # "RECONCILED"
  PROVE  /\ \A a, ok : StateAfterAction(s, a, ok) # "RECONCILED"
         /\ \A ext : StateAfterRefusal(s, ext) # "RECONCILED"
<1>1. \A e \in ResolverEvents : Transition(s, e) # "RECONCILED"
  BY SMTT(60) DEF Transition, AllowedEvents, Transitions, States, Terminal,
                  ResolverEvents
<1> QED BY <1>1 DEF StateAfterAction, StateAfterRefusal, ResolverEvents

LEMMA OverseenStep ==
  ASSUME MaxCases > 0, RecoveryTypeOK, Overseen, [RecoveryNext]_recoveryVars
  PROVE  Overseen'
<1>0. ResolutionTypeOK /\ TaskTypes /\ RowTypes
  BY RecoveryTypeParts, TypeParts
<1>j. \A t \in Tasks : job[t] \in Jobs /\ pc[t] \in Places
  BY <1>0 DEF TaskTypes
<1> USE DEF Goto, rowVars, worldVars, logVars, operatorVars
<1>c. ACaseExists => ACaseExists'
  <2>1. ASSUME NEW t \in Tasks, Escalate(t) PROVE cases' > 0
    BY <1>0, <2>1, ResolutionAssumption DEF Escalate, RowTypes
  <2>2. CASE OperatorClosesCase
    BY <2>2 DEF OperatorClosesCase, ACaseExists
  <2>3. CASE OperatorRules
    BY <2>3 DEF OperatorRules, ACaseExists
  <2>4. CASE [ResolutionNext]_vars /\ ~(\E t \in Tasks : Escalate(t)) /\ ~OperatorClosesCase
    <3>1. cases' = cases
      BY <2>4, ZenonT(40) DEF ResolutionNext, Start, PoolFails, Resolve, Load, Count, Verify,
           Decide, Execute, Record, RecordEvidence, RecordEffect, Commit, Finish,
           StatementRaises, CrashProcess, KeyExpires, PaymentMoves, ReportFailure,
           WebhookUpsert, CheckoutReads, CheckoutWrites, UnlockedWrite, vars
    <3>2. closed' = closed
      <4>1. ASSUME NEW t \in Tasks,
                   Calls(t) \/ CallSkipped(t) \/ Resolves(t) \/ Raises(t)
            PROVE  closed' = closed
        BY <4>1 DEF Calls, CallSkipped, Resolves, Raises
      <4>2. ASSUME NEW i \in Items, Claim(i) \/ Enqueue(i) \/ EnqueueRaises(i)
            PROVE  closed' = closed
        BY <4>2 DEF Claim, Enqueue, EnqueueRaises
      <4>3. ASSUME NEW h \in Hosts, ProcessDies(h) PROVE closed' = closed
        BY <4>3 DEF ProcessDies
      <4>4. CASE ~ \/ \E t \in Tasks :
                        Calls(t) \/ CallSkipped(t) \/ Resolves(t) \/ Raises(t)
                   \/ \E i \in Items : Claim(i) \/ Enqueue(i) \/ EnqueueRaises(i)
                   \/ \E h \in Hosts : ProcessDies(h)
        BY <2>4, <4>4 DEF RecoveryNext, MarkProcessed, Fail, LetGo, PollerLists,
             ReportFails, WebhookArrives, CheckoutIsRead, CheckoutConfirms, Writes,
             PollerDies, OperatorOpens, OperatorRules, OperatorRaises, KeyGoes,
             CustomerPays, recoveryVars
      <4> QED BY <4>1, <4>2, <4>3, <4>4
    <3> QED BY <3>1, <3>2 DEF ACaseExists
  <2> QED BY <2>1, <2>2, <2>3, <2>4, RecoverySteps DEF ACaseExists
<1>g. ASSUME currentState' = currentState \/ currentState' # "RECONCILED",
             \A u \in Tasks : \/ pc'[u] \notin Holding
                              \/ pc'[u] = pc[u] /\ job'[u] = job[u],
             \A u \in overtaken : u \in overtaken' \/ pc'[u] \notin Holding
      PROVE  Overseen'
  <2>1. RulingOvertakesFew'
    BY <1>g DEF Overseen, RulingOvertakesFew
  <2>2. ASSUME NEW u \in Tasks PROVE OnCourse(u)'
    <3>1. CASE pc'[u] \notin Holding
      BY <3>1 DEF OnCourse, Holding
    <3>2. CASE pc'[u] = pc[u] /\ job'[u] = job[u]
      BY <1>c, <3>2 DEF Overseen, OnCourse
    <3> QED BY <1>g, <3>1, <3>2
  <2> QED BY <2>1, <2>2 DEF Overseen
<1>t. ASSUME NEW t \in Tasks, currentState' = currentState, overtaken' = overtaken,
             \A u \in Tasks \ {t} : pc'[u] = pc[u] /\ job'[u] = job[u],
             pc[t] \in Holding \/ currentState # "RECONCILED",
             OnCourse(t)'
      PROVE  Overseen'
  <2>1. RulingOvertakesFew'
    BY <1>t DEF Overseen, RulingOvertakesFew
  <2>2. ASSUME NEW u \in Tasks \ {t} PROVE OnCourse(u)'
    BY <1>c, <1>t, <2>2 DEF Overseen, OnCourse
  <2> QED BY <1>t, <2>1, <2>2 DEF Overseen
<1>1. ASSUME NEW t \in Tasks, Resolves(t) PROVE Overseen'
  <2>0. OnCourse(t)
    BY DEF Overseen
  <2>o. /\ overtaken' = IF pc'[t] = "idle" THEN overtaken \ {t} ELSE overtaken
        /\ Resolve(t)
    BY <1>1 DEF Resolves, Resolve
  <2>1. CASE Load(t)
    <3>1. /\ currentState' = currentState
          /\ \A u \in Tasks \ {t} : pc'[u] = pc[u] /\ job'[u] = job[u]
      BY <1>0, <2>1 DEF Load, TaskTypes
    <3>2. CASE IsTerminal(currentState)
      <4>1. pc'[t] = "releasing"
        BY <1>0, <2>1, <3>2 DEF Load, TaskTypes
      <4> QED BY <1>g, <2>o, <3>1, <4>1 DEF Holding
    <3>3. CASE ~IsTerminal(currentState)
      <4>1. pc'[t] = "counting" /\ job'[t].state = currentState
        BY <1>0, <1>j, <2>1, <3>3 DEF Load, TaskTypes, Jobs
      <4>2. currentState # "RECONCILED"
        BY <3>3 DEF IsTerminal, Terminal
      <4> QED BY <1>t, <2>o, <3>1, <4>1, <4>2 DEF OnCourse, Holding
    <3> QED BY <3>2, <3>3
  <2>2. CASE Count(t) \/ Verify(t)
    <3>1. /\ currentState' = currentState
          /\ pc[t] \in {"counting", "verifying"} /\ pc'[t] \in {"verifying", "deciding"}
          /\ \A u \in Tasks \ {t} : pc'[u] = pc[u] /\ job'[u] = job[u]
          /\ job'[t].state = job[t].state
      <4>1. CASE Count(t)
        <5> DEFINE c == "CAPTURE" \in ledger
        <5>1. job' = [job EXCEPT ![t].hasCapture = c]
          BY <4>1 DEF Count
        <5> HIDE DEF c
        <5> QED BY <1>0, <4>1, <5>1 DEF Count, TaskTypes, Jobs
      <4>2. CASE Verify(t)
        BY <1>0, <4>2 DEF Verify, VerifyAtProvider, VerifyRaises, VerifySynthetic,
                          Verified, TaskTypes, Jobs
      <4> QED BY <2>2, <4>1, <4>2
    <3>2. OnCourse(t)' /\ pc[t] \in Holding
      BY <2>0, <3>1 DEF OnCourse, Holding
    <3> QED BY <1>t, <2>o, <3>1, <3>2
  <2>3. CASE Decide(t)
    <3>1. /\ currentState' = currentState /\ pc[t] = "deciding"
      BY <2>3 DEF Decide
    <3>2. PICK advice :
            /\ job'[t].final = Refusal(t)
            /\ job'[t].state = job[t].state /\ job'[t].ext = job[t].ext
            /\ pc'[t] = AfterDecision(t, DecisionOn(t, advice))
            /\ \A u \in Tasks \ {t} : job'[u] = job[u] /\ pc'[u] = pc[u]
      BY <1>0, <2>3, Decided
    <3>3. job[t].state \in States /\ job[t].state # "RECONCILED"
      BY <1>j, <2>0, <3>1 DEF OnCourse, Holding, Jobs
    <3>4. Refusal(t) # "RECONCILED"
      BY <3>3, OnlyOperatorsReconcile DEF Refusal
    <3>5. job[t].ext = "UNKNOWN" => pc'[t] = "escalating"
      BY <3>2 DEF DecisionOn, Evaluate, AfterDecision, Unknown
    <3>6. pc'[t] \in {"executing", "escalating", "evidence"}
      BY <3>2 DEF AfterDecision
    <3>7. OnCourse(t)' /\ pc[t] \in Holding
      BY <3>1, <3>2, <3>3, <3>4, <3>5, <3>6 DEF OnCourse, Holding
    <3> QED BY <1>t, <2>o, <3>1, <3>2, <3>6, <3>7
  <2>4. CASE Escalate(t)
    <3>1. /\ UNCHANGED <<currentState, job>>
          /\ pc[t] = "escalating" /\ pc'[t] = "evidence"
          /\ \A u \in Tasks \ {t} : pc'[u] = pc[u]
      BY <1>0, <2>4 DEF Escalate, TaskTypes
    <3>2. cases' > 0
      BY <1>0, <2>4, ResolutionAssumption DEF Escalate, RowTypes
    <3>3. OnCourse(t)' /\ pc[t] \in Holding
      BY <2>0, <3>1, <3>2 DEF OnCourse, Holding, ACaseExists
    <3> QED BY <1>t, <2>o, <3>1, <3>3
  <2>5. CASE Execute(t)
    <3>1. PICK ok : Finished(t, ok)
      BY <2>5 DEF Execute, Applied, Refused, NoCall
    <3> DEFINE f == StateAfterAction(job[t].state, job[t].action, ok)
    <3>2. /\ currentState' = currentState /\ pc[t] = "executing"
          /\ pc'[t] \in {"recording", "evidence"}
          /\ \A u \in Tasks \ {t} : job'[u] = job[u] /\ pc'[u] = pc[u]
      BY <1>0, <2>5, <3>1 DEF Execute, Finished, TaskTypes
    <3>3. job'[t].final = f /\ job'[t].state = job[t].state /\ job'[t].ext = job[t].ext
      <4>1. job' = [job EXCEPT ![t].succeeded = ok, ![t].final = f]
        BY <3>1 DEF Finished
      <4> HIDE DEF f
      <4> QED BY <1>0, <1>j, <4>1 DEF TaskTypes, Jobs
    <3>4. f # "RECONCILED"
      BY <1>j, <2>0, <3>2, OnlyOperatorsReconcile DEF OnCourse, Holding, Jobs
    <3> HIDE DEF f
    <3>5. OnCourse(t)' /\ pc[t] \in Holding
      BY <2>0, <3>2, <3>3, <3>4 DEF OnCourse, Holding
    <3> QED BY <1>t, <2>o, <3>2, <3>5
  <2>6. CASE Record(t) \/ RecordEvidence(t) \/ RecordEffect(t)
    <3>1. /\ UNCHANGED <<currentState, job>>
          /\ \A u \in Tasks \ {t} : pc'[u] = pc[u]
          /\ \/ pc[t] = "recording" /\ pc'[t] = "evidence"
             \/ pc[t] \in {"evidence", "effect"} /\ pc'[t] \in {"effect", "committing"}
      BY <1>0, <2>6 DEF Record, RecordEvidence, RecordEffect, TaskTypes
    <3>2. OnCourse(t)' /\ pc[t] \in Holding
      BY <1>c, <2>0, <3>1 DEF OnCourse, Holding
    <3> QED BY <1>t, <2>o, <3>1, <3>2
  <2>7. CASE Commit(t)
    <3>1. /\ currentState' = job[t].final /\ pc[t] = "committing" /\ job' = job
          /\ pc'[t] = "releasing" /\ \A u \in Tasks \ {t} : pc'[u] = pc[u]
      BY <1>0, <2>7 DEF Commit, TaskTypes
    <3>2. job[t].final # "RECONCILED"
      BY <2>0, <3>1 DEF OnCourse
    <3> QED BY <1>g, <2>o, <3>1, <3>2 DEF Holding
  <2>8. CASE Finish(t)
    <3>1. /\ currentState' = currentState /\ pc'[t] = "idle"
          /\ \A u \in Tasks \ {t} : pc'[u] = pc[u] /\ job'[u] = job[u]
      BY <1>0, <2>8 DEF Finish, TaskTypes
    <3> QED BY <1>g, <2>o, <3>1 DEF Holding
  <2> QED BY <2>o, <2>1, <2>2, <2>3, <2>4, <2>5, <2>6, <2>7, <2>8 DEF Resolve
<1>2. ASSUME NEW t \in Tasks, Calls(t) \/ CallSkipped(t) \/ Raises(t) PROVE Overseen'
  <2>1. UNCHANGED <<currentState, overtaken, job>>
    BY <1>2 DEF Calls, CallSkipped, Raises, Start, PoolFails, StatementRaises, vars
  <2>2. \A u \in Tasks : pc'[u] \notin Holding \/ pc'[u] = pc[u]
    BY <1>0, <1>2 DEF Calls, CallSkipped, Raises, Start, PoolFails, StatementRaises,
                      vars, TaskTypes, Holding
  <2> QED BY <1>g, <2>1, <2>2
<1>3. ASSUME NEW i \in Items, Claim(i) \/ Enqueue(i) \/ EnqueueRaises(i) PROVE Overseen'
  <2>1. UNCHANGED <<currentState, overtaken, pc, job>>
    BY <1>3 DEF Claim, Enqueue, EnqueueRaises, vars
  <2> QED BY <1>g, <2>1
<1>4. CASE OperatorRules
  <2>1. /\ UNCHANGED <<pc, job>>
        /\ overtaken' = {t \in Tasks : pc[t] \in Holding}
    BY <1>4 DEF OperatorRules
  <2>2. RulingOvertakesFew'
    BY <2>1 DEF RulingOvertakesFew
  <2>3. ASSUME NEW u \in Tasks PROVE OnCourse(u)'
    BY <1>c, <2>1 DEF Overseen, OnCourse
  <2> QED BY <2>2, <2>3 DEF Overseen
<1>5. ASSUME NEW h \in Hosts, ProcessDies(h) PROVE Overseen'
  <2>1. /\ currentState' = currentState
        /\ overtaken' = {t \in overtaken : HostOf[t] # h}
        /\ pc' = [t \in Tasks |-> IF HostOf[t] = h THEN "idle" ELSE pc[t]]
        /\ job' = [t \in Tasks |-> IF HostOf[t] = h THEN NoJob ELSE job[t]]
    BY <1>5 DEF ProcessDies, CrashProcess
  <2>2. overtaken \subseteq Tasks
    BY RecoveryTypeParts DEF RequestTypes
  <2> QED BY <1>g, <2>1, <2>2 DEF Holding
<1>6. CASE \/ MarkProcessed \/ Fail \/ PollerLists \/ PollerDies \/ ReportFails
           \/ WebhookArrives \/ CheckoutIsRead \/ CheckoutConfirms \/ OperatorOpens
           \/ OperatorClosesCase \/ OperatorRaises \/ KeyGoes \/ CustomerPays
           \/ UNCHANGED recoveryVars
  <2>1. /\ UNCHANGED <<overtaken, pc, job>>
        /\ currentState' = currentState \/ currentState' # "RECONCILED"
    BY <1>6 DEF MarkProcessed, Fail, LetGo, PollerLists, PollerDies, ReportFails, WebhookArrives,
         CheckoutIsRead, CheckoutConfirms, Writes, OperatorOpens,
         OperatorClosesCase, OperatorRaises, KeyGoes, CustomerPays, recoveryVars,
         ReportFailure, WebhookUpsert, CheckoutReads, CheckoutWrites, UnlockedWrite,
         KeyExpires, PaymentMoves, vars
  <2> QED BY <1>g, <2>1
<1> QED BY <1>1, <1>2, <1>3, <1>4, <1>5, <1>6 DEF RecoveryNext

LEMMA OverseenInvariant ==
  ASSUME MaxCases > 0
  PROVE  RecoverySpec => []Overseen
<1>1. RecoveryInit => Overseen
  BY DEF RecoveryInit, ResolutionInit, Overseen, RulingOvertakesFew, OnCourse, Holding
<1>2. RecoveryTypeOK /\ Overseen /\ [RecoveryNext]_recoveryVars => Overseen'
  BY OverseenStep
<1> QED BY <1>1, <1>2, RecoveryTypeCorrect, PTL DEF RecoverySpec

(* However the lock fails, whatever raises and whoever closes cases: no    *)
(* resolution is about to write an escalation on unknown evidence that has *)
(* no case.                                                                *)
THEOREM EscalationsHaveCases ==
  ASSUME MaxCases > 0
  PROVE  RecoverySpec => []EscalationHasCase
<1>1. Overseen => EscalationHasCase
  BY DEF Overseen, OnCourse, EscalationHasCase, ACaseExists
<1> QED BY <1>1, OverseenInvariant, PTL

(* However the lock fails: only a resolution that had read the row when    *)
(* the operator ruled can write over the ruling.                           *)
THEOREM RulingsAreOvertakenByFew ==
  ASSUME MaxCases > 0
  PROVE  RecoverySpec => []RulingOvertakesFew
<1>1. Overseen => RulingOvertakesFew
  BY DEF Overseen
<1> QED BY <1>1, OverseenInvariant, PTL

----------------------------------------------------------------------------
(* What Resolution promises, kept by the composition: the requests, the    *)
(* worker and the poller drive its steps, and the operator's two           *)
(* statements leave alone all that its invariants speak of but the state.  *)

LEMMA OperatorStep ==
  ASSUME OperatorClosesCase \/ OperatorRules, RecoveryTypeOK
  PROVE  /\ UNCHANGED <<version, worldVars, ledger, printed, evidence, checkout, pc, job,
                        lockVars>>
         /\ currentState' \in {currentState, "RECONCILED", "MANUAL_REVIEW"}
BY RecoveryTypeParts DEF OperatorClosesCase, OperatorRules, RequestTypes, rowVars, logVars

LEMMA InitOfResolution == RecoveryInit => ResolutionInit
BY DEF RecoveryInit

LEMMA RecoveryKeepsBooks ==
  RecoveryTypeOK /\ Books /\ [RecoveryNext]_recoveryVars => Books'
<1> SUFFICES ASSUME RecoveryTypeOK, Books, [RecoveryNext]_recoveryVars PROVE Books'
  OBVIOUS
<1>1. CASE [ResolutionNext]_vars
  BY <1>1, BooksStep, RecoveryTypeParts
<1>2. CASE OperatorClosesCase \/ OperatorRules
  <2>1. UNCHANGED <<ours, ledger, pc, job>>
    BY <1>2, OperatorStep DEF worldVars
  <2> QED BY <2>1 DEF Books, RecordedIsOurs, LedgerNeverAhead, CapIsKept, RefundWithinCap
<1> QED BY <1>1, <1>2, RecoverySteps

LEMMA BooksAreKept == RecoverySpec => []Books
<1>1. RecoveryInit => Books
  BY InitOfResolution, BooksInit
<1> QED BY <1>1, RecoveryKeepsBooks, RecoveryTypeCorrect, PTL DEF RecoverySpec

(* The worker, the poller, the API and the operator together, whatever     *)
(* raises or dies: external_executions tells of no movement of money that  *)
(* did not happen.                                                         *)
THEOREM RecoveryLedgerIsTrue == RecoverySpec => []LedgerNeverAhead
<1>1. Books => LedgerNeverAhead
  BY DEF Books
<1> QED BY <1>1, BooksAreKept, PTL

(* Whoever asks for the resolutions and however the lock fails, none makes *)
(* a refund above the limit.                                               *)
THEOREM RecoveryRefundsAreWithinCap == RecoverySpec => []RefundWithinCap
<1>1. Books => RefundWithinCap
  BY DEF Books
<1> QED BY <1>1, BooksAreKept, PTL

LEMMA RecoveryKeepsExclusive ==
  ASSUME ~LiveExpiry, ~RedisFails, RecoveryTypeOK, Exclusive,
         [RecoveryNext]_recoveryVars
  PROVE  Exclusive'
<1>1. CASE [ResolutionNext]_vars
  BY <1>1, ExclusiveStep, RecoveryTypeParts
<1>2. CASE OperatorClosesCase \/ OperatorRules
  <2>1. UNCHANGED <<version, ledger, evidence, pc, job, key, mem, inside>>
    BY <1>2, OperatorStep DEF lockVars
  <2>2. HolderOwnsKey' /\ AuditTrailComplete'
    BY <2>1 DEF Exclusive, HolderOwnsKey, AuditTrailComplete
  <2>3. ASSUME NEW t \in Tasks PROVE Knows(t)'
    BY <2>1 DEF Exclusive, Knows
  <2> QED BY <2>2, <2>3 DEF Exclusive
<1> QED BY <1>1, <1>2, RecoverySteps

LEMMA RecoveryIsExclusive ==
  ASSUME ~LiveExpiry, ~RedisFails
  PROVE  RecoverySpec => []Exclusive
<1>1. RecoveryInit => Exclusive
  BY InitOfResolution, ExclusiveInit
<1>2. RecoveryTypeOK /\ Exclusive /\ [RecoveryNext]_recoveryVars => Exclusive'
  BY RecoveryKeepsExclusive
<1> QED BY <1>1, <1>2, RecoveryTypeCorrect, PTL DEF RecoverySpec

(* The worker, the poller and the API lock the intent against each other   *)
(* by resolve() alone: where Redis answers and no resolution outlasts the  *)
(* TTL, two are never under way at once, whoever dies or raises.           *)
THEOREM RecoveriesExclude ==
  ASSUME ~LiveExpiry, ~RedisFails
  PROVE  RecoverySpec => []MutualExclusion
<1>1. Exclusive => MutualExclusion
  BY DEF Exclusive, HolderOwnsKey, MutualExclusion
<1> QED BY <1>1, RecoveryIsExclusive, PTL

(* Under the same conditions every version the row has left behind has its *)
(* evidence, whoever resolved it and whatever an operator ruled meanwhile. *)
THEOREM RecoveryAuditTrailIsComplete ==
  ASSUME ~LiveExpiry, ~RedisFails
  PROVE  RecoverySpec => []AuditTrailComplete
<1>1. Exclusive => AuditTrailComplete
  BY DEF Exclusive
<1> QED BY <1>1, RecoveryIsExclusive, PTL

(* Under the same conditions no capture is attempted once one is logged,   *)
(* over all the attempts of the worker, the polls and the requests.        *)
THEOREM RecoveryCapturesAreOnce ==
  ASSUME ~LiveExpiry, ~RedisFails
  PROVE  RecoverySpec => []CapturesOnce
<1>1. Exclusive => CapturesOnce
  BY DEF Exclusive, Knows, CapturesOnce
<1> QED BY <1>1, RecoveryIsExclusive, PTL

(* However the lock fails: no more resolutions of the intent overlap than  *)
(* the losses counted so far explain, poller and worker included.          *)
THEOREM RecoveryOverlapIsBounded == RecoverySpec => []OverlapBound
<1>1. RecoveryInit => OverlapBound
  BY InitOfResolution, FS_EmptySet DEF ResolutionInit, LockInit, OverlapBound
<1>2. ASSUME RecoveryTypeOK, OverlapBound, [RecoveryNext]_recoveryVars
      PROVE  OverlapBound'
  <2>1. [LockNext]_lockVars
    <3>1. CASE [ResolutionNext]_vars
      BY <3>1, LockSteps
    <3>2. CASE OperatorClosesCase \/ OperatorRules
      BY <1>2, <3>2, OperatorStep
    <3> QED BY <1>2, <3>1, <3>2, RecoverySteps
  <2>2. LockTypeOK
    BY <1>2, RecoveryTypeParts, TypeParts
  <2> QED BY <1>2, <2>1, <2>2, OverlapStep
<1> QED BY <1>1, <1>2, RecoveryTypeCorrect, PTL DEF RecoverySpec

(* No ruling is CAPTURED: whatever requests write and an operator rules,   *)
(* an intent called CAPTURED was captured by the provider, if no advice is *)
(* NO_ACTION.                                                              *)
THEOREM RecoveredCapturesAreBacked ==
  ASSUME "NO_ACTION" \notin AIActions, "CAPTURED" \notin InitStates
  PROVE  RecoverySpec => []CapturedIsBacked
<1>1. RecoveryInit => Backed
  BY InitOfResolution DEF ResolutionInit, Backed, CapturedIsBacked, Holding
<1>2. ASSUME RecoveryTypeOK, Backed, [RecoveryNext]_recoveryVars PROVE Backed'
  <2>1. CASE [ResolutionNext]_vars
    BY <1>2, <2>1, BackedStep, RecoveryTypeParts
  <2>2. CASE OperatorClosesCase \/ OperatorRules
    <3>1. /\ UNCHANGED <<payment, pc, job>>
          /\ currentState' = "CAPTURED" => currentState = "CAPTURED"
      BY <1>2, <2>2, OperatorStep DEF worldVars
    <3>2. CapturedIsBacked'
      BY <1>2, <3>1 DEF Backed, CapturedIsBacked
    <3> QED BY <1>2, <3>1, <3>2 DEF Backed, Paid
  <2> QED BY <1>2, <2>1, <2>2, RecoverySteps
<1>3. Backed => CapturedIsBacked
  BY DEF Backed
<1> QED BY <1>1, <1>2, <1>3, RecoveryTypeCorrect, PTL DEF RecoverySpec

(* The worker's retries, the poller and the requests lose no movement of    *)
(* money between them, but one whose answer was lost and one whose process *)
(* died before the INSERT.                                                 *)
THEOREM RecoveredMoneyIsReconstructable == RecoverySpec => []MoneyIsReconstructable
<1>1. RecoveryInit => MoneyIsReconstructable
  BY InitOfResolution DEF ResolutionInit, MoneyIsReconstructable
<1>2. ASSUME RecoveryTypeOK, MoneyIsReconstructable, [RecoveryNext]_recoveryVars
      PROVE  MoneyIsReconstructable'
  <2>1. CASE [ResolutionNext]_vars
    BY <1>2, <2>1, MoneyStep, RecoveryTypeParts
  <2>2. CASE OperatorClosesCase \/ OperatorRules
    <3>1. UNCHANGED <<ours, untold, ledger, printed, pc, job>>
      BY <1>2, <2>2, OperatorStep DEF worldVars
    <3> QED BY <1>2, <3>1 DEF MoneyIsReconstructable
  <2> QED BY <1>2, <2>1, <2>2, RecoverySteps
<1> QED BY <1>1, <1>2, RecoveryTypeCorrect, PTL DEF RecoverySpec
=============================================================================
