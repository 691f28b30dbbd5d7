----------------------------- MODULE AITestLab -----------------------------
(***************************************************************************)
(* core/ai_test_lab/runner.py as api/ai_test_lab_routes.py calls it: test  *)
(* runs of synthetic scenarios in one API process, at most one at a time,  *)
(* each under a timer of 60 s, and the recovery of rows that a run left    *)
(* RUNNING.  Every await is a point where others step in; a statement that *)
(* fails raises, and may have committed before.                            *)
(***************************************************************************)
EXTENDS Naturals, FiniteSets, PaymentStates

CONSTANTS Runs,          \* run_ids
          NoRun,         \* _ACTIVE_RUN_ID is None
          NScenarios,    \* scenarios of a run
          SeedStates,    \* Scenario.initial_state
          DbFails,       \* may a statement of the lab raise?
          MaxCrashes     \* deaths of the API process

ASSUME LabAssumption ==
  /\ NoRun \notin Runs
  /\ NScenarios \in Nat
  /\ SeedStates \subseteq States
  /\ DbFails \in BOOLEAN
  /\ MaxCrashes \in Nat

VARIABLES row,       \* ai_test_runs.status, "none" before the INSERT
          active,    \* _ACTIVE_RUN_ID
          stops,     \* the run_ids with _RUN_STOP_REQUESTS[run_id]
          pc,        \* the await at which each run stands
          done,      \* len(results)
          verdict,   \* final_status, then the status of the TestRun returned
          intent,    \* state of the synthetic intent of the last scenario: one
                     \* is in hand at a time, earlier ones are not written
          tasked,    \* that intent has a RESOLVE_INTENT row in the outbox
          aged,      \* started_at is more than 60 s ago
          picked,    \* rows a recovery selected and has not updated yet
          unsaved,   \* runs whose last UPDATE raised
          crashes

vars == <<row, active, stops, pc, done, verdict, intent, tasked, aged,
          picked, unsaved, crashes>>

scenarioVars == <<intent, tasked>>
recoveryVars == <<aged, picked>>

Statuses == {"RUNNING", "COMPLETED", "FAILED", "TIMED_OUT", "STOPPED"}

\* The awaits under the timer, and those of a run that holds the slot.
Timed    == {"starting", "looping", "injecting", "enqueueing", "saving",
             "closing"}
InFlight == Timed \cup {"overriding"}

LabTypeOK ==
  /\ row \in [Runs -> Statuses \cup {"none"}]
  /\ active \in Runs \cup {NoRun}
  /\ stops \in SUBSET Runs
  /\ pc \in [Runs -> InFlight \cup {"idle", "over", "dead"}]
  /\ done \in [Runs -> 0..NScenarios]
  /\ verdict \in [Runs -> Statuses \ {"RUNNING"}]
  /\ intent \in States \cup {"none"}
  /\ tasked \in BOOLEAN
  /\ aged \in SUBSET Runs
  /\ picked \in SUBSET Runs
  /\ unsaved \in SUBSET Runs
  /\ crashes \in 0..MaxCrashes

LabInit ==
  /\ row = [r \in Runs |-> "none"]
  /\ active = NoRun
  /\ stops = {}
  /\ pc = [r \in Runs |-> "idle"]
  /\ done = [r \in Runs |-> 0]
  /\ verdict = [r \in Runs |-> "FAILED"]
  /\ intent = "none"
  /\ tasked = FALSE
  /\ aged = {}
  /\ picked = {}
  /\ unsaved = {}
  /\ crashes = 0

Goto(r, where) == pc' = [pc EXCEPT ![r] = where]

\* The outcomes of an UPDATE of the run's row by its id: no row, no effect.
Written(r, status) ==
  IF row[r] = "none" THEN row ELSE [row EXCEPT ![r] = status]

----------------------------------------------------------------------------
(* run_test_suite: claim the slot, run under the timer, give it back.      *)

\* The check of the slot and its assignment have no await between them.
Begin(r) ==
  /\ pc[r] = "idle"
  /\ active = NoRun
  /\ active' = r
  /\ stops' = stops \ {r}
  /\ Goto(r, "starting")
  /\ UNCHANGED <<row, done, verdict, scenarioVars, recoveryVars, unsaved,
                 crashes>>

\* Fault variant: the conflict is raised inside the `try`.
RefuseInTry(r) ==
  /\ pc[r] = "idle"
  /\ active # NoRun
  /\ active' = NoRun
  /\ UNCHANGED <<row, stops, pc, done, verdict, scenarioVars, recoveryVars,
                 unsaved, crashes>>

\* Another run is active: ActiveRunConflictError, raised before the `try`
\* whose `finally` would give the slot away.  The user may ask again.
Refuse(r) ==
  /\ pc[r] = "idle"
  /\ active # NoRun
  /\ UNCHANGED vars

\* The row's INSERT.  When it raises, run_test_suite records FAILED.
InsertRun(r) ==
  /\ pc[r] = "starting"
  /\ \/ /\ row' = [row EXCEPT ![r] = "RUNNING"]
        /\ Goto(r, "looping")
     \/ /\ DbFails
        /\ row' \in {row, [row EXCEPT ![r] = "RUNNING"]}
        /\ Goto(r, "overriding")
  /\ UNCHANGED <<active, stops, done, verdict, scenarioVars, recoveryVars,
                 unsaved, crashes>>

\* wait_for cancels the run, once.  Before the `try` nothing cleans up; in it
\* the `finally` still writes, with the default FAILED; in the `finally`'s own
\* UPDATE the cancellation escapes.  The statement in flight may have ended.
Cancelled(r) == pc[r] = "closing" /\ verdict[r] = "FAILED"

Timeout(r) ==
  /\ pc[r] \in Timed
  /\ ~Cancelled(r)
  /\ \/ /\ pc[r] \in {"starting", "closing"}
        /\ row' \in {row, IF pc[r] = "starting"
                          THEN [row EXCEPT ![r] = "RUNNING"]
                          ELSE Written(r, verdict[r])}
        /\ verdict' = [verdict EXCEPT ![r] = "TIMED_OUT"]
        /\ Goto(r, "overriding")
     \/ /\ pc[r] \notin {"starting", "closing"}
        /\ verdict' = [verdict EXCEPT ![r] = "FAILED"]
        /\ Goto(r, "closing")
        /\ UNCHANGED row
  /\ UNCHANGED <<active, stops, done, scenarioVars, recoveryVars, unsaved,
                 crashes>>

\* The `finally` of the suite, after which a run in time returns its verdict
\* and a cancelled one is recorded again.
Close(r) ==
  /\ pc[r] = "closing"
  /\ \/ row' = Written(r, verdict[r]) /\ UNCHANGED unsaved
     \/ /\ DbFails
        /\ row' \in {row, Written(r, verdict[r])}
        /\ unsaved' = unsaved \cup {r}
  /\ IF Cancelled(r)
     THEN /\ verdict' = [verdict EXCEPT ![r] = "TIMED_OUT"]
          /\ Goto(r, "overriding")
          /\ UNCHANGED active
     ELSE /\ Goto(r, "over")
          /\ active' = NoRun
          /\ UNCHANGED verdict
  /\ UNCHANGED <<stops, done, scenarioVars, recoveryVars, crashes>>

\* Fault variant: only a row that is still RUNNING is written.
OverrideIfRunning(r) ==
  /\ pc[r] = "overriding"
  /\ row' = IF row[r] = "RUNNING" THEN Written(r, verdict[r]) ELSE row
  /\ unsaved' = unsaved \ {r}
  /\ Goto(r, "over")
  /\ active' = NoRun
  /\ UNCHANGED <<stops, done, verdict, scenarioVars, recoveryVars, crashes>>

\* The handlers of run_test_suite write TIMED_OUT or FAILED over whatever the
\* row says, and its `finally` gives the slot back.
Override(r) ==
  /\ pc[r] = "overriding"
  /\ \/ row' = Written(r, verdict[r]) /\ unsaved' = unsaved \ {r}
     \/ /\ DbFails
        /\ row' \in {row, Written(r, verdict[r])}
        /\ unsaved' = unsaved \cup {r}
  /\ Goto(r, "over")
  /\ active' = NoRun
  /\ UNCHANGED <<stops, done, verdict, scenarioVars, recoveryVars, crashes>>

----------------------------------------------------------------------------
(* The loop over the scenarios and run_scenario.                           *)

\* Fault variant: the loop is left by `break` without setting STOPPED.
NextScenarioForgetsStop(r) ==
  /\ pc[r] = "looping"
  /\ \/ /\ done[r] = NScenarios \/ r \in stops
        /\ verdict' = [verdict EXCEPT ![r] = "COMPLETED"]
        /\ Goto(r, "closing")
        /\ UNCHANGED scenarioVars
     \/ /\ done[r] < NScenarios
        /\ r \notin stops
        /\ intent' \in SeedStates
        /\ tasked' = FALSE
        /\ Goto(r, "injecting")
        /\ UNCHANGED verdict
  /\ UNCHANGED <<row, active, stops, done, recoveryVars, unsaved, crashes>>

\* A stop request ends the loop at its head; otherwise the next scenario seeds
\* an intent of its own.
NextScenario(r) ==
  /\ pc[r] = "looping"
  /\ \/ /\ done[r] < NScenarios
        /\ r \in stops
        /\ verdict' = [verdict EXCEPT ![r] = "STOPPED"]
        /\ Goto(r, "closing")
        /\ UNCHANGED scenarioVars
     \/ /\ done[r] = NScenarios
        /\ verdict' = [verdict EXCEPT ![r] = "COMPLETED"]
        /\ Goto(r, "closing")
        /\ UNCHANGED scenarioVars
     \/ /\ done[r] < NScenarios
        /\ r \notin stops
        /\ intent' \in SeedStates
        /\ tasked' = FALSE
        /\ Goto(r, "injecting")
        /\ UNCHANGED verdict
  /\ UNCHANGED <<row, active, stops, done, recoveryVars, unsaved, crashes>>

\* What each type of synthetic event is to the state machine.
EventOf == [captured |-> "PAYMENT_CAPTURED", failed |-> "PAYMENT_FAILED",
            checkout_verify |-> "PAYMENT_CAPTURED",
            illegal_state_jump |-> "ILLEGAL_JUMP"]

\* Fault variant: a capture leaves the state for the worker to settle.
InjectUnsettled(r) ==
  /\ pc[r] = "injecting"
  /\ \E kind \in DOMAIN EventOf :
       /\ intent' = IF kind = "captured" THEN intent
                    ELSE Transition(intent, EventOf[kind])
       /\ Goto(r, IF kind = "captured" THEN "enqueueing" ELSE "injecting")
  /\ UNCHANGED <<row, active, stops, done, verdict, tasked, recoveryVars,
                 unsaved, crashes>>

\* An event moves the intent; a capture goes on to enqueue its resolution.
Inject(r) ==
  /\ pc[r] = "injecting"
  /\ \E kind \in DOMAIN EventOf :
       /\ intent' = Transition(intent, EventOf[kind])
       /\ Goto(r, IF kind = "captured" THEN "enqueueing" ELSE "injecting")
  /\ UNCHANGED <<row, active, stops, done, verdict, tasked, recoveryVars,
                 unsaved, crashes>>

Enqueue(r) ==
  /\ pc[r] = "enqueueing"
  /\ tasked' = TRUE
  /\ Goto(r, "injecting")
  /\ UNCHANGED <<row, active, stops, done, verdict, intent, recoveryVars,
                 unsaved, crashes>>

\* The events are over (policy and oracle only report), or a statement
\* raised and the scenario counts as FAIL: a result either way.
ScenarioEnds(r) ==
  /\ \/ pc[r] = "injecting"
     \/ pc[r] = "enqueueing" /\ DbFails
  /\ Goto(r, "saving")
  /\ UNCHANGED <<row, active, stops, done, verdict, scenarioVars,
                 recoveryVars, unsaved, crashes>>

\* Fault variant: the handler of a failed scenario appends its result as well.
SaveResultTwice(r) ==
  /\ pc[r] = "saving"
  /\ \E n \in 1..2 : done' = [done EXCEPT ![r] = @ + n]
  /\ Goto(r, "looping")
  /\ UNCHANGED <<row, active, stops, verdict, scenarioVars, recoveryVars,
                 unsaved, crashes>>

\* The result's INSERT; a failure is swallowed.
SaveResult(r) ==
  /\ pc[r] = "saving"
  /\ done' = [done EXCEPT ![r] = @ + 1]
  /\ Goto(r, "looping")
  /\ UNCHANGED <<row, active, stops, verdict, scenarioVars, recoveryVars,
                 unsaved, crashes>>

----------------------------------------------------------------------------
(* The other requests, the clock and the process.                          *)

\* The id of a run is made by run_test_suite and known to others from its row;
\* a request for a run that is over sets a flag that nothing reads.
RequestStop(r) ==
  /\ row[r] = "RUNNING"
  /\ pc[r] \in Timed
  /\ stops' = stops \cup {r}
  /\ UNCHANGED <<row, active, pc, done, verdict, scenarioVars, recoveryVars,
                 unsaved, crashes>>

\* A row reaches the age of 60 s after the timer of its run, which is set
\* before the INSERT.
Age(r) ==
  /\ row[r] = "RUNNING"
  /\ r \notin aged
  /\ Cancelled(r) \/ pc[r] \in {"overriding", "over", "dead"}
  /\ aged' = aged \cup {r}
  /\ UNCHANGED <<row, active, stops, pc, done, verdict, scenarioVars, picked,
                 unsaved, crashes>>

\* Fault variant: only the run this process knows is looked at.
RecoverSelectActive ==
  /\ picked = {}
  /\ picked' = {r \in aged : row[r] = "RUNNING" /\ active = r}
  /\ picked' # {}
  /\ UNCHANGED <<row, active, stops, pc, done, verdict, scenarioVars, aged,
                 unsaved, crashes>>

\* recover_stale_runs: the SELECT, then one UPDATE per row, by id alone.  A
\* failure ends it silently.
RecoverSelect ==
  /\ picked = {}
  /\ picked' = {r \in aged : row[r] = "RUNNING"}
  /\ picked' # {}
  /\ UNCHANGED <<row, active, stops, pc, done, verdict, scenarioVars, aged,
                 unsaved, crashes>>

RecoverUpdate(r) ==
  /\ r \in picked
  /\ row' = Written(r, "TIMED_OUT")
  /\ picked' = picked \ {r}
  /\ UNCHANGED <<active, stops, pc, done, verdict, scenarioVars, aged,
                 unsaved, crashes>>

RecoverRaises ==
  /\ DbFails
  /\ picked # {}
  /\ picked' = {}
  /\ UNCHANGED <<row, active, stops, pc, done, verdict, scenarioVars, aged,
                 unsaved, crashes>>

\* The process dies and is started again: its memory and its requests go.
Crash ==
  /\ active # NoRun
  /\ crashes < MaxCrashes
  /\ crashes' = crashes + 1
  /\ active' = NoRun
  /\ stops' = {}
  /\ picked' = {}
  /\ pc' = [r \in Runs |-> IF pc[r] \in InFlight THEN "dead" ELSE pc[r]]
  /\ UNCHANGED <<row, done, verdict, scenarioVars, aged, unsaved>>

----------------------------------------------------------------------------
RunStep(r) ==
  \/ InsertRun(r) \/ NextScenario(r) \/ Inject(r) \/ Enqueue(r)
  \/ ScenarioEnds(r) \/ SaveResult(r) \/ Close(r) \/ Override(r)

LabNext ==
  \/ \E r \in Runs : \/ Begin(r) \/ Refuse(r) \/ RunStep(r) \/ Timeout(r)
                     \/ RequestStop(r) \/ Age(r) \/ RecoverUpdate(r)
  \/ RecoverSelect
  \/ RecoverRaises
  \/ Crash

LabSpec == LabInit /\ [][LabNext]_vars

\* A live process goes on and its timers fire; time passes; somebody looks at
\* the lab's page again and again, and not every look ends in a failure.
FairLabSpec ==
  /\ LabSpec
  /\ \A r \in Runs : /\ WF_vars(RunStep(r))
                     /\ WF_vars(Timeout(r))
                     /\ WF_vars(Age(r))
                     /\ SF_vars(RecoverUpdate(r))
  /\ WF_vars(RecoverSelect)

----------------------------------------------------------------------------
(* One run at a time ("Enforces concurrency protection (1 active run at a  *)
(* time)", ai_test_lab_routes.py:201): the slot is not given away by a     *)
(* refused request, a timeout or a failure while a run is under way.       *)
OneRunAtATime == Cardinality({r \in Runs : pc[r] \in InFlight}) <= 1

(* What the caller of a run is told is what the row says, unless the last  *)
(* write of it raised or the recovery timed the row out: the two writes of *)
(* a cancelled run, FAILED by its `finally` and TIMED_OUT by its caller,   *)
(* leave the second.                                                       *)
ReportedIsRecorded ==
  \A r \in Runs : pc[r] = "over" /\ r \notin unsaved =>
    row[r] \in {"none", verdict[r], "TIMED_OUT"}

(* A run recorded COMPLETED ran every scenario: neither a stop request nor *)
(* the timer leaves a shortened run under that name.                       *)
CompletedIsWhole ==
  \A r \in Runs : row[r] = "COMPLETED" => done[r] = NScenarios

(* A resolution the lab enqueues finds its intent settled, so the outbox   *)
(* worker skips it (resolver.py:85) and never asks the provider about it:  *)
(* isolation.py:8 "Prohibits network egress to real Razorpay APIs", as far *)
(* as the worker goes.  It hangs on the order of two statements.           *)
TasksAreSettled == tasked => IsTerminal(intent)

(* Every row leaves RUNNING ("Guarantees terminal status", runner.py:546), *)
(* through crashes and failed writes, by the run or by the recovery.       *)
RunsEnd == \A r \in Runs : row[r] = "RUNNING" ~> row[r] # "RUNNING"
=============================================================================
