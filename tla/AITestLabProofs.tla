-------------------------- MODULE AITestLabProofs --------------------------
(***************************************************************************)
(* Theorems about AITestLab for any runs, scenarios, seeds, crashes and    *)
(* failing statements.  LabInv is inductive: it says who holds the slot,   *)
(* and at which await the count of results is still below the total and    *)
(* the intent already settled.                                             *)
(***************************************************************************)
EXTENDS AITestLab, FiniteSetTheorems, TLAPS

\* The run in _ACTIVE_RUN_ID is the one under way.
SlotIsHeld == \A r \in Runs : pc[r] \in InFlight <=> active = r

\* A run in a scenario has a result to come.
ScenarioOutstanding ==
  \A r \in Runs : pc[r] \in {"injecting", "enqueueing", "saving"} =>
    done[r] < NScenarios

VerdictIsWhole ==
  \A r \in Runs : verdict[r] = "COMPLETED" => done[r] = NScenarios

SettledBeforeEnqueue ==
  \A r \in Runs : pc[r] = "enqueueing" => intent \in Terminal

ScenarioHasIntent ==
  \A r \in Runs : pc[r] \in {"injecting", "enqueueing"} => intent \in States

LabInv ==
  /\ LabTypeOK
  /\ SlotIsHeld
  /\ ScenarioOutstanding
  /\ VerdictIsWhole
  /\ CompletedIsWhole
  /\ SettledBeforeEnqueue
  /\ ScenarioHasIntent
  /\ TasksAreSettled
  /\ ReportedIsRecorded

----------------------------------------------------------------------------
(* From every state an event of the lab leads to a state, a capture leads  *)
(* to a terminal one, and a terminal state stays terminal.                 *)
LEMMA LabEvents ==
  ASSUME NEW s \in States, NEW kind \in DOMAIN EventOf
  PROVE  /\ Transition(s, EventOf[kind]) \in States
         /\ kind = "captured" => Transition(s, EventOf[kind]) \in Terminal
         /\ s \in Terminal => Transition(s, EventOf[kind]) \in Terminal
<1>1. EventOf[kind] \in {"PAYMENT_CAPTURED", "PAYMENT_FAILED", "ILLEGAL_JUMP"}
  BY DEF EventOf
<1>2. kind = "captured" => EventOf[kind] = "PAYMENT_CAPTURED"
  BY DEF EventOf
<1>3. \A e \in {"PAYMENT_CAPTURED", "PAYMENT_FAILED", "ILLEGAL_JUMP"} :
        /\ Transition(s, e) \in States
        /\ e = "PAYMENT_CAPTURED" => Transition(s, e) \in Terminal
        /\ s \in Terminal => Transition(s, e) \in Terminal
  BY SMTT(60) DEF Transition, AllowedEvents, Transitions, States, Terminal
<1> QED BY <1>1, <1>2, <1>3

----------------------------------------------------------------------------
LEMMA LabInitInv == LabInit => LabInv
<1> SUFFICES ASSUME LabInit PROVE LabInv
  OBVIOUS
<1> USE LabAssumption DEF LabInit, InFlight, Timed
<1>1. LabTypeOK
  <2>1. /\ row \in [Runs -> Statuses \cup {"none"}]
        /\ active \in Runs \cup {NoRun}
        /\ pc \in [Runs -> InFlight \cup {"idle", "over", "dead"}]
        /\ verdict \in [Runs -> Statuses \ {"RUNNING"}]
    BY DEF Statuses
  <2>2. done \in [Runs -> 0..NScenarios] /\ crashes \in 0..MaxCrashes
    OBVIOUS
  <2>3. /\ stops = {} /\ aged = {} /\ picked = {} /\ unsaved = {}
        /\ intent = "none" /\ tasked = FALSE
    OBVIOUS
  <2> QED BY <2>1, <2>2, <2>3 DEF LabTypeOK
<1>2. SlotIsHeld /\ ScenarioOutstanding /\ SettledBeforeEnqueue
  BY DEF SlotIsHeld, ScenarioOutstanding, SettledBeforeEnqueue
<1>3. VerdictIsWhole /\ CompletedIsWhole /\ ScenarioHasIntent
  BY DEF VerdictIsWhole, CompletedIsWhole, ScenarioHasIntent
<1>4. TasksAreSettled /\ ReportedIsRecorded
  BY DEF TasksAreSettled, ReportedIsRecorded
<1> QED BY <1>1, <1>2, <1>3, <1>4 DEF LabInv

(* The invariant holds after every step.  The steps that take or give the  *)
(* slot matter for SlotIsHeld, those of the loop for the counts, and an    *)
(* event for the order of the intent's UPDATE and the task's INSERT.       *)
LEMMA LabStepInv == LabInv /\ [LabNext]_vars => LabInv'
<1> SUFFICES ASSUME LabInv, [LabNext]_vars PROVE LabInv'
  OBVIOUS
<1> USE LabAssumption
    DEF LabInv, LabTypeOK, SlotIsHeld, ScenarioOutstanding, VerdictIsWhole,
        CompletedIsWhole, SettledBeforeEnqueue, ScenarioHasIntent,
        TasksAreSettled, ReportedIsRecorded, InFlight, Timed, Statuses,
        Goto, scenarioVars, recoveryVars, IsTerminal
<1>1. ASSUME NEW r \in Runs, Begin(r) PROVE LabInv'
  BY <1>1 DEF Begin
<1>2. ASSUME NEW r \in Runs, Refuse(r) PROVE LabInv'
  BY <1>2 DEF Refuse, vars
<1>3. ASSUME NEW r \in Runs, InsertRun(r) PROVE LabInv'
  BY <1>3 DEF InsertRun
<1>4. ASSUME NEW r \in Runs, Timeout(r) PROVE LabInv'
  <2>1. CASE pc[r] \in {"starting", "closing"}
    BY <1>4, <2>1 DEF Timeout, Cancelled, Written
  <2>2. CASE pc[r] \notin {"starting", "closing"}
    BY <1>4, <2>2 DEF Timeout, Cancelled, Written
  <2> QED BY <2>1, <2>2
<1>5. ASSUME NEW r \in Runs, Close(r) PROVE LabInv'
  <2>1. CASE Cancelled(r)
    BY <1>5, <2>1 DEF Close, Cancelled, Written
  <2>2. CASE ~Cancelled(r)
    BY <1>5, <2>2 DEF Close, Cancelled, Written
  <2> QED BY <2>1, <2>2
<1>6. ASSUME NEW r \in Runs, Override(r) PROVE LabInv'
  BY <1>6 DEF Override, Written
<1>7. ASSUME NEW r \in Runs, NextScenario(r) PROVE LabInv'
  <2>1. CASE pc'[r] = "closing"
    <3>1. UNCHANGED <<intent, tasked>>
      BY <1>7, <2>1 DEF NextScenario
    <3>2. /\ pc' = [pc EXCEPT ![r] = "closing"]
          /\ \/ verdict' = [verdict EXCEPT ![r] = "STOPPED"]
             \/ /\ verdict' = [verdict EXCEPT ![r] = "COMPLETED"]
                /\ done[r] = NScenarios
          /\ pc[r] = "looping"
      BY <1>7, <2>1 DEF NextScenario
    <3>3. UNCHANGED <<row, active, stops, done, aged, picked, unsaved, crashes>>
      BY <1>7 DEF NextScenario
    <3> QED BY <3>1, <3>2, <3>3
  <2>2. CASE pc'[r] # "closing"
    <3>1. /\ pc' = [pc EXCEPT ![r] = "injecting"]
          /\ pc[r] = "looping"
          /\ done[r] < NScenarios
          /\ tasked' = FALSE
      BY <1>7, <2>2 DEF NextScenario
    <3>2. intent' \in SeedStates
      BY <1>7, <2>2 DEF NextScenario
    <3>3. UNCHANGED <<row, active, stops, done, verdict, aged, picked, unsaved,
                      crashes>>
      BY <1>7, <2>2 DEF NextScenario
    <3>4. intent' \in States
      BY <3>2
    <3>5. SettledBeforeEnqueue'
      BY <3>1, <3>3
    <3> QED BY <3>1, <3>3, <3>4, <3>5
  <2> QED BY <2>1, <2>2
<1>8. ASSUME NEW r \in Runs, Inject(r) PROVE LabInv'
  BY <1>8, LabEvents DEF Inject
<1>9. ASSUME NEW r \in Runs, Enqueue(r) PROVE LabInv'
  BY <1>9 DEF Enqueue
<1>10. ASSUME NEW r \in Runs, ScenarioEnds(r) PROVE LabInv'
  BY <1>10 DEF ScenarioEnds
<1>11. ASSUME NEW r \in Runs, SaveResult(r) PROVE LabInv'
  BY <1>11 DEF SaveResult
<1>12. ASSUME NEW r \in Runs, RequestStop(r) PROVE LabInv'
  BY <1>12 DEF RequestStop
<1>13. ASSUME NEW r \in Runs, Age(r) PROVE LabInv'
  BY <1>13 DEF Age
<1>14. ASSUME NEW r \in Runs, RecoverUpdate(r) PROVE LabInv'
  BY <1>14 DEF RecoverUpdate, Written
<1>15. CASE RecoverSelect
  BY <1>15 DEF RecoverSelect
<1>16. CASE RecoverRaises
  BY <1>16 DEF RecoverRaises
<1>17. CASE Crash
  BY <1>17 DEF Crash
<1>18. CASE UNCHANGED vars
  BY <1>18 DEF vars
<1> QED
  BY <1>1, <1>2, <1>3, <1>4, <1>5, <1>6, <1>7, <1>8, <1>9, <1>10, <1>11,
     <1>12, <1>13, <1>14, <1>15, <1>16, <1>17, <1>18 DEF LabNext, RunStep

LEMMA LabInvariant == LabSpec => []LabInv
BY LabInitInv, LabStepInv, PTL DEF LabSpec

----------------------------------------------------------------------------
(* The rows, the slot and the runs' variables keep their types.            *)
THEOREM LabTypeCorrect == LabSpec => []LabTypeOK
<1>1. LabInv => LabTypeOK
  BY DEF LabInv
<1> QED BY <1>1, LabInvariant, PTL

(* However many requests, timeouts, crashes and failing statements: the    *)
(* runs under way are the one in the slot.                                 *)
THEOREM LabRunsAlone == LabSpec => []OneRunAtATime
<1>1. ASSUME LabInv PROVE OneRunAtATime
  <2> DEFINE under == {r \in Runs : pc[r] \in InFlight}
  <2>1. under \subseteq {active}
    BY <1>1 DEF LabInv, SlotIsHeld
  <2>2. IsFiniteSet({active}) /\ Cardinality({active}) = 1
    BY FS_Singleton
  <2>3. Cardinality(under) <= Cardinality({active})
    BY <2>1, <2>2, FS_Subset
  <2> QED BY <2>2, <2>3 DEF OneRunAtATime
<1> QED BY <1>1, LabInvariant, PTL

(* No run short of its scenarios is recorded COMPLETED.                    *)
THEOREM CompletedRunsAreWhole == LabSpec => []CompletedIsWhole
<1>1. LabInv => CompletedIsWhole
  BY DEF LabInv
<1> QED BY <1>1, LabInvariant, PTL

(* Whatever state a scenario seeds and whatever its events, the task it    *)
(* enqueues finds the intent settled.                                      *)
THEOREM LabTasksAreSettled == LabSpec => []TasksAreSettled
<1>1. LabInv => TasksAreSettled
  BY DEF LabInv
<1> QED BY <1>1, LabInvariant, PTL

(* The answer of a run and its row agree, for any runs and failures.       *)
THEOREM ReportsAreRecorded == LabSpec => []ReportedIsRecorded
<1>1. LabInv => ReportedIsRecorded
  BY DEF LabInv
<1> QED BY <1>1, LabInvariant, PTL
=============================================================================
