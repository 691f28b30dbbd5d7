-------------------------- MODULE ResolutionProofs --------------------------
(***************************************************************************)
(* Theorems about Resolution for any tasks, hosts, advice, failures and    *)
(* bounds.  ResolutionTypeOK and Books are inductive as they stand.        *)
(* Exclusive is under the lock's own conditions, and SnapshotKept under    *)
(* the further one that no request writes the row without the lock.        *)
(* Backed holds whether or not the lock excludes, where no advice is       *)
(* NO_ACTION; MoneyIsReconstructable is inductive as it stands.            *)
(***************************************************************************)
EXTENDS Resolution, IntentLockProofs

----------------------------------------------------------------------------
(* The pure part.                                                          *)

\* The events the resolver raises.
ResolverEvents == {"VERIFIED_SUCCESS", "VERIFIED_FAILED", "ACTION_CONFIRMED",
                   "DUPLICATE_DETECTED", "UNKNOWN_EVIDENCE"}

(* The state machine leads from states to states.                          *)
LEMMA TransitionType ==
  ASSUME NEW s \in States, NEW e \in ResolverEvents
  PROVE  Transition(s, e) \in States
BY SMTT(60) DEF Transition, AllowedEvents, Transitions, States, Terminal,
                ResolverEvents

LEMMA OutcomeType ==
  ASSUME NEW s \in States
  PROVE  /\ \A a, ok : StateAfterAction(s, a, ok) \in States
         /\ \A ext : StateAfterRefusal(s, ext) \in States
<1>1. \A e \in ResolverEvents : Transition(s, e) \in States
  BY TransitionType
<1> QED BY <1>1 DEF StateAfterAction, StateAfterRefusal, ResolverEvents

(* Every advice names an action, whoever gave it.                          *)
LEMMA AdviceType ==
  ASSUME NEW s, NEW c, NEW u, NEW advice \in Advice(s, c, u, AIActions)
  PROVE  advice.action \in ActionTypes
BY ResolutionAssumption
DEF Advice, DeterministicAdvice, ModelAdvice, Recommendation, ActionTypes

LEMMA EvaluateType ==
  \A s, c, ext, m, o, advice : Evaluate(s, c, ext, m, o, advice) \in Decisions
BY DEF Evaluate, Decisions

----------------------------------------------------------------------------
(* Types.                                                                  *)

RowTypes ==
  /\ currentState \in States /\ version \in 0 .. MaxVersion /\ resolved \in BOOLEAN
  /\ linked \in BOOLEAN
  /\ payment \in {"none", "authorized", "captured", "failed", "refunded"}
  /\ ours \subseteq MoneyActions /\ ledger \subseteq MoneyActions
  /\ printed \subseteq MoneyActions /\ untold \subseteq MoneyActions
  /\ evidence \subseteq 0 .. MaxVersion /\ cases \in 0 .. MaxCases
  /\ railKeys \in [Hosts -> SUBSET (0 .. MaxVersion)]
  /\ checkout \in BOOLEAN

TaskTypes == pc \in [Tasks -> Places] /\ job \in [Tasks -> Jobs]

InsideIsBusy == inside = {t \in Tasks : pc[t] # "idle"}

LEMMA TypeParts ==
  ResolutionTypeOK <=> LockTypeOK /\ RowTypes /\ TaskTypes /\ InsideIsBusy
BY DEF ResolutionTypeOK, RowTypes, TaskTypes, InsideIsBusy

(* A step of Resolution is a step of the lock, or none.                    *)
LEMMA LockSteps == [ResolutionNext]_vars => [LockNext]_lockVars
<1> SUFFICES ASSUME [ResolutionNext]_vars PROVE [LockNext]_lockVars
  OBVIOUS
<1>1. ASSUME NEW t \in Tasks, Start(t) PROVE LockNext
  BY <1>1 DEF Start, LockNext
<1>2. ASSUME NEW t \in Tasks, PoolFails(t) PROVE LockNext
  BY <1>2 DEF PoolFails, LockNext
<1>3. ASSUME NEW t \in Tasks, Resolve(t) PROVE [LockNext]_lockVars
  <2>1. CASE Finish(t)
    BY <2>1 DEF Finish, LockNext
  <2>2. CASE ~Finish(t)
    BY <1>3, <2>2 DEF Resolve, Load, Count, Verify, Decide, Escalate, Execute,
                      Record, RecordEvidence, RecordEffect, Commit
  <2> QED BY <2>1, <2>2
<1>4. ASSUME NEW t \in Tasks, StatementRaises(t) PROVE UNCHANGED lockVars
  BY <1>4 DEF StatementRaises
<1>5. ASSUME NEW h \in Hosts, CrashProcess(h) PROVE LockNext
  BY <1>5 DEF CrashProcess, LockNext
<1>6. CASE KeyExpires
  BY <1>6 DEF KeyExpires, LockNext
<1>7. CASE PaymentMoves \/ ReportFailure \/ WebhookUpsert \/ CheckoutReads
           \/ CheckoutWrites
  BY <1>7 DEF PaymentMoves, ReportFailure, WebhookUpsert, CheckoutReads,
              CheckoutWrites, UnlockedWrite
<1>8. CASE UNCHANGED vars
  BY <1>8 DEF vars
<1> QED
  BY <1>1, <1>2, <1>3, <1>4, <1>5, <1>6, <1>7, <1>8 DEF ResolutionNext

LEMMA ResolutionTypeInit == ResolutionInit => ResolutionTypeOK
<1> SUFFICES ASSUME ResolutionInit PROVE ResolutionTypeOK
  OBVIOUS
<1>1. LockTypeOK
  BY TypeInitial DEF ResolutionInit
<1>2. RowTypes
  <2>1. 0 \in 0 .. MaxVersion /\ 0 \in 0 .. MaxCases /\ InitStates \subseteq States
    BY ResolutionAssumption
  <2>2. /\ currentState \in States /\ version \in 0 .. MaxVersion
        /\ cases \in 0 .. MaxCases
    BY <2>1 DEF ResolutionInit
  <2>3. railKeys \in [Hosts -> SUBSET (0 .. MaxVersion)]
    BY DEF ResolutionInit
  <2>4. /\ resolved = FALSE /\ linked = FALSE /\ checkout = FALSE
        /\ ours = {} /\ untold = {} /\ ledger = {} /\ printed = {} /\ evidence = {}
        /\ payment \in {"none", "authorized", "captured", "failed", "refunded"}
    BY DEF ResolutionInit
  <2> QED BY <2>2, <2>3, <2>4 DEF RowTypes
<1>3. NoJob \in Jobs
  BY ResolutionAssumption
  DEF NoJob, Jobs, States, Terminal, ExternalStatuses, Decisions, ActionTypes
<1>4. TaskTypes
  BY <1>3 DEF ResolutionInit, TaskTypes, Places
<1>5. InsideIsBusy
  BY DEF ResolutionInit, LockInit, InsideIsBusy
<1> QED BY <1>1, <1>2, <1>4, <1>5, TypeParts

(* The next place and the fields of a job a step assigns have their types. *)
LEMMA ResolutionTypeStep ==
  ResolutionTypeOK /\ [ResolutionNext]_vars => ResolutionTypeOK'
<1> SUFFICES ASSUME ResolutionTypeOK, [ResolutionNext]_vars
             PROVE  ResolutionTypeOK'
  OBVIOUS
<1>0. LockTypeOK' /\ RowTypes /\ TaskTypes /\ InsideIsBusy
  BY LockSteps, TypeStep, TypeParts
<1> SUFFICES RowTypes' /\ TaskTypes' /\ InsideIsBusy'
  BY <1>0 DEF ResolutionTypeOK, RowTypes, TaskTypes, InsideIsBusy
<1>j. NoJob \in Jobs
  BY ResolutionAssumption
  DEF NoJob, Jobs, States, Terminal, ExternalStatuses, Decisions, ActionTypes
<1>s. ASSUME NEW t \in Tasks, NEW place \in Places \ {"idle"}, Goto(t, place),
             pc[t] # "idle", UNCHANGED lockVars, job' \in [Tasks -> Jobs]
      PROVE  TaskTypes' /\ InsideIsBusy'
  <2>1. TaskTypes'
    BY <1>0, <1>s DEF TaskTypes, Goto
  <2>2. \A u \in Tasks : pc'[u] # "idle" <=> pc[u] # "idle"
    BY <1>0, <1>s DEF TaskTypes, Goto
  <2> QED BY <1>0, <1>s, <2>1, <2>2 DEF InsideIsBusy, lockVars
<1>r. UNCHANGED <<rowVars, worldVars, logVars, railKeys, checkout>> => RowTypes'
  BY <1>0 DEF RowTypes, rowVars, worldVars, logVars
<1>p. {"loading", "counting", "verifying", "deciding", "executing", "recording",
       "escalating", "evidence", "effect", "committing", "releasing"}
        = Places \ {"idle"}
  BY DEF Places
<1>1. ASSUME NEW t \in Tasks, Start(t)
      PROVE  RowTypes' /\ TaskTypes' /\ InsideIsBusy'
  <2>1. TaskTypes'
    BY <1>0, <1>1 DEF Start, TaskTypes, Goto, Places
  <2>2. inside' = inside \cup {t}
    BY <1>1 DEF Start, Acquire
  <2>3. InsideIsBusy'
    BY <1>0, <1>1, <2>2 DEF Start, TaskTypes, Goto, InsideIsBusy
  <2> QED BY <1>1, <1>r, <2>1, <2>3 DEF Start
<1>2. ASSUME NEW t \in Tasks, PoolFails(t)
      PROVE  RowTypes' /\ TaskTypes' /\ InsideIsBusy'
  <2>1. TaskTypes'
    BY <1>0, <1>2 DEF PoolFails, TaskTypes, Goto, Places
  <2>2. inside' = inside \ {t}
    BY <1>2 DEF PoolFails, Abandon
  <2>3. InsideIsBusy'
    BY <1>0, <1>2, <2>2 DEF PoolFails, TaskTypes, Goto, InsideIsBusy
  <2> QED BY <1>2, <1>r, <2>1, <2>3 DEF PoolFails
<1>3. ASSUME NEW t \in Tasks, Load(t)
      PROVE  RowTypes' /\ TaskTypes' /\ InsideIsBusy'
  <2>1. job' \in [Tasks -> Jobs]
    <3>1. CASE job' = job
      BY <1>0, <3>1 DEF TaskTypes
    <3>2. CASE job' = [job EXCEPT ![t].state = currentState, ![t].version = version]
      <4> DEFINE seen == [job EXCEPT ![t].state = currentState]
      <4>1. seen \in [Tasks -> Jobs]
        BY <1>0 DEF TaskTypes, RowTypes, Jobs
      <4>2. job' = [seen EXCEPT ![t].version = version]
        BY <3>2
      <4> HIDE DEF seen
      <4> QED BY <1>0, <4>1, <4>2 DEF RowTypes, Jobs
    <3> QED BY <1>3, <3>1, <3>2 DEF Load
  <2> QED BY <1>3, <1>r, <1>s, <1>p, <2>1 DEF Load
<1>4. ASSUME NEW t \in Tasks, Count(t)
      PROVE  RowTypes' /\ TaskTypes' /\ InsideIsBusy'
  <2> DEFINE c == "CAPTURE" \in ledger
  <2>1. job' \in [Tasks -> Jobs]
    <3>1. c \in BOOLEAN /\ job' = [job EXCEPT ![t].hasCapture = c]
      BY <1>4 DEF Count
    <3> HIDE DEF c
    <3> QED BY <1>0, <3>1 DEF TaskTypes, Jobs
  <2> QED BY <1>4, <1>r, <1>s, <1>p, <2>1 DEF Count
<1>5. ASSUME NEW t \in Tasks, Verify(t)
      PROVE  RowTypes' /\ TaskTypes' /\ InsideIsBusy'
  <2>1. PICK ext \in ExternalStatuses, synthetic \in BOOLEAN :
          Verified(t, ext, synthetic)
    <3>1. CASE VerifyAtProvider(t)
      <4>1. payment \in {"authorized", "captured", "failed", "refunded"}
        BY <1>0, <3>1 DEF VerifyAtProvider, RowTypes
      <4>2. StatusMap[payment] \in ExternalStatuses
        BY <4>1 DEF StatusMap, ExternalStatuses
      <4>3. Verified(t, StatusMap[payment], FALSE)
        BY <3>1 DEF VerifyAtProvider
      <4> QED BY <4>2, <4>3
    <3>2. CASE VerifyRaises(t)
      BY <3>2 DEF VerifyRaises, ExternalStatuses
    <3>3. CASE VerifySynthetic(t)
      BY <3>3, ResolutionAssumption
      DEF VerifySynthetic, SyntheticAnswer, ExternalStatuses
    <3> QED BY <1>5, <3>1, <3>2, <3>3 DEF Verify
  <2>2. job' \in [Tasks -> Jobs]
    <3> DEFINE told == [job EXCEPT ![t].ext = ext]
    <3>1. told \in [Tasks -> Jobs]
      BY <1>0, <2>1 DEF TaskTypes, Jobs
    <3>2. job' = [told EXCEPT ![t].synthetic = synthetic]
      BY <2>1 DEF Verified
    <3> HIDE DEF told
    <3> QED BY <2>1, <3>1, <3>2 DEF Jobs
  <2>3. railKeys' \in [Hosts -> SUBSET (0 .. MaxVersion)]
    <3>1. job[t].version \in 0 .. MaxVersion
      BY <1>0 DEF TaskTypes, Jobs
    <3>2. railKeys' = railKeys
          \/ railKeys' = [railKeys EXCEPT ![HostOf[t]] = @ \cup {job[t].version}]
      BY <1>5 DEF Verify, VerifyAtProvider, VerifyRaises, VerifySynthetic
    <3>3. railKeys \in [Hosts -> SUBSET (0 .. MaxVersion)]
      BY <1>0 DEF RowTypes
    <3> QED BY <3>1, <3>2, <3>3
  <2>4. RowTypes'
    BY <1>0, <1>5, <2>3 DEF Verify, RowTypes, rowVars, worldVars, logVars
  <2> QED BY <1>5, <1>s, <1>p, <2>1, <2>2, <2>4 DEF Verify, Verified
<1>6. ASSUME NEW t \in Tasks, Decide(t)
      PROVE  RowTypes' /\ TaskTypes' /\ InsideIsBusy'
  <2> DEFINE unknown == job[t].ext = "UNKNOWN" \/ Ambiguous(t)
  <2>1. PICK advice \in Advice(job[t].state, job[t].hasCapture, UPIRail, AIActions),
             d \in Decisions :
          /\ job' = [job EXCEPT
               ![t].decision = d,
               ![t].action = IF d = "APPROVE" THEN advice.action ELSE "NO_ACTION",
               ![t].final = IF unknown THEN "MANUAL_REVIEW"
                            ELSE StateAfterRefusal(job[t].state, job[t].ext)]
          /\ Goto(t, IF d = "APPROVE" THEN "executing"
                     ELSE IF unknown THEN "escalating" ELSE "evidence")
    BY <1>6, EvaluateType DEF Decide
  <2>2. job[t].state \in States
    BY <1>0 DEF TaskTypes, Jobs
  <2>3. /\ StateAfterRefusal(job[t].state, job[t].ext) \in States
        /\ "MANUAL_REVIEW" \in States
    BY <2>2, OutcomeType DEF States, Terminal
  <2>4. (IF d = "APPROVE" THEN advice.action ELSE "NO_ACTION") \in ActionTypes
    BY AdviceType DEF ActionTypes
  <2>5. job' \in [Tasks -> Jobs]
    <3> DEFINE f == IF unknown THEN "MANUAL_REVIEW"
                    ELSE StateAfterRefusal(job[t].state, job[t].ext)
               a == IF d = "APPROVE" THEN advice.action ELSE "NO_ACTION"
    <3>1. f \in States /\ a \in ActionTypes
      BY <2>3, <2>4
    <3>2. job' = [job EXCEPT ![t].decision = d, ![t].action = a, ![t].final = f]
      BY <2>1
    <3> DEFINE j == [job[t] EXCEPT !.decision = d, !.action = a, !.final = f]
    <3> HIDE DEF f, a
    <3>3. j \in Jobs
      BY <1>0, <3>1 DEF TaskTypes, Jobs
    <3>4. job' = [job EXCEPT ![t] = j]
      BY <3>2
    <3> QED BY <1>0, <3>3, <3>4 DEF TaskTypes
  <2> QED BY <1>6, <1>r, <1>s, <1>p, <2>1, <2>5 DEF Decide
<1>7. ASSUME NEW t \in Tasks, Escalate(t)
      PROVE  RowTypes' /\ TaskTypes' /\ InsideIsBusy'
  <2>1. RowTypes'
    BY <1>0, <1>7, ResolutionAssumption DEF Escalate, RowTypes, rowVars, worldVars
  <2>2. job' \in [Tasks -> Jobs]
    BY <1>0, <1>7 DEF Escalate, TaskTypes
  <2> QED BY <1>7, <1>s, <1>p, <2>1, <2>2 DEF Escalate
<1>8. ASSUME NEW t \in Tasks, Execute(t)
      PROVE  RowTypes' /\ TaskTypes' /\ InsideIsBusy'
  <2>1. PICK ok \in BOOLEAN : Finished(t, ok)
    <3>1. Applied(t) => \E ok \in BOOLEAN : Finished(t, ok)
      BY ResolutionAssumption DEF Applied
    <3>2. Refused(t) => Finished(t, FALSE)
      BY DEF Refused
    <3>3. NoCall(t) => Finished(t, job[t].action = "NO_ACTION")
      BY DEF NoCall
    <3> QED BY <1>8, <3>1, <3>2, <3>3 DEF Execute
  <2>2. StateAfterAction(job[t].state, job[t].action, ok) \in States
    <3>1. job[t].state \in States
      BY <1>0 DEF TaskTypes, Jobs
    <3> QED BY <3>1, OutcomeType
  <2>3. job' \in [Tasks -> Jobs]
    <3> DEFINE f == StateAfterAction(job[t].state, job[t].action, ok)
    <3>1. f \in States
      BY <2>2
    <3> DEFINE called == [job EXCEPT ![t].succeeded = ok]
    <3>2. called \in [Tasks -> Jobs]
      BY <1>0, <2>1 DEF TaskTypes, Jobs
    <3>3. job' = [called EXCEPT ![t].final = f]
      BY <2>1 DEF Finished
    <3> HIDE DEF f, called
    <3>4. [called[t] EXCEPT !.final = f] \in Jobs
      BY <3>1, <3>2 DEF Jobs
    <3> QED BY <3>2, <3>3, <3>4
  <2>4. payment' \in {"none", "authorized", "captured", "failed", "refunded"}
        /\ ours' \subseteq MoneyActions /\ untold' \subseteq MoneyActions
    <3>1. Applied(t) /\ job[t].action \in MoneyActions =>
            /\ payment' \in {"none", "authorized", "captured", "failed", "refunded"}
            /\ ours' \subseteq MoneyActions /\ untold' \subseteq MoneyActions
      BY <1>0 DEF Applied, RowTypes
    <3>2. UNCHANGED worldVars =>
            /\ payment' \in {"none", "authorized", "captured", "failed", "refunded"}
            /\ ours' \subseteq MoneyActions /\ untold' \subseteq MoneyActions
      BY <1>0 DEF RowTypes, worldVars
    <3> QED BY <1>8, <3>1, <3>2 DEF Execute, Refused, NoCall
  <2>5. RowTypes'
    BY <1>0, <1>8, <2>4 DEF Execute, RowTypes, rowVars, logVars
  <2> QED BY <1>8, <1>s, <1>p, <2>1, <2>3, <2>5 DEF Execute, Finished
<1>9. ASSUME NEW t \in Tasks, Record(t)
      PROVE  RowTypes' /\ TaskTypes' /\ InsideIsBusy'
  <2>1. RowTypes'
    BY <1>0, <1>9 DEF Record, RowTypes, rowVars, worldVars
  <2>2. job' \in [Tasks -> Jobs]
    BY <1>0, <1>9 DEF Record, TaskTypes
  <2> QED BY <1>9, <1>s, <1>p, <2>1, <2>2 DEF Record
<1>10. ASSUME NEW t \in Tasks, RecordEvidence(t)
       PROVE  RowTypes' /\ TaskTypes' /\ InsideIsBusy'
  <2>1. job[t].version \in 0 .. MaxVersion
    BY <1>0 DEF TaskTypes, Jobs
  <2>2. RowTypes'
    BY <1>0, <1>10, <2>1 DEF RecordEvidence, RowTypes, rowVars, worldVars
  <2>3. job' \in [Tasks -> Jobs]
    BY <1>0, <1>10 DEF RecordEvidence, TaskTypes
  <2> QED BY <1>10, <1>s, <1>p, <2>2, <2>3 DEF RecordEvidence
<1>11. ASSUME NEW t \in Tasks, RecordEffect(t)
       PROVE  RowTypes' /\ TaskTypes' /\ InsideIsBusy'
  <2>1. RowTypes'
    BY <1>0, <1>11 DEF RecordEffect, RowTypes, worldVars, logVars
  <2>2. job' \in [Tasks -> Jobs]
    BY <1>0, <1>11 DEF RecordEffect, TaskTypes
  <2> QED BY <1>11, <1>s, <1>p, <2>1, <2>2 DEF RecordEffect
<1>12. ASSUME NEW t \in Tasks, Commit(t)
       PROVE  RowTypes' /\ TaskTypes' /\ InsideIsBusy'
  <2>1. job[t].final \in States
    BY <1>0 DEF TaskTypes, Jobs
  <2>2. NextVersion \in 0 .. MaxVersion
    BY <1>0, ResolutionAssumption DEF RowTypes, NextVersion
  <2>3. railKeys' \in [Hosts -> SUBSET (0 .. MaxVersion)]
    BY <1>0, <1>12 DEF Commit, RowTypes
  <2>4. resolved' \in BOOLEAN
    BY <1>12 DEF Commit, IsTerminal
  <2>5. RowTypes'
    BY <1>0, <1>12, <2>1, <2>2, <2>3, <2>4 DEF Commit, RowTypes, worldVars, logVars
  <2>6. job' \in [Tasks -> Jobs]
    BY <1>0, <1>12 DEF Commit, TaskTypes
  <2> QED BY <1>12, <1>s, <1>p, <2>5, <2>6 DEF Commit
<1>13. ASSUME NEW t \in Tasks, Finish(t)
       PROVE  RowTypes' /\ TaskTypes' /\ InsideIsBusy'
  <2>1. TaskTypes'
    BY <1>0, <1>j, <1>13 DEF Finish, TaskTypes, Goto, Places
  <2>2. inside' = inside \ {t}
    BY <1>13 DEF Finish, Release
  <2>3. InsideIsBusy'
    BY <1>0, <1>13, <2>2 DEF Finish, TaskTypes, Goto, InsideIsBusy
  <2> QED BY <1>13, <1>r, <2>1, <2>3 DEF Finish
<1>14. ASSUME NEW t \in Tasks, StatementRaises(t)
       PROVE  RowTypes' /\ TaskTypes' /\ InsideIsBusy'
  <2>1. job' \in [Tasks -> Jobs]
    BY <1>0, <1>14 DEF StatementRaises, TaskTypes
  <2> QED BY <1>14, <1>r, <1>s, <1>p, <2>1 DEF StatementRaises
<1>15. ASSUME NEW h \in Hosts, CrashProcess(h)
       PROVE  RowTypes' /\ TaskTypes' /\ InsideIsBusy'
  <2>1. RowTypes'
    BY <1>0, <1>15 DEF CrashProcess, RowTypes, rowVars, worldVars, logVars
  <2>2. TaskTypes'
    BY <1>0, <1>j, <1>15 DEF CrashProcess, TaskTypes, Places
  <2>3. inside' = {t \in inside : HostOf[t] # h}
    BY <1>15 DEF CrashProcess, CrashHost
  <2>4. InsideIsBusy'
    BY <1>0, <1>15, <2>3 DEF CrashProcess, TaskTypes, InsideIsBusy
  <2> QED BY <2>1, <2>2, <2>4
<1>16. CASE KeyExpires
  <2>1. UNCHANGED <<pc, job, inside>>
    BY <1>16 DEF KeyExpires, Expire
  <2> QED BY <1>0, <1>16, <1>r, <2>1 DEF KeyExpires, TaskTypes, InsideIsBusy
<1>17. CASE PaymentMoves \/ ReportFailure \/ WebhookUpsert \/ CheckoutReads
            \/ CheckoutWrites
  <2>1. UNCHANGED <<pc, job, inside>>
    BY <1>17 DEF PaymentMoves, ReportFailure, WebhookUpsert, CheckoutReads,
                 CheckoutWrites, UnlockedWrite, lockVars
  <2>2. RowTypes'
    <3>1. PaymentMoves => RowTypes'
      BY <1>0 DEF PaymentMoves, RowTypes, rowVars, logVars
    <3>2. "FAILED" \in States /\ "AUTHORIZED" \in States
      BY DEF States, Terminal
    <3>3. ReportFailure => RowTypes'
      BY <1>0, <3>2 DEF ReportFailure, UnlockedWrite, RowTypes, worldVars, logVars
    <3>4. WebhookUpsert => RowTypes'
      BY <1>0, <3>2 DEF WebhookUpsert, UnlockedWrite, RowTypes, worldVars, logVars
    <3>5. CheckoutReads \/ CheckoutWrites => RowTypes'
      BY <1>0, <3>2 DEF CheckoutReads, CheckoutWrites, UnlockedWrite, RowTypes,
                        rowVars, worldVars, logVars
    <3> QED BY <1>17, <3>1, <3>3, <3>4, <3>5
  <2> QED BY <1>0, <2>1, <2>2 DEF TaskTypes, InsideIsBusy
<1>18. CASE UNCHANGED vars
  <2>1. UNCHANGED <<pc, job, inside>>
    BY <1>18 DEF vars, lockVars
  <2> QED BY <1>0, <1>18, <1>r, <2>1 DEF vars, TaskTypes, InsideIsBusy
<1> QED
  BY <1>1, <1>2, <1>3, <1>4, <1>5, <1>6, <1>7, <1>8, <1>9, <1>10, <1>11, <1>12,
     <1>13, <1>14, <1>15, <1>16, <1>17, <1>18 DEF ResolutionNext, Resolve

(* The row, the logs, the lock and the tasks' variables keep their types,  *)
(* and a task holds a lock exactly while it is under way.                  *)
THEOREM ResolutionTypeCorrect == ResolutionSpec => []ResolutionTypeOK
BY ResolutionTypeInit, ResolutionTypeStep, PTL DEF ResolutionSpec

----------------------------------------------------------------------------
(* The books: what is logged happened, and no refund above the limit.      *)

RecordedIsOurs ==
  \A t \in Tasks : pc[t] = "recording" => {job[t].action} \cap MoneyActions \subseteq ours

CapIsKept ==
  OverCap => \A t \in Tasks : pc[t] = "executing" => job[t].action # "REFUND"

Books == RecordedIsOurs /\ LedgerNeverAhead /\ CapIsKept /\ RefundWithinCap

(* Rule 7 stands before rule 5: an approved refund is within the limit.    *)
LEMMA ApprovedIsWithinCap ==
  ASSUME NEW s, NEW c, NEW ext, NEW m, NEW advice, OverCap,
         Evaluate(s, c, ext, m, OverCap, advice) = "APPROVE"
  PROVE  advice.action # "REFUND"
BY DEF Evaluate

(* The parts of Decide by name.                                            *)
Unknown(t) == job[t].ext = "UNKNOWN" \/ Ambiguous(t)

DecisionOn(t, advice) ==
  Evaluate(job[t].state, job[t].hasCapture, job[t].ext,
           AmountsMatch \/ job[t].synthetic, OverCap, advice)

Refusal(t) == IF Unknown(t) THEN "MANUAL_REVIEW"
              ELSE StateAfterRefusal(job[t].state, job[t].ext)

AfterDecision(t, d) == IF d = "APPROVE" THEN "executing"
                       ELSE IF Unknown(t) THEN "escalating" ELSE "evidence"

(* What a decision leaves in the task's variables.                         *)
LEMMA Decided ==
  ASSUME TaskTypes, NEW t \in Tasks, Decide(t)
  PROVE  \E advice \in Advice(job[t].state, job[t].hasCapture, UPIRail, AIActions) :
           /\ job'[t].action = IF DecisionOn(t, advice) = "APPROVE"
                               THEN advice.action ELSE "NO_ACTION"
           /\ job'[t].final = Refusal(t)
           /\ job'[t].state = job[t].state /\ job'[t].version = job[t].version
           /\ job'[t].hasCapture = job[t].hasCapture /\ job'[t].ext = job[t].ext
           /\ pc'[t] = AfterDecision(t, DecisionOn(t, advice))
           /\ \A u \in Tasks \ {t} : job'[u] = job[u] /\ pc'[u] = pc[u]
<1>1. PICK advice \in Advice(job[t].state, job[t].hasCapture, UPIRail, AIActions) :
        /\ job' = [job EXCEPT
             ![t].decision = DecisionOn(t, advice),
             ![t].action = IF DecisionOn(t, advice) = "APPROVE" THEN advice.action
                           ELSE "NO_ACTION",
             ![t].final = Refusal(t)]
        /\ Goto(t, AfterDecision(t, DecisionOn(t, advice)))
  BY Zenon DEF Decide, DecisionOn, Refusal, Unknown, AfterDecision
<1> DEFINE d == DecisionOn(t, advice)
           a == IF d = "APPROVE" THEN advice.action ELSE "NO_ACTION"
           f == Refusal(t)
           j == [job[t] EXCEPT !.decision = d, !.action = a, !.final = f]
<1>2. job' = [job EXCEPT ![t] = j]
  BY <1>1
<1>3. job'[t] = j /\ \A u \in Tasks \ {t} : job'[u] = job[u]
  <2> HIDE DEF j
  <2> QED BY <1>2 DEF TaskTypes
<1>4. /\ j.action = a /\ j.final = f /\ j.state = job[t].state
      /\ j.version = job[t].version /\ j.hasCapture = job[t].hasCapture
      /\ j.ext = job[t].ext
  <2>1. job[t] \in Jobs
    BY DEF TaskTypes
  <2> HIDE DEF a, d, f
  <2> QED BY <2>1 DEF Jobs
<1>5. /\ pc'[t] = AfterDecision(t, d)
      /\ \A u \in Tasks \ {t} : pc'[u] = pc[u]
  BY <1>1 DEF Goto, TaskTypes
<1> HIDE DEF j
<1> QED BY <1>1, <1>3, <1>4, <1>5

LEMMA BooksInit == ResolutionInit => Books
BY DEF ResolutionInit, Books, RecordedIsOurs, LedgerNeverAhead, CapIsKept,
       RefundWithinCap

LEMMA BooksStep ==
  ResolutionTypeOK /\ Books /\ [ResolutionNext]_vars => Books'
<1> SUFFICES ASSUME ResolutionTypeOK, Books, [ResolutionNext]_vars PROVE Books'
  OBVIOUS
<1>0. TaskTypes
  BY TypeParts
<1> USE DEF Goto
<1>k. ASSUME UNCHANGED <<ours, ledger>>,
             \A t \in Tasks : pc'[t] \in {"executing", "recording"} =>
               pc'[t] = pc[t] /\ job'[t].action = job[t].action
      PROVE  Books'
  BY <1>k DEF Books, RecordedIsOurs, LedgerNeverAhead, CapIsKept, RefundWithinCap
<1>1. ASSUME NEW t \in Tasks,
             UNCHANGED <<ours, ledger>>,
             NEW place \in Places \ {"executing", "recording"}, Goto(t, place),
             \A u \in Tasks \ {t} : job'[u] = job[u]
      PROVE  Books'
  <2>1. \A u \in Tasks \ {t} : pc'[u] = pc[u]
    BY <1>0, <1>1 DEF TaskTypes
  <2>2. pc'[t] \notin {"executing", "recording"}
    BY <1>0, <1>1 DEF TaskTypes
  <2> QED BY <1>1, <1>k, <2>1, <2>2
<1> USE DEF worldVars, logVars
<1>2. ASSUME NEW t \in Tasks,
             Start(t) \/ PoolFails(t) \/ Escalate(t) \/ RecordEvidence(t)
             \/ RecordEffect(t) \/ Commit(t) \/ StatementRaises(t)
      PROVE  Books'
  <2>1. UNCHANGED <<ours, ledger, job>>
    BY <1>2 DEF Start, PoolFails, Escalate, RecordEvidence, RecordEffect,
                Commit, StatementRaises
  <2>2. \E place \in Places \ {"executing", "recording"} : Goto(t, place)
    BY <1>2 DEF Start, PoolFails, Escalate, RecordEvidence, RecordEffect,
                Commit, StatementRaises, Places
  <2> QED BY <1>1, <2>1, <2>2
<1>3. ASSUME NEW t \in Tasks, Load(t) \/ Count(t) \/ Verify(t) \/ Finish(t)
      PROVE  Books'
  <2>1. UNCHANGED <<ours, ledger>>
    BY <1>3 DEF Load, Count, Verify, Finish
  <2>2. \E place \in Places \ {"executing", "recording"} : Goto(t, place)
    BY <1>3 DEF Load, Count, Verify, VerifyAtProvider, VerifyRaises,
                VerifySynthetic, Verified, Finish, Places
  <2>3. \A u \in Tasks \ {t} : job'[u] = job[u]
    BY <1>0, <1>3 DEF Load, Count, Verify, VerifyAtProvider, VerifyRaises,
                      VerifySynthetic, Verified, Finish, TaskTypes
  <2> QED BY <1>1, <2>1, <2>2, <2>3
<1>4. ASSUME NEW t \in Tasks, Decide(t) PROVE Books'
  <2>1. UNCHANGED <<ours, ledger>> /\ pc'[t] # "recording"
        /\ \A u \in Tasks \ {t} : job'[u] = job[u] /\ pc'[u] = pc[u]
    BY <1>0, <1>4 DEF Decide, TaskTypes
  <2>2. OverCap /\ pc'[t] = "executing" => job'[t].action # "REFUND"
    <3> SUFFICES ASSUME OverCap, pc'[t] = "executing"
                 PROVE  job'[t].action # "REFUND"
      OBVIOUS
    <3>1. PICK advice :
            /\ job'[t].action = IF DecisionOn(t, advice) = "APPROVE"
                                THEN advice.action ELSE "NO_ACTION"
            /\ pc'[t] = AfterDecision(t, DecisionOn(t, advice))
      BY <1>0, <1>4, Decided
    <3>2. DecisionOn(t, advice) = "APPROVE"
      BY <3>1 DEF AfterDecision
    <3> QED BY <3>1, <3>2, ApprovedIsWithinCap DEF DecisionOn
  <2> QED BY <2>1, <2>2 DEF Books, RecordedIsOurs, LedgerNeverAhead, CapIsKept,
                            RefundWithinCap
<1>5. ASSUME NEW t \in Tasks, Execute(t) PROVE Books'
  <2>1. PICK ok \in BOOLEAN :
          /\ Finished(t, ok)
          /\ ours \subseteq ours' /\ ours' \subseteq ours \cup {job[t].action}
          /\ ok => {job[t].action} \cap MoneyActions \subseteq ours'
    <3>1. ASSUME Applied(t) PROVE \E ok \in BOOLEAN : Finished(t, ok)
      BY <3>1, ResolutionAssumption DEF Applied
    <3>2. Applied(t) => ours' = ours \cup {job[t].action}
      BY DEF Applied
    <3>3. Refused(t) => Finished(t, FALSE) /\ ours' = ours
      BY DEF Refused
    <3>4. NoCall(t) => Finished(t, job[t].action = "NO_ACTION") /\ ours' = ours
      BY DEF NoCall
    <3>5. "NO_ACTION" \notin MoneyActions
      BY DEF MoneyActions
    <3> QED BY <1>5, <3>1, <3>2, <3>3, <3>4, <3>5 DEF Execute
  <2>2. /\ \A u \in Tasks \ {t} : job'[u] = job[u] /\ pc'[u] = pc[u]
        /\ job'[t].action = job[t].action
        /\ pc'[t] # "executing" /\ (pc'[t] = "recording" => ok)
    BY <1>0, <2>1 DEF Finished, TaskTypes, Jobs
  <2>3. ledger' = ledger /\ pc[t] = "executing"
    BY <1>5 DEF Execute
  <2> QED BY <2>1, <2>2, <2>3 DEF Books, RecordedIsOurs, LedgerNeverAhead,
                                  CapIsKept, RefundWithinCap
<1>6. ASSUME NEW t \in Tasks, Record(t) PROVE Books'
  <2>1. /\ UNCHANGED <<ours, job>> /\ pc[t] = "recording"
        /\ ledger' \subseteq ledger \cup ({job[t].action} \cap MoneyActions)
    BY <1>6 DEF Record
  <2>2. pc'[t] = "evidence" /\ \A u \in Tasks \ {t} : pc'[u] = pc[u]
    BY <1>0, <1>6 DEF Record, TaskTypes
  <2> QED BY <2>1, <2>2 DEF Books, RecordedIsOurs, LedgerNeverAhead, CapIsKept,
                            RefundWithinCap
<1>7. ASSUME NEW h \in Hosts, CrashProcess(h) PROVE Books'
  <2>1. UNCHANGED <<ours, ledger>>
    BY <1>7 DEF CrashProcess
  <2>2. \A t \in Tasks : pc'[t] = "idle" \/ (pc'[t] = pc[t] /\ job'[t] = job[t])
    BY <1>7 DEF CrashProcess
  <2> QED BY <1>k, <2>1, <2>2
<1>8. CASE KeyExpires \/ PaymentMoves \/ ReportFailure \/ WebhookUpsert
           \/ CheckoutReads \/ CheckoutWrites \/ UNCHANGED vars
  <2>1. UNCHANGED <<ours, ledger, pc, job>>
    BY <1>8 DEF KeyExpires, PaymentMoves, ReportFailure, WebhookUpsert,
                CheckoutReads, CheckoutWrites, UnlockedWrite, vars
  <2> QED BY <1>k, <2>1
<1> QED
  BY <1>2, <1>3, <1>4, <1>5, <1>6, <1>7, <1>8 DEF ResolutionNext, Resolve

(* Whatever fails or dies between a call to the provider and its row, and  *)
(* however many resolutions overlap: the log tells of nothing that did not *)
(* happen.                                                                 *)
THEOREM LedgerIsTrue == ResolutionSpec => []LedgerNeverAhead
<1>1. Books => LedgerNeverAhead
  BY DEF Books
<1> QED BY <1>1, BooksInit, BooksStep, ResolutionTypeCorrect, PTL
        DEF ResolutionSpec

(* Whatever a language model recommends and however the lock fails: no     *)
(* refund above the limit is made by a resolution.                         *)
THEOREM RefundsAreWithinCap == ResolutionSpec => []RefundWithinCap
<1>1. Books => RefundWithinCap
  BY DEF Books
<1> QED BY <1>1, BooksInit, BooksStep, ResolutionTypeCorrect, PTL
        DEF ResolutionSpec

----------------------------------------------------------------------------
(* One resolution at a time: what it read is still so.                     *)

\* What a resolution knows of the row and the logs at each place.
Knows(t) ==
  /\ pc[t] \in Holding => job[t].version = version
  /\ pc[t] \in {"effect", "committing"} => job[t].version \in evidence
  /\ pc[t] \in {"verifying", "deciding"} => (job[t].hasCapture <=> "CAPTURE" \in ledger)
  /\ pc[t] = "executing" /\ job[t].action = "CAPTURE" => "CAPTURE" \notin ledger

\* One step of the state machine, or none.
Moves(s, f) == f = s \/ \E e \in ResolverEvents : f = Transition(s, e)

\* And what it will write is a step of the state machine from what it read.
KnowsState(t) ==
  /\ pc[t] \in Holding => job[t].state = currentState /\ ~IsTerminal(job[t].state)
  /\ pc[t] \in {"escalating", "recording", "evidence", "effect", "committing"} =>
       Moves(job[t].state, job[t].final)

Exclusive ==
  /\ HolderOwnsKey
  /\ AuditTrailComplete
  /\ \A t \in Tasks : Knows(t)

SnapshotKept == ~checkout /\ \A t \in Tasks : KnowsState(t)

(* Rule 4, and rule 5 for a suspected duplicate: an approved capture is    *)
(* the first.                                                              *)
LEMMA ApprovedCaptureIsFirst ==
  ASSUME NEW s, NEW c, NEW ext, NEW m, NEW advice,
         Evaluate(s, c, ext, m, OverCap, advice) = "APPROVE",
         advice.action = "CAPTURE"
  PROVE  ~c
BY DEF Evaluate, AllowedActions, Resolvable

(* What the resolver writes is a step of the state machine.                *)
LEMMA OutcomesMove ==
  ASSUME NEW s \in States
  PROVE  /\ \A a, ok : Moves(s, StateAfterAction(s, a, ok))
         /\ \A ext : Moves(s, StateAfterRefusal(s, ext))
         /\ ~IsTerminal(s) => Moves(s, "MANUAL_REVIEW")
<1>1. ~IsTerminal(s) => Transition(s, "UNKNOWN_EVIDENCE") = "MANUAL_REVIEW"
  BY SMTT(60) DEF Transition, AllowedEvents, Transitions, States, Terminal, IsTerminal
<1> QED BY <1>1 DEF Moves, StateAfterAction, StateAfterRefusal, ResolverEvents

(* Two resolutions are not under way at once.                              *)
LEMMA OthersAreIdle ==
  ASSUME ResolutionTypeOK, HolderOwnsKey, NEW t \in Tasks, pc[t] # "idle"
  PROVE  \A u \in Tasks \ {t} : pc[u] = "idle"
BY DEF ResolutionTypeOK, HolderOwnsKey

(* A task that is idle, loading or releasing knows nothing.                *)
LEMMA NothingKnown ==
  ASSUME NEW t \in Tasks, pc[t] \in {"idle", "loading", "releasing"}
  PROVE  Knows(t) /\ KnowsState(t)
BY DEF Knows, KnowsState, Holding

LEMMA NothingKnownNext ==
  ASSUME NEW t \in Tasks, pc'[t] \in {"idle", "loading", "releasing"}
  PROVE  Knows(t)' /\ KnowsState(t)'
BY DEF Knows, KnowsState, Holding

(* The task that steps knows what it should; the others are idle.          *)
LEMMA KnowsStep ==
  ASSUME ResolutionTypeOK, Exclusive, NEW t \in Tasks,
         Resolve(t) \/ StatementRaises(t)
  PROVE  /\ AuditTrailComplete'
         /\ Knows(t)'
         /\ KnowsState(t) => KnowsState(t)'
         /\ checkout' = checkout
         /\ \A u \in Tasks \ {t} : pc'[u] = pc[u]
         /\ currentState' = currentState \/ (pc[t] = "committing" /\ currentState' = job[t].final)
<1>0. TaskTypes /\ RowTypes /\ Knows(t) /\ AuditTrailComplete
  BY TypeParts DEF Exclusive
<1>j. job[t] \in Jobs /\ pc[t] \in Places
  BY <1>0 DEF TaskTypes
<1> USE DEF Goto, rowVars, worldVars, logVars
<1>1. CASE Load(t)
  <2>1. /\ UNCHANGED <<currentState, version, evidence, checkout>>
        /\ \A u \in Tasks \ {t} : pc'[u] = pc[u]
    BY <1>0, <1>1 DEF Load, TaskTypes
  <2>2. CASE IsTerminal(currentState)
    <3>1. pc'[t] = "releasing"
      BY <1>0, <1>1, <2>2 DEF Load, TaskTypes
    <3> QED BY <1>0, <2>1, <3>1, NothingKnownNext DEF AuditTrailComplete
  <2>3. CASE ~IsTerminal(currentState)
    <3>1. pc'[t] = "counting" /\ job'[t].state = currentState
          /\ job'[t].version = version
      BY <1>0, <1>j, <1>1, <2>3 DEF Load, TaskTypes, Jobs
    <3> QED BY <1>0, <2>1, <2>3, <3>1
            DEF AuditTrailComplete, Knows, KnowsState, Holding
  <2> QED BY <2>2, <2>3
<1>2. CASE Count(t)
  <2> DEFINE c == "CAPTURE" \in ledger
  <2>1. /\ UNCHANGED <<currentState, version, evidence, ledger, checkout>>
        /\ \A u \in Tasks \ {t} : pc'[u] = pc[u]
        /\ pc[t] = "counting" /\ pc'[t] = "verifying"
    BY <1>0, <1>2 DEF Count, TaskTypes
  <2>2. /\ job'[t].hasCapture = c /\ job'[t].state = job[t].state
        /\ job'[t].version = job[t].version
    <3>1. job' = [job EXCEPT ![t].hasCapture = c]
      BY <1>2 DEF Count
    <3> HIDE DEF c
    <3> QED BY <1>0, <1>j, <3>1 DEF TaskTypes, Jobs
  <2> QED BY <1>0, <2>1, <2>2 DEF AuditTrailComplete, Knows, KnowsState, Holding
<1>3. CASE Verify(t)
  <2>1. PICK ext, synthetic : Verified(t, ext, synthetic)
    BY <1>3 DEF Verify, VerifyAtProvider, VerifyRaises, VerifySynthetic
  <2>2. /\ UNCHANGED <<currentState, version, evidence, ledger, checkout>>
        /\ pc[t] = "verifying"
    BY <1>3 DEF Verify
  <2>3. /\ \A u \in Tasks \ {t} : pc'[u] = pc[u]
        /\ pc'[t] = "deciding"
        /\ job'[t].hasCapture = job[t].hasCapture /\ job'[t].state = job[t].state
        /\ job'[t].version = job[t].version
    BY <1>0, <1>j, <2>1 DEF Verified, TaskTypes, Jobs
  <2> QED BY <1>0, <2>2, <2>3 DEF AuditTrailComplete, Knows, KnowsState, Holding
<1>4. CASE Decide(t)
  <2>1. /\ UNCHANGED <<currentState, version, evidence, ledger, checkout>>
        /\ pc[t] = "deciding"
    BY <1>4 DEF Decide
  <2>2. PICK advice :
          /\ job'[t].action = IF DecisionOn(t, advice) = "APPROVE"
                              THEN advice.action ELSE "NO_ACTION"
          /\ job'[t].final = Refusal(t)
          /\ job'[t].state = job[t].state /\ job'[t].version = job[t].version
          /\ pc'[t] = AfterDecision(t, DecisionOn(t, advice))
          /\ \A u \in Tasks \ {t} : pc'[u] = pc[u]
    BY <1>0, <1>4, Decided
  <2>3. pc'[t] \in {"executing", "escalating", "evidence"}
        /\ (pc'[t] = "executing" => DecisionOn(t, advice) = "APPROVE")
    BY <2>2 DEF AfterDecision
  <2>4. pc'[t] = "executing" /\ job'[t].action = "CAPTURE" => "CAPTURE" \notin ledger
    <3> SUFFICES ASSUME pc'[t] = "executing", job'[t].action = "CAPTURE"
                 PROVE  "CAPTURE" \notin ledger
      OBVIOUS
    <3>1. DecisionOn(t, advice) = "APPROVE" /\ advice.action = "CAPTURE"
      BY <2>2, <2>3
    <3>2. ~job[t].hasCapture
      BY <3>1, ApprovedCaptureIsFirst DEF DecisionOn
    <3> QED BY <1>0, <2>1, <3>2 DEF Knows
  <2>5. Knows(t)'
    BY <1>0, <2>1, <2>2, <2>3, <2>4 DEF Knows, Holding
  <2>6. KnowsState(t) => KnowsState(t)'
    <3>1. KnowsState(t) => Moves(job[t].state, Refusal(t))
      <4>1. job[t].state \in States
        BY <1>j DEF Jobs
      <4>2. KnowsState(t) => ~IsTerminal(job[t].state)
        BY <2>1 DEF KnowsState, Holding
      <4> QED BY <4>1, <4>2, OutcomesMove DEF Refusal
    <3> QED BY <2>1, <2>2, <2>3, <3>1 DEF KnowsState, Holding
  <2> QED BY <1>0, <2>1, <2>2, <2>5, <2>6 DEF AuditTrailComplete
<1>5. CASE Escalate(t)
  <2>1. /\ UNCHANGED <<currentState, version, evidence, ledger, checkout, job>>
        /\ pc[t] = "escalating" /\ pc'[t] = "evidence"
        /\ \A u \in Tasks \ {t} : pc'[u] = pc[u]
    BY <1>0, <1>5 DEF Escalate, TaskTypes
  <2> QED BY <1>0, <2>1 DEF AuditTrailComplete, Knows, KnowsState, Holding
<1>6. CASE Execute(t)
  <2>1. /\ UNCHANGED <<currentState, version, evidence, ledger, checkout>>
        /\ pc[t] = "executing"
    BY <1>6 DEF Execute
  <2>2. PICK ok : Finished(t, ok)
    BY <1>6 DEF Execute, Applied, Refused, NoCall
  <2>3. /\ pc'[t] \in {"recording", "evidence"}
        /\ \A u \in Tasks \ {t} : pc'[u] = pc[u]
    BY <1>0, <2>2 DEF Finished, TaskTypes
  <2> DEFINE f == StateAfterAction(job[t].state, job[t].action, ok)
  <2>4. /\ job'[t].final = f /\ job'[t].state = job[t].state
        /\ job'[t].version = job[t].version
    <3>1. job' = [job EXCEPT ![t].succeeded = ok, ![t].final = f]
      BY <2>2 DEF Finished
    <3> HIDE DEF f
    <3> QED BY <1>0, <1>j, <3>1 DEF TaskTypes, Jobs
  <2>5. Moves(job[t].state, f)
    BY <1>j, OutcomesMove DEF Jobs
  <2> HIDE DEF f
  <2> QED BY <1>0, <2>1, <2>3, <2>4, <2>5
          DEF AuditTrailComplete, Knows, KnowsState, Holding
<1>7. CASE Record(t)
  <2>1. /\ UNCHANGED <<currentState, version, evidence, checkout, job>>
        /\ pc[t] = "recording" /\ pc'[t] = "evidence"
        /\ \A u \in Tasks \ {t} : pc'[u] = pc[u]
    BY <1>0, <1>7 DEF Record, TaskTypes
  <2> QED BY <1>0, <2>1 DEF AuditTrailComplete, Knows, KnowsState, Holding
<1>8. CASE RecordEvidence(t)
  <2>1. /\ UNCHANGED <<currentState, version, ledger, checkout, job>>
        /\ pc[t] = "evidence" /\ pc'[t] \in {"effect", "committing"}
        /\ evidence' = evidence \cup {job[t].version}
        /\ \A u \in Tasks \ {t} : pc'[u] = pc[u]
    BY <1>0, <1>8 DEF RecordEvidence, TaskTypes
  <2> QED BY <1>0, <2>1 DEF AuditTrailComplete, Knows, KnowsState, Holding
<1>9. CASE RecordEffect(t)
  <2>1. /\ UNCHANGED <<currentState, version, evidence, ledger, checkout, job>>
        /\ pc[t] = "effect" /\ pc'[t] = "committing"
        /\ \A u \in Tasks \ {t} : pc'[u] = pc[u]
    BY <1>0, <1>9 DEF RecordEffect, TaskTypes
  <2> QED BY <1>0, <2>1 DEF AuditTrailComplete, Knows, KnowsState, Holding
<1>10. CASE Commit(t)
  <2>1. /\ UNCHANGED <<evidence, ledger, checkout, job>>
        /\ pc[t] = "committing" /\ pc'[t] = "releasing"
        /\ currentState' = job[t].final /\ version' = NextVersion
        /\ \A u \in Tasks \ {t} : pc'[u] = pc[u]
    BY <1>0, <1>10 DEF Commit, TaskTypes
  <2>2. version \in evidence
    BY <1>0, <2>1 DEF Knows, Holding
  <2>3. AuditTrailComplete'
    <3> SUFFICES ASSUME NEW v \in 0 .. MaxVersion, v < version'
                 PROVE  v \in evidence
      BY <2>1 DEF AuditTrailComplete
    <3>1. v < version \/ v = version
      BY <1>0, <2>1, ResolutionAssumption DEF NextVersion, RowTypes
    <3> QED BY <1>0, <2>2, <3>1 DEF AuditTrailComplete
  <2> QED BY <2>1, <2>3, NothingKnownNext
<1>11. CASE Finish(t) \/ StatementRaises(t)
  <2>1. /\ UNCHANGED <<currentState, version, evidence, ledger, checkout>>
        /\ pc'[t] \in {"idle", "releasing"}
        /\ \A u \in Tasks \ {t} : pc'[u] = pc[u]
    BY <1>0, <1>11 DEF Finish, StatementRaises, TaskTypes
  <2> QED BY <1>0, <2>1, NothingKnownNext DEF AuditTrailComplete
<1> QED
  BY <1>1, <1>2, <1>3, <1>4, <1>5, <1>6, <1>7, <1>8, <1>9, <1>10, <1>11 DEF Resolve

LEMMA ExclusiveInit == ResolutionInit => Exclusive
<1>1. ResolutionInit => HolderOwnsKey
  BY DEF ResolutionInit, LockInit, HolderOwnsKey
<1>2. ResolutionInit => AuditTrailComplete
  BY DEF ResolutionInit, AuditTrailComplete
<1>3. ResolutionInit => \A t \in Tasks : Knows(t)
  BY DEF ResolutionInit, Knows, Holding
<1> QED BY <1>1, <1>2, <1>3 DEF Exclusive

LEMMA ExclusiveStep ==
  ASSUME ~LiveExpiry, ~RedisFails, ResolutionTypeOK, Exclusive, [ResolutionNext]_vars
  PROVE  Exclusive'
<1>0. TaskTypes /\ LockTypeOK
  BY TypeParts
<1>1. HolderOwnsKey'
  BY LockSteps, HolderStep, <1>0 DEF Exclusive
<1> SUFFICES AuditTrailComplete' /\ \A u \in Tasks : Knows(u)'
  BY <1>1 DEF Exclusive
<1>k. ASSUME UNCHANGED <<version, evidence, ledger>>,
             \A u \in Tasks : \/ pc'[u] \in {"idle", "loading", "releasing"}
                              \/ pc'[u] = pc[u] /\ job'[u] = job[u]
      PROVE  AuditTrailComplete' /\ \A u \in Tasks : Knows(u)'
  <2>1. AuditTrailComplete'
    BY <1>k DEF Exclusive, AuditTrailComplete
  <2>2. ASSUME NEW u \in Tasks PROVE Knows(u)'
    <3>1. CASE pc'[u] \in {"idle", "loading", "releasing"}
      BY <3>1, NothingKnownNext
    <3>2. CASE pc'[u] = pc[u] /\ job'[u] = job[u]
      BY <1>k, <3>2 DEF Exclusive, Knows
    <3> QED BY <1>k, <3>1, <3>2
  <2> QED BY <2>1, <2>2
<1> USE DEF Goto, rowVars, worldVars, logVars
<1>2. ASSUME NEW t \in Tasks, Resolve(t) \/ StatementRaises(t)
      PROVE  AuditTrailComplete' /\ \A u \in Tasks : Knows(u)'
  <2>1. pc[t] # "idle"
    BY <1>2 DEF Resolve, StatementRaises, Load, Count, Verify, Decide, Escalate,
                Execute, Record, RecordEvidence, RecordEffect, Commit, Finish
  <2>2. \A u \in Tasks \ {t} : pc[u] = "idle"
    BY <2>1, OthersAreIdle DEF Exclusive
  <2>3. /\ AuditTrailComplete' /\ Knows(t)'
        /\ \A u \in Tasks \ {t} : pc'[u] = pc[u]
    BY <1>2, KnowsStep
  <2>4. \A u \in Tasks \ {t} : Knows(u)'
    BY <2>2, <2>3, NothingKnownNext
  <2> QED BY <2>3, <2>4
<1>3. ASSUME NEW t \in Tasks, Start(t) \/ PoolFails(t)
      PROVE  AuditTrailComplete' /\ \A u \in Tasks : Knows(u)'
  <2>1. UNCHANGED <<version, evidence, ledger, job>>
        /\ pc'[t] \in {"idle", "loading"} /\ \A u \in Tasks \ {t} : pc'[u] = pc[u]
    BY <1>0, <1>3 DEF Start, PoolFails, TaskTypes
  <2> QED BY <1>k, <2>1
<1>4. ASSUME NEW h \in Hosts, CrashProcess(h)
      PROVE  AuditTrailComplete' /\ \A u \in Tasks : Knows(u)'
  <2>1. UNCHANGED <<version, evidence, ledger>>
    BY <1>4 DEF CrashProcess
  <2>2. \A u \in Tasks : pc'[u] = "idle" \/ (pc'[u] = pc[u] /\ job'[u] = job[u])
    BY <1>4 DEF CrashProcess
  <2> QED BY <1>k, <2>1, <2>2
<1>5. CASE KeyExpires \/ PaymentMoves \/ ReportFailure \/ WebhookUpsert
           \/ CheckoutReads \/ CheckoutWrites \/ UNCHANGED vars
  <2>1. UNCHANGED <<version, evidence, ledger, pc, job>>
    BY <1>5 DEF KeyExpires, PaymentMoves, ReportFailure, WebhookUpsert,
                CheckoutReads, CheckoutWrites, UnlockedWrite, vars
  <2> QED BY <1>k, <2>1
<1> QED BY <1>2, <1>3, <1>4, <1>5 DEF ResolutionNext

LEMMA ExclusiveInvariant ==
  ASSUME ~LiveExpiry, ~RedisFails
  PROVE  ResolutionSpec => [](ResolutionTypeOK /\ Exclusive)
<1>1. ResolutionTypeOK /\ Exclusive /\ [ResolutionNext]_vars => Exclusive'
  BY ExclusiveStep
<1> QED BY <1>1, ExclusiveInit, ResolutionTypeCorrect, PTL DEF ResolutionSpec

(* As long as the lock excludes: every version of the row that was left    *)
(* behind has its evidence, whatever statements raise.                     *)
THEOREM AuditTrailIsComplete ==
  ASSUME ~LiveExpiry, ~RedisFails
  PROVE  ResolutionSpec => []AuditTrailComplete
<1>1. Exclusive => AuditTrailComplete
  BY DEF Exclusive
<1> QED BY <1>1, ExclusiveInvariant, PTL

(* As long as the lock excludes: no capture is attempted once one is       *)
(* logged, whatever a language model recommends.                           *)
THEOREM CapturesAreOnce ==
  ASSUME ~LiveExpiry, ~RedisFails
  PROVE  ResolutionSpec => []CapturesOnce
<1>1. Exclusive => CapturesOnce
  BY DEF Exclusive, Knows, CapturesOnce
<1> QED BY <1>1, ExclusiveInvariant, PTL

(* The lock taken by resolve() itself: two resolutions of one intent are   *)
(* never under way at once, whatever raises, dies or is orphaned.          *)
THEOREM ResolutionIsExclusive ==
  ASSUME ~LiveExpiry, ~RedisFails
  PROVE  ResolutionSpec => []MutualExclusion
<1>1. Exclusive => MutualExclusion
  BY DEF Exclusive, HolderOwnsKey, MutualExclusion
<1> QED BY <1>1, ExclusiveInvariant, PTL

----------------------------------------------------------------------------
(* And no request writes the row without the lock: its state is the one    *)
(* the resolution read, and changes by the state machine.                  *)

LEMMA SnapshotInit == ResolutionInit => SnapshotKept
BY DEF ResolutionInit, SnapshotKept, KnowsState, Holding

LEMMA SnapshotStep ==
  ASSUME RowWriters = {}, ResolutionTypeOK, Exclusive, SnapshotKept,
         [ResolutionNext]_vars
  PROVE  SnapshotKept'
<1>0. TaskTypes
  BY TypeParts
<1>k. ASSUME UNCHANGED <<currentState, checkout>>,
             \A u \in Tasks : \/ pc'[u] \in {"idle", "loading", "releasing"}
                              \/ pc'[u] = pc[u] /\ job'[u] = job[u]
      PROVE  SnapshotKept'
  <2>1. ASSUME NEW u \in Tasks PROVE KnowsState(u)'
    <3>1. CASE pc'[u] \in {"idle", "loading", "releasing"}
      BY <3>1, NothingKnownNext
    <3>2. CASE pc'[u] = pc[u] /\ job'[u] = job[u]
      BY <1>k, <3>2 DEF SnapshotKept, KnowsState
    <3> QED BY <1>k, <3>1, <3>2
  <2> QED BY <1>k, <2>1 DEF SnapshotKept
<1> USE DEF Goto, rowVars
<1>1. ASSUME NEW t \in Tasks, Resolve(t) \/ StatementRaises(t) PROVE SnapshotKept'
  <2>1. pc[t] # "idle"
    BY <1>1 DEF Resolve, StatementRaises, Load, Count, Verify, Decide, Escalate,
                Execute, Record, RecordEvidence, RecordEffect, Commit, Finish
  <2>2. \A u \in Tasks \ {t} : pc[u] = "idle"
    BY <2>1, OthersAreIdle DEF Exclusive
  <2>3. /\ KnowsState(t) => KnowsState(t)'
        /\ checkout' = checkout
        /\ \A u \in Tasks \ {t} : pc'[u] = pc[u]
    BY <1>1, KnowsStep
  <2>4. \A u \in Tasks \ {t} : KnowsState(u)'
    BY <2>2, <2>3, NothingKnownNext
  <2> QED BY <2>3, <2>4 DEF SnapshotKept
<1>2. ASSUME NEW t \in Tasks, Start(t) \/ PoolFails(t) PROVE SnapshotKept'
  <2>1. UNCHANGED <<currentState, checkout, job>>
        /\ pc'[t] \in {"idle", "loading"} /\ \A u \in Tasks \ {t} : pc'[u] = pc[u]
    BY <1>0, <1>2 DEF Start, PoolFails, TaskTypes
  <2> QED BY <1>k, <2>1
<1>3. ASSUME NEW h \in Hosts, CrashProcess(h) PROVE SnapshotKept'
  <2>0. checkout = FALSE
    BY DEF SnapshotKept, ResolutionTypeOK
  <2>1. UNCHANGED <<currentState, checkout>>
    BY <1>3, <2>0 DEF CrashProcess
  <2>2. \A u \in Tasks : pc'[u] = "idle" \/ (pc'[u] = pc[u] /\ job'[u] = job[u])
    BY <1>3 DEF CrashProcess
  <2> QED BY <1>k, <2>1, <2>2
<1>4. CASE KeyExpires \/ PaymentMoves \/ ReportFailure \/ WebhookUpsert
           \/ CheckoutReads \/ CheckoutWrites \/ UNCHANGED vars
  <2>1. UNCHANGED <<currentState, checkout, pc, job>>
    BY <1>4 DEF KeyExpires, PaymentMoves, ReportFailure, WebhookUpsert,
                CheckoutReads, CheckoutWrites, SnapshotKept, vars
  <2> QED BY <1>k, <2>1
<1> QED BY <1>1, <1>2, <1>3, <1>4 DEF ResolutionNext

LEMMA SnapshotInvariant ==
  ASSUME ~LiveExpiry, ~RedisFails, RowWriters = {}
  PROVE  ResolutionSpec => [](ResolutionTypeOK /\ Exclusive /\ SnapshotKept)
<1>1. ResolutionTypeOK /\ Exclusive /\ SnapshotKept /\ [ResolutionNext]_vars
        => SnapshotKept'
  BY SnapshotStep
<1> QED BY <1>1, SnapshotInit, ExclusiveInvariant, PTL DEF ResolutionSpec

(* As long as the lock excludes and nobody else writes the row: what a     *)
(* resolution read of it is still so when it writes it back.               *)
THEOREM SnapshotStaysFresh ==
  ASSUME ~LiveExpiry, ~RedisFails, RowWriters = {}
  PROVE  ResolutionSpec => []SnapshotFresh
<1>1. Exclusive /\ SnapshotKept => SnapshotFresh
  BY DEF Exclusive, SnapshotKept, Knows, KnowsState, SnapshotFresh
<1> QED BY <1>1, SnapshotInvariant, PTL

(* The refined machine's transition function is that of PaymentStates.     *)
LEMMA SameTransition ==
  ASSUME NEW s, NEW e
  PROVE  Lifecycle!Transition(s, e) = Transition(s, e)
BY DEF Lifecycle!Transition, Transition, Lifecycle!AllowedEvents, AllowedEvents,
       Lifecycle!Transitions, Transitions, Lifecycle!Terminal, Terminal

LEMMA StateMoves ==
  ASSUME RowWriters = {}, ResolutionTypeOK, Exclusive, SnapshotKept,
         [ResolutionNext]_vars
  PROVE  Moves(currentState, currentState')
<1>1. ASSUME NEW t \in Tasks, Resolve(t) \/ StatementRaises(t)
      PROVE  Moves(currentState, currentState')
  <2>1. \/ currentState' = currentState
        \/ pc[t] = "committing" /\ currentState' = job[t].final
    BY <1>1, KnowsStep
  <2>2. pc[t] = "committing" =>
          job[t].state = currentState /\ Moves(job[t].state, job[t].final)
    BY DEF SnapshotKept, KnowsState, Holding
  <2>3. CASE currentState' = currentState
    BY <2>3 DEF Moves
  <2>4. CASE pc[t] = "committing" /\ currentState' = job[t].final
    BY <2>2, <2>4
  <2> QED BY <2>1, <2>3, <2>4
<1>2. CASE ~\E t \in Tasks : Resolve(t) \/ StatementRaises(t)
  <2>1. currentState' = currentState
    BY <1>2 DEF ResolutionNext, Start, PoolFails, CrashProcess, KeyExpires,
                PaymentMoves, ReportFailure, WebhookUpsert, CheckoutReads,
                CheckoutWrites, SnapshotKept, vars, rowVars
  <2> QED BY <2>1 DEF Moves
<1> QED BY <1>1, <1>2

(* As long as the lock excludes and nobody else writes the row: the        *)
(* resolver implements the state machine of PaymentLifecycle.              *)
THEOREM LifecycleIsImplemented ==
  ASSUME ~LiveExpiry, ~RedisFails, RowWriters = {}
  PROVE  ResolutionSpec => ImplementsLifecycle
<1>1. ResolutionInit => Lifecycle!LifecycleInit
  BY DEF ResolutionInit, Lifecycle!LifecycleInit
<1>2. ASSUME ResolutionTypeOK, Exclusive, SnapshotKept, [ResolutionNext]_vars
      PROVE  [\E e \in ResolverEvents : Lifecycle!Deliver(e)]_currentState
  <2>1. Moves(currentState, currentState')
    BY <1>2, StateMoves
  <2> QED BY <2>1, SameTransition DEF Moves, Lifecycle!Deliver
<1>3. ResolutionTypeOK /\ Exclusive /\ SnapshotKept /\ [ResolutionNext]_vars
        => [\E e \in {"VERIFIED_SUCCESS", "VERIFIED_FAILED", "ACTION_CONFIRMED",
                      "DUPLICATE_DETECTED", "UNKNOWN_EVIDENCE"} :
              Lifecycle!Deliver(e)]_currentState
  BY <1>2 DEF ResolverEvents
<1> QED BY <1>1, <1>3, SnapshotInvariant, PTL
        DEF ResolutionSpec, ImplementsLifecycle, Lifecycle!LifecycleSpec

(* None of the resolver's events leads out of a settled state.             *)
LEMMA SettledMovesNowhere ==
  ASSUME NEW s \in Terminal, NEW f, Moves(s, f)
  PROVE  f = s
<1>1. \A e \in ResolverEvents : Transition(s, e) = s
  <2>1. ASSUME NEW e \in ResolverEvents PROVE e \notin AllowedEvents(s)
    BY DEF AllowedEvents, Transitions, Terminal, ResolverEvents
  <2> QED BY <2>1 DEF Transition, ResolverEvents
<1> QED BY <1>1 DEF Moves

(* As long as the lock excludes and nobody else writes the row: settled    *)
(* states "must never rewind" (docs/financial_invariants.md:36), however   *)
(* many resolutions follow, raise or die.                                  *)
THEOREM SettledNeverRewinds ==
  ASSUME ~LiveExpiry, ~RedisFails, RowWriters = {}
  PROVE  ResolutionSpec =>
           [][IsTerminal(currentState) => currentState' = currentState]_vars
<1>1. ASSUME ResolutionTypeOK, Exclusive, SnapshotKept, [ResolutionNext]_vars
      PROVE  IsTerminal(currentState) => currentState' = currentState
  BY <1>1, StateMoves, SettledMovesNowhere DEF IsTerminal
<1>2. ResolutionTypeOK /\ Exclusive /\ SnapshotKept /\ [ResolutionNext]_vars
        => [IsTerminal(currentState) => currentState' = currentState]_vars
  BY <1>1
<1> QED BY <1>2, SnapshotInvariant, PTL DEF ResolutionSpec

----------------------------------------------------------------------------
(* An intent the resolver calls CAPTURED was captured.                     *)

Paid == payment \in {"captured", "refunded"}

Backed ==
  /\ CapturedIsBacked
  /\ \A t \in Tasks :
       /\ pc[t] \in Holding => job[t].state # "CAPTURED"
       /\ pc[t] = "executing" => job[t].action # "NO_ACTION"
       /\ pc[t] \in {"escalating", "recording", "evidence", "effect", "committing"}
            /\ job[t].final = "CAPTURED" => Paid

(* Only VERIFIED_SUCCESS leads to CAPTURED, of what the resolver raises.   *)
LEMMA CaptureIsVerified ==
  ASSUME NEW s \in States, s # "CAPTURED"
  PROVE  /\ \A ext : StateAfterRefusal(s, ext) # "CAPTURED"
         /\ \A a : \A ok \in BOOLEAN :
              a # "NO_ACTION" /\ StateAfterAction(s, a, ok) = "CAPTURED"
                => ok /\ a = "CAPTURE"
<1>1. \A e \in {"VERIFIED_FAILED", "ACTION_CONFIRMED", "DUPLICATE_DETECTED"} :
        Transition(s, e) # "CAPTURED"
  BY SMTT(60) DEF Transition, AllowedEvents, Transitions, States, Terminal
<1>2. \A ext : StateAfterRefusal(s, ext) # "CAPTURED"
  BY <1>1 DEF StateAfterRefusal
<1>3. ASSUME NEW a, a # "NO_ACTION", NEW ok \in BOOLEAN,
             StateAfterAction(s, a, ok) = "CAPTURED"
      PROVE  ok /\ a = "CAPTURE"
  <2>1. CASE ~ok
    BY <1>1, <1>3, <2>1 DEF StateAfterAction
  <2>2. CASE ok /\ a # "CAPTURE"
    BY <1>1, <1>3, <2>2 DEF StateAfterAction
  <2> QED BY <2>1, <2>2
<1> QED BY <1>2, <1>3

LEMMA BackedStep ==
  ASSUME "NO_ACTION" \notin AIActions, ResolutionTypeOK, Backed, [ResolutionNext]_vars
  PROVE  Backed'
<1>0. TaskTypes
  BY TypeParts
<1> USE DEF Goto, rowVars, worldVars
<1>p. Paid => Paid'
  <2>1. PaymentMoves => (Paid => Paid')
    BY DEF PaymentMoves, Paid
  <2>2. ASSUME NEW t \in Tasks, Execute(t) PROVE Paid => Paid'
    BY <2>2 DEF Execute, Applied, Refused, NoCall, Paid
  <2>3. CASE ~PaymentMoves /\ ~\E t \in Tasks : Execute(t)
    <3>1. ASSUME NEW t \in Tasks, Start(t) \/ PoolFails(t) \/ StatementRaises(t)
                                  \/ Load(t) \/ Count(t) \/ Verify(t) \/ Decide(t)
          PROVE  UNCHANGED payment
      BY <3>1 DEF Start, PoolFails, StatementRaises, Load, Count, Verify, Decide
    <3>2. ASSUME NEW t \in Tasks, Escalate(t) \/ Record(t) \/ RecordEvidence(t)
                                  \/ RecordEffect(t) \/ Commit(t) \/ Finish(t)
          PROVE  UNCHANGED payment
      BY <3>2 DEF Escalate, Record, RecordEvidence, RecordEffect, Commit, Finish
    <3>3. ASSUME NEW h \in Hosts, CrashProcess(h) PROVE UNCHANGED payment
      BY <3>3 DEF CrashProcess
    <3>4. ASSUME KeyExpires \/ ReportFailure \/ WebhookUpsert \/ CheckoutReads
                 \/ CheckoutWrites \/ UNCHANGED vars
          PROVE  UNCHANGED payment
      BY <3>4 DEF KeyExpires, ReportFailure, WebhookUpsert, CheckoutReads,
                  CheckoutWrites, UnlockedWrite, vars
    <3>5. UNCHANGED payment
      BY <2>3, <3>1, <3>2, <3>3, <3>4 DEF ResolutionNext, Resolve
    <3> QED BY <3>5 DEF Paid
  <2> QED BY <2>1, <2>2, <2>3
<1>k. ASSUME NEW t \in Tasks, currentState' = currentState,
             \A u \in Tasks \ {t} : pc'[u] = pc[u] /\ job'[u] = job[u],
             pc'[t] \in Holding => job'[t].state # "CAPTURED",
             pc'[t] = "executing" => job'[t].action # "NO_ACTION",
             pc'[t] \in {"escalating", "recording", "evidence", "effect", "committing"}
               /\ job'[t].final = "CAPTURED" => Paid'
      PROVE  Backed'
  BY <1>p, <1>k DEF Backed, CapturedIsBacked, Paid
<1>m. ASSUME currentState' = currentState \/ currentState' # "CAPTURED",
             \A u \in Tasks : \/ pc'[u] \notin Holding
                              \/ pc'[u] = pc[u] /\ job'[u] = job[u]
      PROVE  Backed'
  BY <1>p, <1>m DEF Backed, CapturedIsBacked, Paid, Holding
<1>1. ASSUME NEW t \in Tasks, Start(t) \/ PoolFails(t) \/ Finish(t) \/ StatementRaises(t)
      PROVE  Backed'
  <2>1. /\ currentState' = currentState /\ pc'[t] \notin Holding
        /\ \A u \in Tasks \ {t} : pc'[u] = pc[u] /\ job'[u] = job[u]
    BY <1>0, <1>1 DEF Start, PoolFails, Finish, StatementRaises, TaskTypes, Holding
  <2> QED BY <1>m, <2>1
<1>2. ASSUME NEW t \in Tasks, Load(t) PROVE Backed'
  <2>1. /\ currentState' = currentState /\ pc'[t] \in {"releasing", "counting"}
        /\ \A u \in Tasks \ {t} : pc'[u] = pc[u] /\ job'[u] = job[u]
        /\ pc'[t] = "counting" => job'[t].state # "CAPTURED"
    BY <1>0, <1>2 DEF Load, TaskTypes, Jobs, IsTerminal, Terminal
  <2> QED BY <1>k, <2>1 DEF Holding
<1>3. ASSUME NEW t \in Tasks, Count(t) \/ Verify(t) PROVE Backed'
  <2>1. /\ currentState' = currentState /\ pc[t] \in {"counting", "verifying"}
        /\ pc'[t] \in {"verifying", "deciding"}
        /\ \A u \in Tasks \ {t} : pc'[u] = pc[u] /\ job'[u] = job[u]
        /\ job'[t].state = job[t].state
    <3>1. CASE Count(t)
      <4> DEFINE c == "CAPTURE" \in ledger
      <4>1. job' = [job EXCEPT ![t].hasCapture = c]
        BY <3>1 DEF Count
      <4> HIDE DEF c
      <4> QED BY <1>0, <3>1, <4>1 DEF Count, TaskTypes, Jobs
    <3>2. CASE Verify(t)
      BY <1>0, <3>2 DEF Verify, VerifyAtProvider, VerifyRaises, VerifySynthetic,
                        Verified, TaskTypes, Jobs
    <3> QED BY <1>3, <3>1, <3>2
  <2>2. job[t].state # "CAPTURED"
    BY <2>1 DEF Backed, Holding
  <2> QED BY <1>k, <2>1, <2>2
<1>4. ASSUME NEW t \in Tasks, Decide(t) PROVE Backed'
  <2>1. job[t].state \in States /\ job[t].state # "CAPTURED"
    BY <1>0, <1>4 DEF Decide, Backed, Holding, TaskTypes, Jobs
  <2>2. PICK advice \in Advice(job[t].state, job[t].hasCapture, UPIRail, AIActions) :
          /\ job'[t].action = IF DecisionOn(t, advice) = "APPROVE"
                              THEN advice.action ELSE "NO_ACTION"
          /\ job'[t].final = Refusal(t)
          /\ job'[t].state = job[t].state
          /\ pc'[t] = AfterDecision(t, DecisionOn(t, advice))
          /\ \A u \in Tasks \ {t} : job'[u] = job[u] /\ pc'[u] = pc[u]
    BY <1>0, <1>4, Decided
  <2>3. advice.action # "NO_ACTION"
    BY DEF Advice, DeterministicAdvice, ModelAdvice, Recommendation
  <2>4. Refusal(t) # "CAPTURED"
    BY <2>1, CaptureIsVerified DEF Refusal
  <2>5. pc'[t] = "executing" => job'[t].action # "NO_ACTION"
    BY <2>2, <2>3 DEF AfterDecision
  <2>6. currentState' = currentState
    BY <1>4 DEF Decide
  <2> QED BY <1>k, <2>1, <2>2, <2>4, <2>5, <2>6
<1>5. ASSUME NEW t \in Tasks, Execute(t) PROVE Backed'
  <2>1. PICK ok \in BOOLEAN : /\ Finished(t, ok)
                              /\ ok /\ job[t].action = "CAPTURE" => Paid'
    <3>1. Applied(t) => /\ \E ok \in BOOLEAN : Finished(t, ok)
                        /\ job[t].action = "CAPTURE" => Paid'
      BY ResolutionAssumption DEF Applied, Paid
    <3>2. Refused(t) => Finished(t, FALSE)
      BY DEF Refused
    <3>3. NoCall(t) => Finished(t, job[t].action = "NO_ACTION")
      BY DEF NoCall
    <3> QED BY <1>5, <3>1, <3>2, <3>3 DEF Execute
  <2> DEFINE f == StateAfterAction(job[t].state, job[t].action, ok)
  <2>2. /\ job'[t].final = f /\ job'[t].state = job[t].state
        /\ pc'[t] \in {"recording", "evidence"}
        /\ \A u \in Tasks \ {t} : job'[u] = job[u] /\ pc'[u] = pc[u]
    <3>1. job' = [job EXCEPT ![t].succeeded = ok, ![t].final = f]
      BY <2>1 DEF Finished
    <3> HIDE DEF f
    <3> QED BY <1>0, <2>1, <3>1 DEF Finished, TaskTypes, Jobs
  <2>3. job[t].state \in States /\ job[t].state # "CAPTURED"
        /\ job[t].action # "NO_ACTION"
    BY <1>0, <1>5 DEF Execute, Backed, Holding, TaskTypes, Jobs
  <2>4. f = "CAPTURED" => Paid'
    BY <2>1, <2>3, CaptureIsVerified
  <2>5. currentState' = currentState
    BY <1>5 DEF Execute
  <2> HIDE DEF f
  <2> QED BY <1>k, <2>2, <2>3, <2>4, <2>5
<1>6. ASSUME NEW t \in Tasks,
             Escalate(t) \/ Record(t) \/ RecordEvidence(t) \/ RecordEffect(t)
      PROVE  Backed'
  <2>1. /\ UNCHANGED <<currentState, job>>
        /\ pc[t] \in {"escalating", "recording", "evidence", "effect"}
        /\ pc'[t] \in {"evidence", "effect", "committing"}
        /\ \A u \in Tasks \ {t} : pc'[u] = pc[u]
    BY <1>0, <1>6 DEF Escalate, Record, RecordEvidence, RecordEffect, TaskTypes
  <2>2. /\ job[t].state # "CAPTURED"
        /\ job[t].final = "CAPTURED" => Paid
    BY <2>1 DEF Backed, Holding
  <2> QED BY <1>k, <1>p, <2>1, <2>2
<1>7. ASSUME NEW t \in Tasks, Commit(t) PROVE Backed'
  <2>1. /\ currentState' = job[t].final /\ pc[t] = "committing"
        /\ pc'[t] = "releasing" /\ job' = job
        /\ \A u \in Tasks \ {t} : pc'[u] = pc[u]
    BY <1>0, <1>7 DEF Commit, TaskTypes
  <2>2. job[t].final = "CAPTURED" => Paid
    BY <2>1 DEF Backed
  <2> QED BY <1>p, <2>1, <2>2 DEF Backed, CapturedIsBacked, Paid, Holding
<1>8. ASSUME NEW h \in Hosts, CrashProcess(h) PROVE Backed'
  <2>1. /\ currentState' = currentState
        /\ \A u \in Tasks : pc'[u] = "idle" \/ (pc'[u] = pc[u] /\ job'[u] = job[u])
    BY <1>8 DEF CrashProcess
  <2> QED BY <1>m, <2>1 DEF Holding
<1>9. CASE KeyExpires \/ PaymentMoves \/ ReportFailure \/ WebhookUpsert
           \/ CheckoutReads \/ CheckoutWrites \/ UNCHANGED vars
  <2>1. UNCHANGED <<pc, job>>
        /\ (currentState' = currentState \/ currentState' # "CAPTURED")
    BY <1>9 DEF KeyExpires, PaymentMoves, ReportFailure, WebhookUpsert,
                CheckoutReads, CheckoutWrites, UnlockedWrite, vars
  <2> QED BY <1>m, <2>1
<1> QED
  BY <1>1, <1>2, <1>3, <1>4, <1>5, <1>6, <1>7, <1>8, <1>9 DEF ResolutionNext, Resolve

(* Unless a language model may recommend NO_ACTION, whose VERIFIED_SUCCESS *)
(* moves no money: an intent is CAPTURED only if its payment was, however  *)
(* the lock, the database and the provider fail and whoever writes the row.*)
THEOREM CapturedIntentsAreBacked ==
  ASSUME "NO_ACTION" \notin AIActions, "CAPTURED" \notin InitStates
  PROVE  ResolutionSpec => []CapturedIsBacked
<1>1. ResolutionInit => Backed
  BY DEF ResolutionInit, Backed, CapturedIsBacked, Holding
<1>2. ResolutionTypeOK /\ Backed /\ [ResolutionNext]_vars => Backed'
  BY BackedStep
<1>3. Backed => CapturedIsBacked
  BY DEF Backed
<1> QED BY <1>1, <1>2, <1>3, ResolutionTypeCorrect, PTL DEF ResolutionSpec

----------------------------------------------------------------------------
(* Every movement of money is in the log or on stderr, or on its way there.*)

LEMMA MoneyStep ==
  ASSUME ResolutionTypeOK, MoneyIsReconstructable, [ResolutionNext]_vars
  PROVE  MoneyIsReconstructable'
<1>0. TaskTypes /\ RowTypes
  BY TypeParts
<1> USE DEF Goto, worldVars, logVars
<1>k. ASSUME UNCHANGED <<ours, ledger, printed>>, untold \subseteq untold',
             \A u \in Tasks : pc[u] = "recording" =>
               pc'[u] = "recording" /\ job'[u].action = job[u].action
      PROVE  MoneyIsReconstructable'
  BY <1>k DEF MoneyIsReconstructable
<1>1. ASSUME NEW t \in Tasks, Execute(t) PROVE MoneyIsReconstructable'
  <2>1. PICK ok \in BOOLEAN :
          /\ Finished(t, ok)
          /\ \/ UNCHANGED <<ours, untold>>
             \/ ok /\ ours' = ours \cup {job[t].action} /\ untold' = untold
             \/ ~ok /\ ours' = ours \cup {job[t].action}
                    /\ untold' = untold \cup {job[t].action}
    BY <1>1, ResolutionAssumption DEF Execute, Applied, Refused, NoCall
  <2>2. /\ \A u \in Tasks \ {t} : job'[u] = job[u] /\ pc'[u] = pc[u]
        /\ job'[t].action = job[t].action
        /\ ok => pc'[t] = "recording"
    BY <1>0, <2>1 DEF Finished, TaskTypes, Jobs
  <2>3. pc[t] = "executing" /\ UNCHANGED <<ledger, printed>>
    BY <1>1 DEF Execute
  <2>4. CASE UNCHANGED <<ours, untold>>
    BY <1>k, <2>2, <2>3, <2>4
  <2>5. CASE ok /\ ours' = ours \cup {job[t].action} /\ untold' = untold
    BY <2>2, <2>3, <2>5 DEF MoneyIsReconstructable
  <2>6. CASE /\ ours' = ours \cup {job[t].action}
             /\ untold' = untold \cup {job[t].action}
    BY <2>2, <2>3, <2>6 DEF MoneyIsReconstructable
  <2> QED BY <2>1, <2>4, <2>5, <2>6
<1>2. ASSUME NEW t \in Tasks, Record(t) PROVE MoneyIsReconstructable'
  <2>1. /\ UNCHANGED <<ours, untold, job>>
        /\ ledger' \cup printed' = ledger \cup printed \cup ({job[t].action} \cap MoneyActions)
        /\ \A u \in Tasks \ {t} : pc'[u] = pc[u]
    BY <1>0, <1>2 DEF Record, TaskTypes
  <2>2. ours \subseteq MoneyActions
    BY <1>0 DEF RowTypes
  <2> QED BY <2>1, <2>2 DEF MoneyIsReconstructable
<1>3. ASSUME NEW t \in Tasks, Resolve(t) \/ StatementRaises(t) \/ Start(t) \/ PoolFails(t),
             ~Execute(t), ~Record(t)
      PROVE  MoneyIsReconstructable'
  <2>1. /\ UNCHANGED <<ours, untold, ledger, printed>> /\ pc[t] # "recording"
        /\ \A u \in Tasks \ {t} : pc'[u] = pc[u] /\ job'[u] = job[u]
    BY <1>0, <1>3 DEF Resolve, StatementRaises, Start, PoolFails, Load, Count, Verify,
         VerifyAtProvider, VerifyRaises, VerifySynthetic, Verified, Decide, Escalate,
         RecordEvidence, RecordEffect, Commit, Finish, TaskTypes
  <2> QED BY <1>k, <2>1
<1>4. ASSUME NEW h \in Hosts, CrashProcess(h) PROVE MoneyIsReconstructable'
  <2>1. /\ UNCHANGED <<ours, ledger, printed>>
        /\ untold' = untold \cup (MoneyActions \cap
             {job[t].action : t \in {u \in Tasks : HostOf[u] = h /\ pc[u] = "recording"}})
        /\ \A u \in Tasks : HostOf[u] # h => pc'[u] = pc[u] /\ job'[u] = job[u]
    BY <1>4 DEF CrashProcess
  <2>2. ours \subseteq MoneyActions
    BY <1>0 DEF RowTypes
  <2>3. SUFFICES ASSUME NEW a \in ours \ untold', a \notin ledger \cup printed
                 PROVE  \E t \in Tasks : pc'[t] = "recording" /\ job'[t].action = a
    BY <2>1 DEF MoneyIsReconstructable
  <2>4. PICK t \in Tasks : pc[t] = "recording" /\ job[t].action = a
    BY <2>1, <2>3 DEF MoneyIsReconstructable
  <2>5. HostOf[t] # h
    BY <2>1, <2>2, <2>3, <2>4
  <2> QED BY <2>1, <2>4, <2>5
<1>5. CASE KeyExpires \/ PaymentMoves \/ ReportFailure \/ WebhookUpsert
           \/ CheckoutReads \/ CheckoutWrites \/ UNCHANGED vars
  <2>1. UNCHANGED <<ours, untold, ledger, printed, pc, job>>
    BY <1>5 DEF KeyExpires, PaymentMoves, ReportFailure, WebhookUpsert,
                CheckoutReads, CheckoutWrites, UnlockedWrite, vars
  <2> QED BY <1>k, <2>1
<1> QED BY <1>1, <1>2, <1>3, <1>4, <1>5 DEF ResolutionNext, Resolve

(* However many resolutions overlap, whatever statements raise and whoever *)
(* dies: but for a movement whose answer was lost and one whose process    *)
(* died before the INSERT, every movement of money is logged or printed.   *)
THEOREM MovementsAreReconstructable == ResolutionSpec => []MoneyIsReconstructable
<1>1. ResolutionInit => MoneyIsReconstructable
  BY DEF ResolutionInit, MoneyIsReconstructable
<1>2. ResolutionTypeOK /\ MoneyIsReconstructable /\ [ResolutionNext]_vars
        => MoneyIsReconstructable'
  BY MoneyStep
<1> QED BY <1>1, <1>2, ResolutionTypeCorrect, PTL DEF ResolutionSpec
=============================================================================
