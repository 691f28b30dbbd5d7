------------------------------ MODULE Recovery ------------------------------
(***************************************************************************)
(* The parts that drive the resolutions of one intent, composed: requests  *)
(* that write the row and then enqueue a task, the outbox worker that      *)
(* resolves what is enqueued, the reconciliation poller, resolutions asked *)
(* for over the API, and the operator who closes reconciliation cases.     *)
(* The outbox appears as the abstract queue OutboxWorker implements.       *)
(*                                                                         *)
(* An item stands for the outbox row of one source: a webhook event or one *)
(* of the customer's browser's two requests.  MaxRequests bounds how many  *)
(* of these sources have a task at once, MaxRaises the resolutions an      *)
(* exception ends.  Time is not modelled: a row may turn stale at any      *)
(* moment.                                                                 *)
(***************************************************************************)
EXTENDS Resolution

CONSTANTS Items, NoItem, MaxAttempts,
          Worker,        \* the task the outbox worker runs
          Poller,        \* the poller's task, if it runs: start.sh starts none
          ApiHost,       \* the process that serves the requests
          Rulings,       \* the states an operator may rule
          MaxRequests, MaxRaises

ASSUME RecoveryAssumption ==
  /\ Items \subseteq {"webhook", "verify_payment", "report_failure"}
  /\ RowWriters \subseteq Items /\ NoItem \notin Items /\ MaxAttempts \in Nat \ {0}
  /\ Worker \in Tasks /\ Poller \subseteq Tasks \ {Worker} /\ ApiHost \in Hosts
  /\ Rulings \subseteq {"RECONCILED", "MANUAL_REVIEW"}
  /\ MaxRequests \in Nat /\ MaxRaises \in Nat

VARIABLES
  outcome, tries,   \* per item: absent, open, done or dead; how often claimed
  held, answer,     \* the worker: the item it claimed, what resolve() said of it
  unqueued,         \* requests that wrote the row and have yet to enqueue
  listed,           \* has the poller found the intent stale?
  polling,          \* has the poller not died yet?
  ruling,           \* the operator's request: where it is, what it will rule
  closed,           \* does a case exist that is RESOLVED?
  overtaken,        \* ghost: resolutions under way at the operator's last ruling
  raises

queueVars == <<outcome, tries, held, answer>>
operatorVars == <<ruling, closed, overtaken>>
pollerVars == <<listed, polling>>
recoveryVars == <<vars, queueVars, unqueued, pollerVars, operatorVars, raises>>

Answers == {"PROCESSED", "SKIPPED", "ERROR"}

NoRuling == [at |-> "nowhere", state |-> "MANUAL_REVIEW"]

RecoveryTypeOK ==
  /\ ResolutionTypeOK
  /\ outcome \in [Items -> {"absent", "open", "done", "dead"}]
  /\ tries \in [Items -> 0 .. MaxAttempts]
  /\ held \in Items \cup {NoItem}
  /\ answer \in Answers \cup {"none", "raised"}
  /\ unqueued \subseteq Items /\ listed \in BOOLEAN /\ polling \in BOOLEAN
  /\ ruling \in [at : {"nowhere", "case", "intent"}, state : {"RECONCILED", "MANUAL_REVIEW"}]
  /\ closed \in BOOLEAN /\ overtaken \subseteq Tasks /\ raises \in 0 .. MaxRaises

RecoveryInit ==
  /\ ResolutionInit
  /\ outcome = [i \in Items |-> "absent"] /\ tries = [i \in Items |-> 0]
  /\ held = NoItem /\ answer = "none"
  /\ unqueued = {} /\ listed = FALSE /\ polling = (Poller # {})
  /\ ruling = NoRuling /\ closed = FALSE /\ overtaken = {} /\ raises = 0
-----------------------------------------------------------------------------
\* What resolve() answers matters where the worker called it.
Says(t, a) == answer' = IF t = Worker THEN a ELSE answer

Asked(t) ==
  \/ t = Worker /\ held # NoItem /\ answer = "none"
  \/ t \in Poller /\ listed
  \/ t \notin {Worker} \cup Poller

\* worker.py, poll_once and POST .../reconcile call resolve().
Calls(t) ==
  /\ Asked(t) /\ Start(t)
  /\ listed' = (listed /\ t \notin Poller)
  /\ UNCHANGED <<queueVars, unqueued, polling, operatorVars, raises>>

\* The lock is taken: SKIPPED.
CallSkipped(t) ==
  /\ Asked(t) /\ pc[t] = "idle"
  /\ key # NoTask \/ HostOf[t] \in mem
  /\ Says(t, "SKIPPED")
  /\ listed' = (listed /\ t \notin Poller)
  /\ UNCHANGED <<vars, outcome, tries, held, unqueued, polling, operatorVars, raises>>

\* resolve() goes on by a statement, or answers.
Resolves(t) ==
  /\ \/ Load(t) /\ Says(t, IF IsTerminal(currentState) THEN "SKIPPED" ELSE answer)
     \/ Commit(t) /\ Says(t, "PROCESSED")
     \/ /\ \/ Count(t) \/ Verify(t) \/ Decide(t) \/ Escalate(t) \/ Execute(t)
           \/ Record(t) \/ RecordEvidence(t) \/ RecordEffect(t) \/ Finish(t)
        /\ UNCHANGED answer
  /\ overtaken' = IF pc'[t] = "idle" THEN overtaken \ {t} ELSE overtaken
  /\ UNCHANGED <<outcome, tries, held, unqueued, pollerVars, ruling, closed, raises>>

\* A statement raises: resolve() catches it and answers ERROR, but for the
\* pool's own exception, which reaches the caller.
Raises(t) ==
  /\ raises < MaxRaises /\ raises' = raises + 1
  /\ \/ StatementRaises(t) /\ Says(t, "ERROR")
     \/ PoolFails(t) /\ Says(t, "raised")
  /\ UNCHANGED <<outcome, tries, held, unqueued, pollerVars, operatorVars>>
-----------------------------------------------------------------------------
\* Fault variant: the claim does not look at the attempts.
ClaimWithoutLimit(i) ==
  /\ held = NoItem /\ outcome[i] = "open"
  /\ held' = i /\ tries' = [tries EXCEPT ![i] = @ + 1]
  /\ answer' = "none"
  /\ UNCHANGED <<vars, outcome, unqueued, pollerVars, operatorVars, raises>>

Claim(i) ==
  /\ held = NoItem /\ outcome[i] = "open" /\ tries[i] < MaxAttempts
  /\ held' = i /\ tries' = [tries EXCEPT ![i] = @ + 1]
  /\ answer' = "none"
  /\ UNCHANGED <<vars, outcome, unqueued, pollerVars, operatorVars, raises>>

LetGo(o) ==
  /\ outcome' = [outcome EXCEPT ![held] = o]
  /\ held' = NoItem /\ answer' = "none"
  /\ UNCHANGED <<vars, tries, unqueued, pollerVars, operatorVars, raises>>

\* Any answer will do.
MarkProcessed ==
  /\ held # NoItem /\ pc[Worker] = "idle" /\ answer \in Answers
  /\ LetGo("done")

\* resolve() or the UPDATE to PROCESSED raised: another attempt, or none.
Fail ==
  /\ held # NoItem /\ pc[Worker] = "idle"
  /\ answer = "raised" \/ (DbFails /\ answer \in Answers)
  /\ LetGo(IF tries[held] >= MaxAttempts THEN "dead" ELSE "open")
-----------------------------------------------------------------------------
\* The poller is at the statements of poll_once before its loop.
BetweenPolls == polling /\ ~listed /\ \A t \in Poller : pc[t] = "idle"

\* It reads which intents are stale, and then resolves them.
PollerLists ==
  /\ BetweenPolls /\ ~IsTerminal(currentState)
  /\ listed' = TRUE
  /\ UNCHANGED <<vars, queueVars, unqueued, polling, operatorVars, raises>>

\* The pool or the SELECT raises: run_poller logs it and ends, for good.
PollerDies ==
  /\ DbFails /\ BetweenPolls
  /\ polling' = FALSE
  /\ UNCHANGED <<vars, queueVars, unqueued, listed, operatorVars, raises>>
-----------------------------------------------------------------------------
\* A request wrote the row; its task is the next statement.
Writes(i) ==
  /\ Cardinality({j \in Items \ {i} : outcome[j] # "absent" \/ j \in unqueued}) < MaxRequests
  /\ unqueued' = unqueued \cup {i}
  /\ UNCHANGED <<queueVars, pollerVars, operatorVars, raises>>

ReportFails == ReportFailure /\ Writes("report_failure")
CheckoutConfirms == CheckoutWrites /\ Writes("verify_payment")

\* One event is modelled: its redelivery is a duplicate.
WebhookArrives ==
  /\ WebhookUpsert /\ Writes("webhook")
  /\ outcome["webhook"] = "absent"
CheckoutIsRead ==
  /\ CheckoutReads
  /\ UNCHANGED <<queueVars, unqueued, pollerVars, operatorVars, raises>>

\* INSERT ... ON CONFLICT (idempotency_key) DO NOTHING.
Enqueue(i) ==
  /\ i \in unqueued /\ unqueued' = unqueued \ {i}
  /\ outcome' = IF outcome[i] = "absent" THEN [outcome EXCEPT ![i] = "open"] ELSE outcome
  /\ UNCHANGED <<vars, tries, held, answer, pollerVars, operatorVars, raises>>

EnqueueRaises(i) ==
  /\ DbFails /\ i \in unqueued /\ unqueued' = unqueued \ {i}
  /\ UNCHANGED <<vars, queueVars, pollerVars, operatorVars, raises>>
-----------------------------------------------------------------------------
\* manual_resolve_case: the operator's request names a case, OPEN or not.
OperatorOpens ==
  /\ ruling = NoRuling /\ (cases > 0 \/ closed)
  /\ \E s \in Rulings : ruling' = [at |-> "case", state |-> s]
  /\ UNCHANGED <<vars, queueVars, unqueued, pollerVars, closed, overtaken, raises>>

\* The case is RESOLVED: one that was OPEN, or once more one that was not.
OperatorClosesCase ==
  /\ ruling.at = "case" /\ ruling' = [ruling EXCEPT !.at = "intent"]
  /\ closed' = TRUE
  /\ \/ cases > 0 /\ cases' = cases - 1
     \/ closed /\ cases' = cases
  /\ UNCHANGED <<rowVars, worldVars, ledger, printed, evidence, railKeys, checkout, pc,
                 job, lockVars, queueVars, unqueued, pollerVars, overtaken, raises>>

\* The ruling becomes the intent's state, whatever it is by now.
OperatorRules ==
  /\ ruling.at = "intent" /\ ruling' = NoRuling
  /\ currentState' = ruling.state /\ resolved' = TRUE
  /\ overtaken' = {t \in Tasks : pc[t] \in Holding}
  /\ UNCHANGED <<version, linked, worldVars, logVars, railKeys, checkout, pc, job,
                 lockVars, queueVars, unqueued, pollerVars, closed, raises>>

OperatorRaises ==
  /\ DbFails /\ ruling # NoRuling /\ ruling' = NoRuling
  /\ UNCHANGED <<vars, queueVars, unqueued, pollerVars, closed, overtaken, raises>>
-----------------------------------------------------------------------------
\* A process dies: the worker's claim lapses, a request of the API ends where
\* it is, the poller forgets its list and is not started again.
ProcessDies(h) ==
  /\ CrashProcess(h)
  /\ held' = IF HostOf[Worker] = h THEN NoItem ELSE held
  /\ answer' = IF HostOf[Worker] = h THEN "none" ELSE answer
  /\ unqueued' = IF h = ApiHost THEN {} ELSE unqueued
  /\ ruling' = IF h = ApiHost THEN NoRuling ELSE ruling
  /\ listed' = (listed /\ \A t \in Poller : HostOf[t] # h)
  /\ polling' = (polling /\ \A t \in Poller : HostOf[t] # h)
  /\ overtaken' = {t \in overtaken : HostOf[t] # h}
  /\ UNCHANGED <<outcome, tries, closed, raises>>

KeyGoes ==
  /\ KeyExpires
  /\ UNCHANGED <<queueVars, unqueued, pollerVars, operatorVars, raises>>

CustomerPays ==
  /\ PaymentMoves
  /\ UNCHANGED <<queueVars, unqueued, pollerVars, operatorVars, raises>>

Work == (\E i \in Items : Claim(i)) \/ MarkProcessed \/ Fail
Polls(t) == Calls(t) \/ CallSkipped(t)

RecoveryNext ==
  \/ \E t \in Tasks : Calls(t) \/ CallSkipped(t) \/ Resolves(t) \/ Raises(t)
  \/ \E i \in Items : Claim(i) \/ Enqueue(i) \/ EnqueueRaises(i)
  \/ MarkProcessed \/ Fail \/ PollerLists \/ PollerDies
  \/ ReportFails \/ WebhookArrives \/ CheckoutIsRead \/ CheckoutConfirms
  \/ OperatorOpens \/ OperatorClosesCase \/ OperatorRules \/ OperatorRaises
  \/ \E h \in Hosts : ProcessDies(h)
  \/ KeyGoes \/ CustomerPays

RecoverySpec == RecoveryInit /\ [][RecoveryNext]_recoveryVars

\* What runs goes on, what is open is claimed, the poller polls while it lives and
\* is not refused the lock every time, a key nobody holds expires.
FairRecoverySpec ==
  /\ RecoverySpec
  /\ \A t \in Tasks : WF_recoveryVars(Resolves(t))
  /\ WF_recoveryVars(Calls(Worker) \/ CallSkipped(Worker))
  /\ WF_recoveryVars(Work) /\ WF_recoveryVars(PollerLists)
  /\ \A t \in Poller : WF_recoveryVars(Polls(t)) /\ SF_recoveryVars(Calls(t))
  /\ \A i \in Items : WF_recoveryVars(Enqueue(i))
  /\ WF_recoveryVars(CheckoutConfirms) /\ WF_recoveryVars(KeyGoes)
-----------------------------------------------------------------------------
\* An escalation on unknown evidence never reaches the row without a case an
\* operator can find (resolver.py:201 before 251), whatever raises in between
\* and whoever closes cases meanwhile.
EscalationHasCase ==
  \A t \in Tasks :
    pc[t] \in {"evidence", "committing"} /\ job[t].ext = "UNKNOWN" => cases > 0 \/ closed

\* Once the operator has ruled an intent RECONCILED, the only resolutions under
\* way that may still write over it are those that read the row before
\* (reconciliation_routes.py:96 takes no lock; resolver.py:80 looks at the row).
RulingOvertakesFew ==
  currentState = "RECONCILED" => {t \in Tasks : pc[t] \in Holding} \subseteq overtaken

\* The worker counts a task as done although resolve() skipped it (worker.py:113)
\* only if the intent needs none, another resolution of it is under way, or one
\* died or lost the pool while it held the key.
SkippedIsExcused ==
  [][answer # "SKIPPED" /\ answer' = "SKIPPED" =>
       \/ IsTerminal(currentState)
       \/ \E t \in Tasks \ {Worker} : pc[t] # "idle"
       \/ restarts > 0 \/ raises > 0]_recoveryVars

\* Whatever answer its task got (worker.py:113), whatever raises and whoever dies,
\* an uncertain intent on the UPI rail is settled in the end, unless the poller
\* dies; or a capture of it was logged before its resolution failed, so that the
\* rule engine advises a refund and rule 5 turns it down at every poll; or it
\* is DUPLICATE_SUSPECTED of a payment merely authorized or by now refunded, and
\* rule 5 does the same.
UncertainIsPursued ==
  UPIRail /\ currentState \in {"UNCERTAIN", "PENDING_RAIL"}
    ~> \/ IsTerminal(currentState)
       \/ ~polling
       \/ "CAPTURE" \in ledger
       \/ currentState = "DUPLICATE_SUSPECTED" /\ payment \in {"authorized", "refunded"}

\* An intent whose checkout was verified and whose payment the provider has
\* captured is settled in the end (README.md:519, scenario A).
AuthorizedIsReconciled ==
  currentState = "AUTHORIZED" /\ payment = "captured" ~> IsTerminal(currentState)
=============================================================================
