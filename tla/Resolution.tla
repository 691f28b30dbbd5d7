----------------------------- MODULE Resolution -----------------------------
(***************************************************************************)
(* core/resolver.py: resolutions of one payment intent.  resolve() takes   *)
(* the lock, reads the row, gathers the provider's evidence, lets the      *)
(* policy gate decide, moves money, logs, and writes the row back; every   *)
(* SQL statement commits on its own, so each is an action, and so is each  *)
(* call to the provider.  The worker, the reconciliation poller and        *)
(* the API all call it: they are the tasks.                                *)
(*                                                                         *)
(* Every statement is keyed by the intent, so one intent is modelled.  Its *)
(* one payment at the provider may be absent: then the negotiator asks a   *)
(* synthetic rail in the memory of its own process instead.                *)
(*                                                                         *)
(* MaxVersion bounds the version counter and MaxCases the count of open    *)
(* cases; both saturate.                                                   *)
(***************************************************************************)
EXTENDS PolicyGate, IntentLock, Reconciliation

CONSTANTS
  AIActions,         \* what a language model may recommend; {}: there is none
  UPIRail,           \* the rule engine trusts captures on a rail named UPI...
  OverCap,           \* is the amount above the refund limit of 1000?
  AmountsMatch,      \* are the payment's amount and currency the intent's?
  SyntheticVerdict,  \* what the seeded synthetic rail answers to a new key
  InitStates,        \* states in which a row may be inserted
  RowWriters,        \* which requests write the row without the lock
  DbFails,           \* may a SQL statement raise?
  ProviderFails,     \* may a call to the provider raise?
  MaxVersion, MaxCases

ASSUME ResolutionAssumption ==
  /\ AIActions \subseteq ActionTypes
  /\ {UPIRail, OverCap, AmountsMatch, DbFails, ProviderFails} \subseteq BOOLEAN
  /\ SyntheticVerdict \in {"SUCCESS", "FAILED"}
  /\ InitStates \subseteq States
  /\ RowWriters \subseteq {"report_failure", "webhook", "verify_payment"}
  /\ MaxVersion \in Nat /\ MaxCases \in Nat

VARIABLES
  currentState, version, resolved,  \* the row; resolved: resolution_status
  linked,       \* the row: does active_payment_id name the payment?
  payment,      \* the provider's status of the payment
  ours,         \* ghost: what we made the provider do
  untold,       \* ghost: what of it no resolution came to hear or to log
  ledger,       \* successful executions logged in external_executions
  evidence,     \* versions with a row in immutable_evidence (ghost: the version)
  printed,      \* successful executions whose log row failed: a line on stderr
  cases,        \* how many OPEN reconciliation cases there are
  railKeys,     \* per host: versions whose key its synthetic rails know
  checkout,     \* verify_payment between its SELECT and its UPDATE
  pc, job       \* per task: where it is and its local variables

rowVars == <<currentState, version, resolved, linked>>
worldVars == <<payment, ours, untold>>
logVars == <<ledger, printed, evidence, cases>>
vars == <<rowVars, worldVars, logVars, railKeys, checkout, pc, job, lockVars>>

Places == {"idle", "loading", "counting", "verifying", "deciding", "executing",
           "recording", "escalating", "evidence", "effect", "committing", "releasing"}

\* Past the SELECT of the row and not yet past the UPDATE.
Holding == {"counting", "verifying", "deciding", "executing", "recording",
            "escalating", "evidence", "effect", "committing"}

NoJob == [state |-> "CREATED", version |-> 0, hasCapture |-> FALSE, ext |-> "UNKNOWN",
          synthetic |-> FALSE, decision |-> "REJECT", action |-> "NO_ACTION",
          succeeded |-> FALSE, final |-> "CREATED"]

Jobs == [state : States, version : 0 .. MaxVersion, hasCapture : BOOLEAN,
         ext : ExternalStatuses, synthetic : BOOLEAN, decision : Decisions,
         action : ActionTypes, succeeded : BOOLEAN, final : States]

\* The operations external_executions logs as movements of money.
MoneyActions == {"CAPTURE", "REFUND", "VOID"}

ResolutionTypeOK ==
  /\ LockTypeOK
  /\ currentState \in States /\ version \in 0 .. MaxVersion /\ resolved \in BOOLEAN
  /\ linked \in BOOLEAN
  /\ payment \in {"none", "authorized", "captured", "failed", "refunded"}
  /\ {ours, untold, ledger, printed} \subseteq SUBSET MoneyActions
  /\ evidence \subseteq 0 .. MaxVersion /\ cases \in 0 .. MaxCases
  /\ railKeys \in [Hosts -> SUBSET (0 .. MaxVersion)]
  /\ checkout \in BOOLEAN
  /\ pc \in [Tasks -> Places] /\ job \in [Tasks -> Jobs]
  /\ inside = {t \in Tasks : pc[t] # "idle"}

ResolutionInit ==
  /\ LockInit
  /\ currentState \in InitStates /\ version = 0 /\ resolved = FALSE
  /\ linked = FALSE
  /\ payment \in {"none", "authorized", "captured", "failed"}
  /\ ours = {} /\ untold = {}
  /\ ledger = {} /\ printed = {} /\ evidence = {} /\ cases = 0
  /\ railKeys = [h \in Hosts |-> {}] /\ checkout = FALSE
  /\ pc = [t \in Tasks |-> "idle"] /\ job = [t \in Tasks |-> NoJob]

Goto(t, place) == pc' = [pc EXCEPT ![t] = place]
-----------------------------------------------------------------------------
\* Step 1.  A task that does not get the lock answers SKIPPED: no step at all.
Start(t) ==
  /\ pc[t] = "idle"
  /\ Acquire(t) /\ Goto(t, "loading")
  /\ UNCHANGED <<rowVars, worldVars, logVars, railKeys, checkout, job>>

\* The pool cannot be had: the exception passes outside the try.
PoolFails(t) ==
  /\ DbFails /\ pc[t] = "loading"
  /\ Abandon(t) /\ Goto(t, "idle")
  /\ UNCHANGED <<rowVars, worldVars, logVars, railKeys, checkout, job>>

\* Fault variant: a settled row is resolved again.
LoadAnyState(t) ==
  /\ pc[t] = "loading" /\ Goto(t, "counting")
  /\ job' = [job EXCEPT ![t].state = currentState, ![t].version = version]
  /\ UNCHANGED <<rowVars, worldVars, logVars, railKeys, checkout, lockVars>>

\* Step 2: the row; a terminal one is left alone.
Load(t) ==
  /\ pc[t] = "loading"
  /\ IF IsTerminal(currentState)
       THEN Goto(t, "releasing") /\ UNCHANGED job
       ELSE /\ Goto(t, "counting")
            /\ job' = [job EXCEPT ![t].state = currentState, ![t].version = version]
  /\ UNCHANGED <<rowVars, worldVars, logVars, railKeys, checkout, lockVars>>

\* Fault variant: the query counts another operation's rows.
CountMissesCaptures(t) ==
  /\ pc[t] = "counting" /\ Goto(t, "verifying")
  /\ job' = [job EXCEPT ![t].hasCapture = FALSE]
  /\ UNCHANGED <<rowVars, worldVars, logVars, railKeys, checkout, lockVars>>

\* Step 2: the count of successful captures.
Count(t) ==
  /\ pc[t] = "counting" /\ Goto(t, "verifying")
  /\ job' = [job EXCEPT ![t].hasCapture = "CAPTURE" \in ledger]
  /\ UNCHANGED <<rowVars, worldVars, logVars, railKeys, checkout, lockVars>>

\* The negotiator's map of Razorpay's statuses.
StatusMap == [authorized |-> "AUTHORIZED", captured |-> "SUCCESS",
              failed |-> "FAILED", refunded |-> "REFUNDED"]

Verified(t, ext, synthetic) ==
  /\ Goto(t, "deciding")
  /\ job' = [job EXCEPT ![t].ext = ext, ![t].synthetic = synthetic]

VerifyAtProvider(t) ==
  /\ payment # "none"
  /\ Verified(t, StatusMap[payment], FALSE)
  /\ UNCHANGED railKeys

VerifyRaises(t) ==
  /\ ProviderFails
  /\ Verified(t, "UNKNOWN", FALSE)
  /\ UNCHANGED railKeys

\* A synthetic rail answers each key once; the verdict is fixed for a run.
SyntheticAnswer(h, k) == IF k \in railKeys[h] THEN "DUPLICATE" ELSE SyntheticVerdict

\* No payment is known: a synthetic rail "authorizes" under the version's key.
VerifySynthetic(t) ==
  /\ payment = "none"
  /\ LET h == HostOf[t]
     IN  /\ Verified(t, SyntheticAnswer(h, job[t].version), TRUE)
         /\ railKeys' = [railKeys EXCEPT ![h] = @ \cup {job[t].version}]

\* Step 3.
Verify(t) ==
  /\ pc[t] = "verifying"
  /\ VerifyAtProvider(t) \/ VerifyRaises(t) \/ VerifySynthetic(t)
  /\ UNCHANGED <<rowVars, worldVars, logVars, checkout, lockVars>>

\* The status in the evidence, as the reconciliation engine reads it.
ApiStatus(ext) ==
  CASE ext \in {"SUCCESS", "CAPTURED"} -> "captured"
    [] ext = "AUTHORIZED" -> "authorized"
    [] ext = "FAILED" -> "failed"
    [] ext = "UNKNOWN" -> "UNKNOWN"
    [] OTHER -> "other"

\* Step 4.  Identity is only compared for an intent without a Razorpay order,
\* and which webhooks came decides only on the divergence.
Ambiguous(t) ==
  LET matches == AmountsMatch \/ job[t].synthetic
  IN  \E heard \in BOOLEAN :
        Reconcile([status |-> ApiStatus(job[t].ext), currency |-> matches,
                   identity |-> TRUE, amount |-> matches,
                   captures |-> Cardinality(ledger \cap {"CAPTURE"}),
                   heard |-> heard, state |-> job[t].state]).status = "AMBIGUOUS"

\* Steps 4 to 6, and what follows a decision other than APPROVE.
Decide(t) ==
  /\ pc[t] = "deciding"
  /\ LET unknown == job[t].ext = "UNKNOWN" \/ Ambiguous(t)
     IN  \E advice \in Advice(job[t].state, job[t].hasCapture, UPIRail, AIActions) :
           LET d == Evaluate(job[t].state, job[t].hasCapture, job[t].ext,
                             AmountsMatch \/ job[t].synthetic, OverCap, advice)
           IN  /\ job' = [job EXCEPT
                    ![t].decision = d,
                    ![t].action = IF d = "APPROVE" THEN advice.action ELSE "NO_ACTION",
                    ![t].final = IF unknown THEN "MANUAL_REVIEW"
                                 ELSE StateAfterRefusal(job[t].state, job[t].ext)]
               /\ Goto(t, IF d = "APPROVE" THEN "executing"
                          ELSE IF unknown THEN "escalating" ELSE "evidence")
  /\ UNCHANGED <<rowVars, worldVars, logVars, railKeys, checkout, lockVars>>

\* Fault variant: the INSERT's failure is swallowed, as in the other logs.
EscalateSwallowed(t) ==
  /\ pc[t] = "escalating" /\ Goto(t, "evidence")
  /\ UNCHANGED <<rowVars, worldVars, logVars, railKeys, checkout, job, lockVars>>

\* Open a reconciliation case.
Escalate(t) ==
  /\ pc[t] = "escalating" /\ Goto(t, "evidence")
  /\ cases' = IF cases < MaxCases THEN cases + 1 ELSE cases
  /\ UNCHANGED <<rowVars, worldVars, ledger, printed, evidence, railKeys, checkout, job, lockVars>>
-----------------------------------------------------------------------------
\* Fault variant: an execution is logged whatever its result.
FinishedAsRecorded(t, ok) ==
  /\ job' = [job EXCEPT ![t].succeeded = ok,
                        ![t].final = StateAfterAction(job[t].state, job[t].action, ok)]
  /\ Goto(t, "recording")

Finished(t, ok) ==
  /\ job' = [job EXCEPT ![t].succeeded = ok,
                        ![t].final = StateAfterAction(job[t].state, job[t].action, ok)]
  /\ Goto(t, IF ok THEN "recording" ELSE "evidence")

\* The provider captures what is authorized and refunds what is captured.
Accepts(action) ==
  \/ action = "CAPTURE" /\ payment = "authorized"
  \/ action \in {"REFUND", "VOID"} /\ payment = "captured"

\* The mutation is applied; with a raised error (a timeout of the last retry,
\* or the refusal of a retry of what was already applied) it looks refused.
Applied(t) ==
  /\ Accepts(job[t].action)
  /\ payment' = IF job[t].action = "CAPTURE" THEN "captured" ELSE "refunded"
  /\ ours' = ours \cup {job[t].action}
  /\ \E ok \in {TRUE} \cup {~ProviderFails} :
       /\ Finished(t, ok)
       /\ untold' = IF ok THEN untold ELSE untold \cup {job[t].action}

Refused(t) ==
  /\ ProviderFails \/ ~Accepts(job[t].action)
  /\ Finished(t, FALSE)
  /\ UNCHANGED worldVars

\* NO_ACTION succeeds without a call; an action the executor does not know, and
\* any mutation of a transaction only the synthetic rail knows, fails.
NoCall(t) ==
  /\ Finished(t, job[t].action = "NO_ACTION")
  /\ UNCHANGED worldVars

\* Step 7: FinOps.
Execute(t) ==
  /\ pc[t] = "executing"
  /\ IF job[t].action \in MoneyActions /\ ~job[t].synthetic
       THEN Applied(t) \/ Refused(t)
       ELSE NoCall(t)
  /\ UNCHANGED <<rowVars, logVars, railKeys, checkout, lockVars>>

\* Fault variant: a key the VERIFY row already has, so ON CONFLICT DO NOTHING.
RecordConflicts(t) ==
  /\ pc[t] = "recording" /\ Goto(t, "evidence")
  /\ UNCHANGED <<rowVars, worldVars, logVars, railKeys, checkout, job, lockVars>>

\* The row in external_executions; if the INSERT raises, its absence is printed.
Record(t) ==
  /\ pc[t] = "recording" /\ Goto(t, "evidence")
  /\ LET logged == {job[t].action} \cap MoneyActions
     IN  \/ ledger' = ledger \cup logged /\ printed' = printed
         \/ DbFails /\ ledger' = ledger /\ printed' = printed \cup logged
  /\ UNCHANGED <<rowVars, worldVars, evidence, cases, railKeys, checkout, job, lockVars>>

\* Fault variant: the INSERT's failure is swallowed, as in the other logs.
RecordEvidenceSwallowed(t) ==
  /\ pc[t] = "evidence"
  /\ Goto(t, IF job[t].succeeded THEN "effect" ELSE "committing")
  /\ evidence' \in {evidence, evidence \cup {job[t].version}}
  /\ UNCHANGED <<rowVars, worldVars, ledger, printed, cases, railKeys, checkout, job, lockVars>>

\* Step 8.
RecordEvidence(t) ==
  /\ pc[t] = "evidence"
  /\ Goto(t, IF job[t].succeeded THEN "effect" ELSE "committing")
  /\ evidence' = evidence \cup {job[t].version}
  /\ UNCHANGED <<rowVars, worldVars, ledger, printed, cases, railKeys, checkout, job, lockVars>>

RecordEffect(t) ==
  /\ pc[t] = "effect" /\ Goto(t, "committing")
  /\ resolved' = TRUE
  /\ UNCHANGED <<currentState, version, linked, worldVars, logVars, railKeys, checkout,
                 job, lockVars>>

NextVersion == IF version < MaxVersion THEN version + 1 ELSE version

\* Step 9: an unconditional UPDATE from the snapshot of step 2.  At MaxVersion
\* the next key of the synthetic rails is made new again, as in the code.
Commit(t) ==
  /\ pc[t] = "committing" /\ Goto(t, "releasing")
  /\ currentState' = job[t].final
  /\ version' = NextVersion
  /\ resolved' = IsTerminal(job[t].final)
  /\ railKeys' = [h \in Hosts |-> railKeys[h] \ {NextVersion}]
  /\ UNCHANGED <<linked, worldVars, logVars, checkout, job, lockVars>>

\* Any of the statements raises: ERROR, and the lock is released.
StatementRaises(t) ==
  /\ DbFails
  /\ pc[t] \in {"loading", "counting", "deciding", "escalating", "evidence",
                 "effect", "committing"}
  /\ Goto(t, "releasing")
  /\ UNCHANGED <<rowVars, worldVars, logVars, railKeys, checkout, job, lockVars>>

\* Fault variant: no finally clause.
FinishWithoutRelease(t) ==
  /\ pc[t] = "releasing" /\ Goto(t, "idle")
  /\ job' = [job EXCEPT ![t] = NoJob]
  /\ UNCHANGED <<rowVars, worldVars, logVars, railKeys, checkout, lockVars>>

\* The finally clause.
Finish(t) ==
  /\ pc[t] = "releasing"
  /\ Release(t) /\ Goto(t, "idle")
  /\ job' = [job EXCEPT ![t] = NoJob]
  /\ UNCHANGED <<rowVars, worldVars, logVars, railKeys, checkout>>

Resolve(t) ==
  \/ Load(t) \/ Count(t) \/ Verify(t) \/ Decide(t) \/ Escalate(t) \/ Execute(t)
  \/ Record(t) \/ RecordEvidence(t) \/ RecordEffect(t) \/ Commit(t) \/ Finish(t)
-----------------------------------------------------------------------------
\* A resolution that dies before its INSERT leaves its movement untold.
CrashProcess(h) ==
  /\ CrashHost(h)
  /\ untold' = untold \cup (MoneyActions \cap
                 {job[t].action : t \in {u \in Tasks : HostOf[u] = h /\ pc[u] = "recording"}})
  /\ pc' = [t \in Tasks |-> IF HostOf[t] = h THEN "idle" ELSE pc[t]]
  /\ job' = [t \in Tasks |-> IF HostOf[t] = h THEN NoJob ELSE job[t]]
  /\ railKeys' = [railKeys EXCEPT ![h] = {}]
  /\ checkout' \in {checkout, FALSE}
  /\ UNCHANGED <<rowVars, payment, ours, logVars>>

KeyExpires ==
  /\ Expire
  /\ UNCHANGED <<rowVars, worldVars, logVars, railKeys, checkout, pc, job>>

\* The customer pays or fails to; the provider captures or gives up by itself.
PaymentMoves ==
  /\ \/ payment = "none" /\ payment' \in {"authorized", "captured", "failed"}
     \/ payment = "authorized" /\ payment' \in {"captured", "failed"}
  /\ UNCHANGED <<rowVars, ours, untold, logVars, railKeys, checkout, pc, job, lockVars>>

UnlockedWrite(state, link) ==
  /\ currentState' = state /\ linked' = link
  /\ UNCHANGED <<version, resolved, worldVars, logVars, railKeys, pc, job, lockVars>>

\* POST /report_failure: the customer's browser says so.
ReportFailure ==
  /\ "report_failure" \in RowWriters
  /\ \E link \in {linked, payment # "none"} : UnlockedWrite("FAILED", linked \/ link)
  /\ UNCHANGED checkout

\* The upsert of a webhook about the payment.
WebhookUpsert ==
  /\ "webhook" \in RowWriters /\ payment # "none"
  /\ UnlockedWrite(IF payment = "failed" THEN "FAILED" ELSE currentState, TRUE)
  /\ UNCHANGED checkout

\* POST /verify_payment: signed by the provider, so there was an authorization.
CheckoutReads ==
  /\ "verify_payment" \in RowWriters /\ ~checkout
  /\ payment \notin {"none", "failed"}
  /\ ~(linked /\ currentState \in {"AUTHORIZED", "CAPTURED", "RECONCILED"})
  /\ checkout' = TRUE
  /\ UNCHANGED <<rowVars, worldVars, logVars, railKeys, pc, job, lockVars>>

CheckoutWrites ==
  /\ checkout /\ checkout' = FALSE
  /\ UnlockedWrite("AUTHORIZED", TRUE)

ResolutionNext ==
  \/ \E t \in Tasks : Start(t) \/ PoolFails(t) \/ Resolve(t) \/ StatementRaises(t)
  \/ \E h \in Hosts : CrashProcess(h)
  \/ KeyExpires \/ PaymentMoves \/ ReportFailure \/ WebhookUpsert
  \/ CheckoutReads \/ CheckoutWrites

ResolutionSpec == ResolutionInit /\ [][ResolutionNext]_vars

-----------------------------------------------------------------------------
\* What a resolution read of the row is still so when it decides, moves money
\* and writes back: resolver.py:251 updates the row by its id alone and counts
\* on the lock for this.
SnapshotFresh ==
  \A t \in Tasks : pc[t] \in Holding =>
    job[t].version = version /\ job[t].state = currentState

\* Every version the row has left behind has its immutable evidence: no state
\* was written by a resolution that recorded none (resolver step 8 before 9).
AuditTrailComplete == \A v \in 0 .. MaxVersion : v < version => v \in evidence

\* external_executions never tells of a movement of money that did not happen,
\* whatever fails or dies between the call and the INSERT.
LedgerNeverAhead == ledger \subseteq ours

\* No capture is attempted once one is logged (policy rule 4, over all the
\* resolutions of the intent).
CapturesOnce ==
  \A t \in Tasks :
    pc[t] = "executing" /\ job[t].action = "CAPTURE" => "CAPTURE" \notin ledger

\* The row's state changes by the state machine alone, by the events the
\* resolver raises, each applied to the state the row then holds.
Lifecycle == INSTANCE PaymentLifecycle WITH
  state <- currentState,
  Events <- {"VERIFIED_SUCCESS", "VERIFIED_FAILED", "ACTION_CONFIRMED",
             "DUPLICATE_DETECTED", "UNKNOWN_EVIDENCE"}

ImplementsLifecycle == Lifecycle!LifecycleSpec

\* An intent is CAPTURED only if the provider has captured the payment.
CapturedIsBacked == currentState = "CAPTURED" => payment \in {"captured", "refunded"}

\* An intent becomes FAILED only if the provider does not hold the money.
FailedIsUnpaid ==
  [][currentState # "FAILED" /\ currentState' = "FAILED" => payment # "captured"]_vars

\* Once its resolution is over, a movement of money we caused is in the log, or
\* its row failed and a line on stderr says so (README.md:415: "Every important
\* action should be reconstructable"), whatever statement fails and whichever
\* resolution comes after, with two exceptions in the code: the provider's answer
\* was lost (the executor reports a failure), and the process died before the
\* INSERT.
MoneyIsReconstructable ==
  \A action \in ours \ untold :
    \/ action \in ledger \cup printed
    \/ \E t \in Tasks : pc[t] = "recording" /\ job[t].action = action

\* No refund above the limit is made without an operator (policy rule 7).  The
\* rule asks for the action REFUND: a VOID, executed as a refund too, passes it.
RefundWithinCap == OverCap => "REFUND" \notin ours
=============================================================================
