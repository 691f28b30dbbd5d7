---------------------------- MODULE LabVerdicts ----------------------------
(***************************************************************************)
(* One run of the AI test lab from the inside, where AITestLab looks at    *)
(* runs from the outside: which scenarios a request selects or generates   *)
(* (scenarios.py, generator.py, ai_test_lab_routes.py), what run_scenario  *)
(* does to its synthetic intent statement by statement, what the oracle    *)
(* says of it, and the failures and the risk the run reports.              *)
(*                                                                         *)
(* A scenario keeps its type, its risk, whether its amount is above the    *)
(* refund cap, the state it seeds, its events and what it expects.  An     *)
(* expected idempotence and an expected absence of a mutation match always *)
(* (the runner reports constants), a security alert is compared by nobody. *)
(* The other totals and the rows of the results are left out: a run counts *)
(* and INSERTs them after the verdict and reads neither.                   *)
(***************************************************************************)
EXTENDS PolicyGate, Naturals, Sequences, FiniteSets

CONSTANTS Selections,  \* sets of types /run is asked for
          Requested,   \* values of "count" in an adversarial request
          AIItems,     \* items a language model may write, as scenarios
          MaxAIItems,  \* of which it writes at most so many
          MaxFaults    \* statements of a run that raise

ASSUME LabVerdictsAssumption ==
  /\ Requested \subseteq Nat
  /\ MaxAIItems \in Nat
  /\ MaxFaults \in Nat

----------------------------------------------------------------------------
(* The suites.                                                             *)

Signed(type) == [type |-> type, signed |-> TRUE]
Forged(type) == [type |-> type, signed |-> FALSE]

\* ExpectedResult and its defaults.
Want(state) == [state |-> state, http |-> 200, policy |-> "any", task |-> FALSE]
Refused(http) == [Want("CREATED") EXCEPT !.http = http]
WithPolicy(state, policy) == [Want(state) EXCEPT !.policy = policy]
WithTask(state) == [Want(state) EXCEPT !.task = TRUE]

Scenario(type, risk, large, seed, events, want) ==
  [type |-> type, risk |-> risk, large |-> large, seed |-> seed,
   events |-> events, want |-> want]

captured == Signed("payment.captured")
failed   == Signed("payment.failed")
checked  == Signed("checkout_verify")

PlainOutcomes ==
  <<Scenario("SUCCESS_FLOW", "LOW", TRUE, "CREATED", <<captured>>,
             WithTask("CAPTURED")),
    Scenario("PAYMENT_FAILED_USER_DECLINED", "LOW", FALSE, "CREATED", <<failed>>,
             Want("FAILED")),
    Scenario("PAYMENT_FAILED_BANK_ERROR", "MEDIUM", TRUE, "CREATED", <<failed>>,
             Want("FAILED")),
    Scenario("INVALID_WEBHOOK_SIGNATURE", "HIGH", TRUE, "CREATED",
             <<Forged("payment.captured")>>, Refused(401))>>

DuplicatedOrForged ==
  <<Scenario("DUPLICATE_WEBHOOK", "MEDIUM", TRUE, "CREATED",
             <<captured, captured>>, Want("CAPTURED")),
    Scenario("DUPLICATE_CHECKOUT_VERIFICATION", "MEDIUM", FALSE, "CREATED",
             <<checked, checked>>, Want("CAPTURED")),
    Scenario("CHECKOUT_SIGNATURE_MISMATCH", "HIGH", TRUE, "CREATED",
             <<Forged("checkout_verify")>>, Refused(401)),
    Scenario("MISSING_WEBHOOK", "HIGH", TRUE, "UNCERTAIN", <<>>,
             WithPolicy("UNCERTAIN", "REJECT"))>>

LateOrConflicting ==
  <<Scenario("DELAYED_WEBHOOK", "MEDIUM", TRUE, "UNCERTAIN", <<captured>>,
             WithTask("CAPTURED")),
    Scenario("WEBHOOK_AFTER_TIMEOUT", "HIGH", TRUE, "UNCERTAIN", <<captured>>,
             Want("CAPTURED")),
    Scenario("CONFLICTING_PAYMENT_STATE", "CRITICAL", TRUE, "CREATED",
             <<failed, captured>>, WithPolicy("DUPLICATE_SUSPECTED", "REJECT")),
    Scenario("DUPLICATE_PAYMENT", "HIGH", TRUE, "DUPLICATE_SUSPECTED",
             <<captured>>, WithPolicy("DUPLICATE_SUSPECTED", "APPROVE"))>>

MalformedOrMisordered ==
  <<Scenario("MISSING_PAYMENT_ID", "MEDIUM", FALSE, "CREATED", <<captured>>,
             Refused(400)),
    Scenario("MALFORMED_WEBHOOK", "MEDIUM", FALSE, "CREATED",
             <<Signed("raw_malformed")>>, Refused(400)),
    Scenario("UNKNOWN_EVENT_TYPE", "LOW", FALSE, "CREATED",
             <<Signed("custom.unknown_event")>>, Want("CREATED")),
    Scenario("OUT_OF_ORDER_EVENTS", "HIGH", FALSE, "CREATED",
             <<captured, Signed("payment.authorized")>>, Want("CAPTURED"))>>

RepeatedOrImpossible ==
  <<Scenario("REPEATED_RESOLUTION", "MEDIUM", TRUE, "CAPTURED",
             <<Signed("resolve_request")>>, WithPolicy("CAPTURED", "REJECT")),
    Scenario("OUTBOX_DUPLICATION_ATTEMPT", "HIGH", TRUE, "CREATED", <<captured>>,
             WithTask("CAPTURED")),
    Scenario("IMPOSSIBLE_STATE_TRANSITION", "CRITICAL", TRUE, "CREATED",
             <<Signed("illegal_state_jump")>>,
             WithPolicy("MANUAL_REVIEW", "REJECT")),
    Scenario("MANUAL_REVIEW_REQUIRED_CASE", "HIGH", TRUE, "DUPLICATE_SUSPECTED",
             <<Signed("high_value_refund")>>,
             WithPolicy("DUPLICATE_SUSPECTED", "MANUAL_REVIEW"))>>

Library == PlainOutcomes \o DuplicatedOrForged \o LateOrConflicting
             \o MalformedOrMisordered \o RepeatedOrImpossible

\* /run keeps the order of the library, and so does the demo.
Selected(types) ==
  LET chosen == {i \in DOMAIN Library : Library[i].type \in types}
      Nth(k) == CHOOSE i \in chosen : Cardinality({j \in chosen : j <= i}) = k
  IN  [k \in 1..Cardinality(chosen) |-> Library[Nth(k)]]

DemoTypes == {"SUCCESS_FLOW", "PAYMENT_FAILED_USER_DECLINED",
              "DUPLICATE_WEBHOOK", "INVALID_WEBHOOK_SIGNATURE",
              "WEBHOOK_AFTER_TIMEOUT", "CONFLICTING_PAYMENT_STATE",
              "DUPLICATE_CHECKOUT_VERIFICATION", "IMPOSSIBLE_STATE_TRANSITION"}

\* What the generator falls back to; no template asks for a policy decision.
Templates ==
  <<Scenario("ADV_WEBHOOK_RACE", "CRITICAL", TRUE, "CREATED",
             <<captured, failed>>, Want("CAPTURED")),
    Scenario("ADV_REPLAY_AFTER_RECONCILE", "HIGH", TRUE, "RECONCILED",
             <<failed>>, Want("RECONCILED")),
    Scenario("ADV_TRIPLE_WEBHOOK_BURST", "MEDIUM", TRUE, "CREATED",
             <<captured, captured, captured>>, Want("CAPTURED")),
    Scenario("ADV_INVALID_SIG_THEN_VALID", "CRITICAL", TRUE, "CREATED",
             <<Forged("payment.captured"), captured>>, Want("CAPTURED")),
    Scenario("ADV_OUTBOX_DUPLICATION_RETRY", "HIGH", TRUE, "UNCERTAIN",
             <<captured>>, WithTask("CAPTURED"))>>

Fallback(n) == [i \in 1..n |-> Templates[((i - 1) % Len(Templates)) + 1]]

\* Fault variant: the fallback generates a whole suite of its own.
GenerateUnbounded(items, count) == items \o Fallback(count)

\* The model's items come first, those before one that raises included; the
\* fallback fills up to the count.
Generate(items, count) ==
  LET kept == SubSeq(items, 1, IF Len(items) < count THEN Len(items) ELSE count)
  IN  kept \o Fallback(count - Len(kept))

\* An adversarial request's count, whatever it asks for, lies in 5..25.
Clamped(n) == IF n < 5 THEN 5 ELSE IF n > 25 THEN 25 ELSE n

ModelAnswers == UNION {[1..n -> AIItems] : n \in 0..MaxAIItems}

Suites ==
  {Library, Selected(DemoTypes)}
  \cup {Selected(types) : types \in Selections}
  \cup {Generate(items, Clamped(n)) : items \in ModelAnswers, n \in Requested}

----------------------------------------------------------------------------
(* The oracle and what the runner shows it.                                *)

\* Fault variant: every mismatch is critical.
OracleStrict(want, state, http, policy, tasked) ==
  IF state = want.state /\ want.policy \in {"any", policy}
     /\ http = want.http /\ (want.task => tasked)
    THEN "PASS" ELSE "FAIL"

\* A mismatch of the state or of a decision asked for is critical, one of the
\* HTTP status or of the outbox task only a warning.
Oracle(want, state, http, policy, tasked) ==
  IF state # want.state \/ want.policy \notin {"any", policy} THEN "FAIL"
  ELSE IF http # want.http \/ (want.task /\ ~tasked) THEN "WARNING"
  ELSE "PASS"

\* The advice run_scenario makes up, with a confidence of at least 0.90.
LabAdvice(type, state) ==
  Recommendation(
    IF type = "MANUAL_REVIEW_REQUIRED_CASE" \/ state = "DUPLICATE_SUSPECTED"
      THEN "REFUND"
    ELSE IF state \in {"UNCERTAIN", "PENDING_RAIL"} THEN "CAPTURE"
    ELSE "NO_ACTION", TRUE)

\* The policy engine's decision on it; the evidence is made up as well.
LabPolicy(s, state) ==
  Evaluate(state, state = "CAPTURED",
           IF state = "UNCERTAIN" THEN "UNKNOWN" ELSE "SUCCESS",
           TRUE, s.large, LabAdvice(s.type, state))

\* What an event is to the state machine; of any other type it is only logged.
MovedBy(state, type) ==
  CASE type \in {"payment.captured", "checkout_verify"} ->
         Transition(state, "PAYMENT_CAPTURED")
    [] type = "payment.failed" -> Transition(state, "PAYMENT_FAILED")
    [] type = "illegal_state_jump" -> Transition(state, "ILLEGAL_JUMP")
    [] OTHER -> state

\* A webhook that leaves the state alone writes no row, the other events do.
Updates(state, type) ==
  type \in {"checkout_verify", "illegal_state_jump"} \/ MovedBy(state, type) # state

\* Fault variant: the signature of a checkout is not looked at.
RefusalOfWebhooks(e) ==
  IF ~e.signed /\ e.type # "checkout_verify" THEN 401
  ELSE IF e.type = "raw_malformed" THEN 400
  ELSE 200

\* The status of an event the gate turns away, and 200 for one it lets pass.
Refusal(e) ==
  IF ~e.signed THEN 401 ELSE IF e.type = "raw_malformed" THEN 400 ELSE 200

----------------------------------------------------------------------------
VARIABLES suite,     \* the scenarios of the run
          at,        \* the one in hand
          step,      \* the await at which the run stands
          ev,        \* the event of it in hand
          local,     \* current_state
          intent,    \* payment_intents.current_state of its synthetic intent
          logged,    \* types of the intent's rows in payment_events
          http,      \* actual_http_status
          tasked,    \* actual_outbox_event is RESOLVE_INTENT
          verdict,   \* the status of its TestResult
          risk,      \* highest_risk
          failedAt,  \* the scenarios that failed
          faults     \* statements that raised or were cancelled

suiteVars  == <<suite, at>>
intentVars == <<local, intent, logged>>
seenVars   == <<http, tasked>>
totalVars  == <<risk, failedAt>>
vars == <<suiteVars, step, ev, intentVars, seenVars, verdict, totalVars, faults>>

Verdicts == {"PASS", "FAIL", "WARNING"}
Risks    == {"LOW", "MEDIUM", "HIGH", "CRITICAL"}

current == suite[at]

LabVerdictsTypeOK ==
  /\ Len(suite) \in 0..25
  /\ at \in 1..(Len(suite) + 1)
  /\ step \in {"looping", "seeding", "injecting", "enqueueing", "logging",
               "saving", "closed"}
  /\ ev \in Nat
  /\ step \in {"injecting", "enqueueing", "logging"} =>
       /\ local \in States
       /\ logged \subseteq {current.events[k].type : k \in DOMAIN current.events}
  /\ intent \in States \cup {"none"}
  /\ http \in {200, 400, 401}
  /\ tasked \in BOOLEAN
  /\ verdict \in Verdicts
  /\ risk \in Risks
  /\ failedAt \subseteq 1..Len(suite)
  /\ faults \in 0..(MaxFaults + 1)

LabVerdictsInit ==
  /\ suite \in Suites
  /\ at = 1
  /\ step = "looping"
  /\ ev = 1
  /\ local = "CREATED"
  /\ intent = "none"
  /\ logged = {}
  /\ http = 200
  /\ tasked = FALSE
  /\ verdict = "FAIL"
  /\ risk = "LOW"
  /\ failedAt = {}
  /\ faults = 0

\* A statement of run_scenario raises: the scenario FAILs, whatever committed.
Raises ==
  /\ faults < MaxFaults
  /\ faults' = faults + 1
  /\ verdict' = "FAIL"
  /\ step' = "saving"

\* The head of the loop: every scenario has an intent of its own.
NextScenario ==
  /\ step = "looping"
  /\ at <= Len(suite)
  /\ local' = current.seed
  /\ intent' = "none"
  /\ logged' = {}
  /\ http' = 200
  /\ tasked' = FALSE
  /\ ev' = 1
  /\ step' = "seeding"
  /\ UNCHANGED <<suiteVars, verdict, totalVars, faults>>

\* The intent is INSERTed.  A model may have written any seed; the table's
\* CHECK turns down one that is no state.
Seed ==
  /\ step = "seeding"
  /\ \/ /\ local \in States
        /\ intent' = local /\ step' = "injecting" /\ UNCHANGED <<verdict, faults>>
     \/ /\ local \notin States
        /\ verdict' = "FAIL" /\ step' = "saving" /\ UNCHANGED <<intent, faults>>
     \/ Raises /\ intent' \in {intent} \cup ({local} \cap States)
  /\ UNCHANGED <<suiteVars, ev, local, logged, seenVars, totalVars>>

\* An event with a bad signature, or no event at all: its status stays the
\* scenario's, whatever comes after it.
Refuse ==
  /\ step = "injecting"
  /\ ev \in DOMAIN current.events
  /\ Refusal(current.events[ev]) # 200
  /\ http' = Refusal(current.events[ev])
  /\ ev' = ev + 1
  /\ UNCHANGED <<suiteVars, step, intentVars, tasked, verdict, totalVars, faults>>

\* Fault variant: the state moves in memory, its row is written at the end.
AcceptInMemory ==
  /\ step = "injecting"
  /\ ev \in DOMAIN current.events
  /\ Refusal(current.events[ev]) = 200
  /\ local' = MovedBy(local, current.events[ev].type)
  /\ step' = IF current.events[ev].type = "payment.captured"
             THEN "enqueueing" ELSE "logging"
  /\ UNCHANGED <<suiteVars, ev, intent, logged, seenVars, verdict, totalVars,
                 faults>>

\* The UPDATE of the state an event moves the intent to.
Accept ==
  /\ step = "injecting"
  /\ ev \in DOMAIN current.events
  /\ Refusal(current.events[ev]) = 200
  /\ local' = MovedBy(local, current.events[ev].type)
  /\ \/ /\ intent' = local'
        /\ step' = IF current.events[ev].type = "payment.captured"
                   THEN "enqueueing" ELSE "logging"
        /\ UNCHANGED <<verdict, faults>>
     \/ /\ Updates(local, current.events[ev].type)
        /\ Raises /\ intent' \in {intent, local'}
  /\ UNCHANGED <<suiteVars, ev, logged, seenVars, totalVars>>

Enqueue ==
  /\ step = "enqueueing"
  /\ \/ tasked' = TRUE /\ step' = "logging" /\ UNCHANGED <<verdict, faults>>
     \/ Raises /\ UNCHANGED tasked
  /\ UNCHANGED <<suiteVars, ev, intentVars, http, totalVars>>

\* The event's row comes after the state's and the task's.
Log ==
  /\ step = "logging"
  /\ LET types == logged \cup {current.events[ev].type}
     IN  \/ /\ logged' = types
            /\ step' = "injecting"
            /\ ev' = ev + 1
            /\ UNCHANGED <<verdict, faults>>
         \/ Raises /\ logged' \in {logged, types} /\ UNCHANGED ev
  /\ UNCHANGED <<suiteVars, local, intent, seenVars, totalVars>>

\* No event is left: the policy engine's decision, the state read back, and
\* the oracle.
Judge ==
  /\ step = "injecting"
  /\ ev > Len(current.events)
  /\ \/ /\ verdict' = Oracle(current.want, intent, http,
                             LabPolicy(current, local), tasked)
        /\ step' = "saving"
        /\ UNCHANGED faults
     \/ Raises
  /\ UNCHANGED <<suiteVars, ev, intentVars, seenVars, totalVars>>

\* Fault variant: a warning counts as much as a failure.
RiskAfterAnyTrouble(s, status) ==
  IF status # "PASS" /\ s.risk \in {"HIGH", "CRITICAL"} THEN s.risk ELSE risk

\* highest_risk is overwritten, not raised.
RiskAfter(s, status) ==
  IF status = "FAIL" /\ s.risk \in {"HIGH", "CRITICAL"} THEN s.risk ELSE risk

Count ==
  /\ risk' = RiskAfter(current, verdict)
  /\ failedAt' = failedAt \cup (IF verdict = "FAIL" THEN {at} ELSE {})
  /\ at' = at + 1

\* A result is counted, then INSERTed; what the INSERT raises is swallowed.
SaveResult ==
  /\ step = "saving"
  /\ Count
  /\ step' = "looping"
  /\ UNCHANGED <<suite, ev, intentVars, seenVars, verdict, faults>>

\* The scenarios are over, or a stop request ends the loop at its head.
Close ==
  /\ step = "looping"
  /\ step' = "closed"
  /\ UNCHANGED <<suiteVars, ev, intentVars, seenVars, verdict, totalVars, faults>>

\* The timer cancels the run at any await; the statement in flight may have
\* committed.  A result whose INSERT is in flight is counted already.
Timeout ==
  /\ step \in {"seeding", "injecting", "enqueueing", "logging", "saving"}
  /\ faults' = faults + 1
  /\ step' = "closed"
  /\ IF step = "saving"
       THEN Count ELSE UNCHANGED <<at, totalVars>>
  /\ intent' \in {intent, CASE step = "seeding" /\ local \in States -> local
                            [] step = "injecting" /\ ev \in DOMAIN current.events
                               /\ Refusal(current.events[ev]) = 200 ->
                                 MovedBy(local, current.events[ev].type)
                            [] OTHER -> intent}
  /\ logged' \in {logged, IF step = "logging"
                          THEN logged \cup {current.events[ev].type} ELSE logged}
  /\ UNCHANGED <<suite, ev, local, seenVars, verdict>>

LabVerdictsNext ==
  \/ NextScenario \/ Seed \/ Refuse \/ Accept \/ Enqueue \/ Log \/ Judge
  \/ SaveResult \/ Close \/ Timeout

LabVerdictsSpec == LabVerdictsInit /\ [][LabVerdictsNext]_vars

----------------------------------------------------------------------------
(* The risk a run reports (runner.py:483) is that of a scenario that did   *)
(* fail, and LOW only if none of HIGH or CRITICAL did: neither a warning   *)
(* nor a failure of a low one shows.                                       *)
RiskIsOfAFailure ==
  LET grave == {i \in failedAt : suite[i].risk \in {"HIGH", "CRITICAL"}}
  IN  IF grave = {} THEN risk = "LOW"
      ELSE \E i \in grave : suite[i].risk = risk /\ \A j \in grave : j <= i

(* As long as every event was forged or malformed, the synthetic intent    *)
(* has the state it was seeded with ("State must remain UNCHANGED",        *)
(* scenarios.py:103; runner.py:184-197).                                   *)
ForgedMovesNothing ==
  step \in {"injecting", "enqueueing", "logging"}
  /\ (\A k \in 1..ev \cap DOMAIN current.events :
        ~current.events[k].signed \/ current.events[k].type = "raw_malformed")
  => intent = current.seed

(* The intents of a run stay in payment_intents, where the poller takes up *)
(* those that are not terminal (reconciliation_poller.py:37) and asks the  *)
(* real provider about them.  It finds none whose payment a logged event   *)
(* reports captured or failed, whichever statement of the scenario raised  *)
(* or was cancelled (runner.py:164-272): the state is written first.       *)
PaidIsSettled ==
  {"payment.captured", "checkout_verify", "payment.failed"} \cap logged # {}
    => IsTerminal(intent)

Known == {Library[i] : i \in DOMAIN Library} \cup {Templates[i] : i \in DOMAIN Templates}

KnownFailures ==
  {"DELAYED_WEBHOOK", "WEBHOOK_AFTER_TIMEOUT", "CONFLICTING_PAYMENT_STATE",
   "DUPLICATE_PAYMENT", "MISSING_PAYMENT_ID", "ADV_OUTBOX_DUPLICATION_RETRY"}

(* The lab is a regression test of the state machine, the policy engine    *)
(* and the runner together, and its own expectations are not all theirs:   *)
(* with no statement failing, six of the 25 scenarios of the code FAIL (a  *)
(* capture reported in a state that has no row for it is a MANUAL_REVIEW), *)
(* whatever ran before them, and these only.                               *)
OnlyKnownScenariosFail ==
  faults = 0 =>
    \A i \in 1..(at - 1) : suite[i] \in Known =>
      (i \in failedAt <=> suite[i].type \in KnownFailures)
=============================================================================
