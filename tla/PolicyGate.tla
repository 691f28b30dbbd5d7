----------------------------- MODULE PolicyGate -----------------------------
(***************************************************************************)
(* The pure part of a resolution: what the detective may recommend         *)
(* (agents/ai_providers.py), what the policy engine decides                *)
(* (core/policy_engine.py) and what the state machine makes of it          *)
(* (core/resolver.py).  An amount is abstracted to the two facts the rules *)
(* read of it, a confidence to which side of 0.85 it lies on.              *)
(***************************************************************************)
EXTENDS PaymentStates

ActionTypes == {"CAPTURE", "REFUND", "VOID", "REROUTE", "NO_ACTION",
                "MANUAL_REVIEW", "VERIFY"}

ExternalStatuses == {"SUCCESS", "CAPTURED", "AUTHORIZED", "FAILED", "UNKNOWN",
                     "VOIDED", "REFUNDED", "DUPLICATE"}

Decisions == {"APPROVE", "REJECT", "MANUAL_REVIEW"}

Recommendation(action, confident) == [action |-> action, confident |-> confident]

\* Fault variant: a guardrail that asks for more than 0.85.
DeterministicAdviceStrict(state, hasCapture, upiRail) ==
  IF hasCapture \/ state = "DUPLICATE_SUSPECTED"
    THEN Recommendation("REFUND", TRUE)
  ELSE IF state \in {"UNCERTAIN", "PENDING_RAIL"}
    THEN Recommendation("CAPTURE", FALSE)
  ELSE Recommendation("MANUAL_REVIEW", FALSE)

\* The rule engine: confidence 0.95 / 0.85 clears the guardrail, 0.75 and
\* 0.40 do not.  CAPTURED and RECONCILED never reach it.
DeterministicAdvice(state, hasCapture, upiRail) ==
  IF hasCapture \/ state = "DUPLICATE_SUSPECTED"
    THEN Recommendation("REFUND", TRUE)
  ELSE IF state \in {"UNCERTAIN", "PENDING_RAIL"}
    THEN Recommendation("CAPTURE", upiRail)
  ELSE Recommendation("MANUAL_REVIEW", FALSE)

\* A language model recommends any of aiActions, with any confidence.
ModelAdvice(aiActions) == {Recommendation(a, c) : a \in aiActions, c \in BOOLEAN}

\* The detective takes the model's advice, or the rule engine's when it fails.
Advice(state, hasCapture, upiRail, aiActions) ==
  {DeterministicAdvice(state, hasCapture, upiRail)} \cup ModelAdvice(aiActions)

Resolvable == {"UNCERTAIN", "DUPLICATE_SUSPECTED", "VERIFYING", "PENDING_RAIL",
               "AUTHORIZED"}

AllowedActions(state, ext) ==
  IF state \in Resolvable \ {"DUPLICATE_SUSPECTED"}
     /\ ext \in {"SUCCESS", "CAPTURED", "AUTHORIZED"}
    THEN {"CAPTURE", "NO_ACTION"}
  ELSE IF state \in Resolvable \ {"DUPLICATE_SUSPECTED"}
          /\ ext \in {"FAILED", "VOIDED", "REFUNDED"}
    THEN {"REROUTE", "NO_ACTION"}
  ELSE IF state = "DUPLICATE_SUSPECTED" /\ ext \in {"SUCCESS", "CAPTURED", "DUPLICATE"}
    THEN {"VOID", "REFUND"}
  ELSE {"MANUAL_REVIEW", "NO_ACTION"}

\* Fault variant: rule 7 is left out.
EvaluateWithoutCap(state, hasCapture, ext, matches, overCap, advice) ==
  IF \/ state \notin Resolvable \/ ext = "UNKNOWN" \/ ~matches
     \/ hasCapture /\ state # "DUPLICATE_SUSPECTED"
          /\ advice.action \notin {"REFUND", "VOID"}
    THEN "REJECT"
  ELSE IF ~advice.confident THEN "MANUAL_REVIEW"
  ELSE IF advice.action \in AllowedActions(state, ext) THEN "APPROVE" ELSE "REJECT"

\* The rules in the order the engine applies them: 1 state, 2 verified
\* evidence, 3 economic identity (matches: amount and currency of the evidence
\* are the intent's), 4 duplicate protection, 6 confidence, 7 refund cap,
\* 5 bounded action.
Evaluate(state, hasCapture, ext, matches, overCap, advice) ==
  IF \/ state \notin Resolvable \/ ext = "UNKNOWN" \/ ~matches
     \/ hasCapture /\ state # "DUPLICATE_SUSPECTED"
          /\ advice.action \notin {"REFUND", "VOID"}
    THEN "REJECT"
  ELSE IF ~advice.confident \/ (advice.action = "REFUND" /\ overCap) THEN "MANUAL_REVIEW"
  ELSE IF advice.action \in AllowedActions(state, ext) THEN "APPROVE" ELSE "REJECT"

\* Fault variant: the status of the execution is not looked at.
StateAfterActionUnchecked(state, action, succeeded) ==
  CASE action \in {"CAPTURE", "NO_ACTION"} -> Transition(state, "VERIFIED_SUCCESS")
    [] action \in {"VOID", "REFUND"} -> Transition(state, "ACTION_CONFIRMED")
    [] OTHER -> state

\* The state the resolver writes after an approved action.  ACTION_CONFIRMED
\* is not in the table as an event: a refund sends the intent to MANUAL_REVIEW.
StateAfterAction(state, action, succeeded) ==
  CASE ~succeeded -> Transition(state, "VERIFIED_FAILED")
    [] succeeded /\ action \in {"CAPTURE", "NO_ACTION"} -> Transition(state, "VERIFIED_SUCCESS")
    [] succeeded /\ action \in {"VOID", "REFUND"} -> Transition(state, "ACTION_CONFIRMED")
    [] OTHER -> state

\* The state after a decision other than APPROVE, UNKNOWN evidence excepted.
StateAfterRefusal(state, ext) ==
  CASE ext = "FAILED" -> Transition(state, "VERIFIED_FAILED")
    [] ext = "DUPLICATE" -> Transition(state, "DUPLICATE_DETECTED")
    [] OTHER -> state
=============================================================================
