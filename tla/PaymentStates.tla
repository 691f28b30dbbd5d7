--------------------------- MODULE PaymentStates ---------------------------
(***************************************************************************)
(* The transition table of core/state_machine.py and its two queries.      *)
(* Events are strings; a pair the table does not list is a legal input.    *)
(***************************************************************************)

Terminal == {"CAPTURED", "RECONCILED", "MANUAL_REVIEW", "FAILED"}

States == Terminal \cup
          {"CREATED", "PENDING_RAIL", "UNCERTAIN", "VERIFYING", "AUTHORIZED",
           "DUPLICATE_SUSPECTED", "RECONCILIATION_REQUIRED", "ACTION_PENDING",
           "ACTION_EXECUTING", "ACTION_CONFIRMED", "UNKNOWN"}

\* One row per state: event |-> next state.  RECONCILED and FAILED have none.
Transitions ==
  [CREATED |->
     [SUBMIT |-> "PENDING_RAIL", PAYMENT_AUTHORIZED |-> "AUTHORIZED",
      PAYMENT_CAPTURED |-> "CAPTURED", PAYMENT_FAILED |-> "FAILED",
      VERIFIED_FAILED |-> "FAILED"],
   PENDING_RAIL |->
     [RAIL_ACK |-> "VERIFYING", TIMEOUT |-> "UNCERTAIN",
      RAIL_REJECT |-> "FAILED", PAYMENT_FAILED |-> "FAILED",
      VERIFIED_FAILED |-> "FAILED"],
   VERIFYING |->
     [VERIFIED_SUCCESS |-> "CAPTURED", VERIFIED_AUTHORIZED |-> "AUTHORIZED",
      VERIFIED_FAILED |-> "FAILED", UNKNOWN_STATUS |-> "UNKNOWN"],
   AUTHORIZED |->
     [CAPTURE_INITIATED |-> "ACTION_EXECUTING",
      PAYMENT_CAPTURED |-> "CAPTURED", PAYMENT_FAILED |-> "FAILED"],
   UNCERTAIN |->
     [VERIFIED_SUCCESS |-> "CAPTURED", VERIFIED_AUTHORIZED |-> "AUTHORIZED",
      VERIFIED_FAILED |-> "FAILED", DUPLICATE_DETECTED |-> "DUPLICATE_SUSPECTED",
      TIMEOUT |-> "UNCERTAIN", UNKNOWN_RESPONSE |-> "UNKNOWN",
      ESCALATE |-> "MANUAL_REVIEW"],
   CAPTURED |->
     [LATE_DUPLICATE |-> "DUPLICATE_SUSPECTED",
      REFUND_INITIATED |-> "ACTION_EXECUTING", REFUND_COMPLETED |-> "RECONCILED"],
   DUPLICATE_SUSPECTED |->
     [ACTION_START |-> "ACTION_PENDING", ESCALATE |-> "MANUAL_REVIEW"],
   ACTION_PENDING |->
     [EXECUTE |-> "ACTION_EXECUTING", ESCALATE |-> "MANUAL_REVIEW"],
   ACTION_EXECUTING |->
     [CONFIRM |-> "ACTION_CONFIRMED", FAIL |-> "RECONCILIATION_REQUIRED",
      ESCALATE |-> "MANUAL_REVIEW"],
   ACTION_CONFIRMED |->
     [RESOLVED |-> "RECONCILED", ESCALATE |-> "MANUAL_REVIEW"],
   RECONCILIATION_REQUIRED |->
     [ESCALATE |-> "MANUAL_REVIEW", RECONCILE_SUCCESS |-> "CAPTURED",
      RECONCILE_FAILED |-> "FAILED"],
   UNKNOWN |->
     [ESCALATE |-> "MANUAL_REVIEW", VERIFIED_SUCCESS |-> "CAPTURED",
      VERIFIED_FAILED |-> "FAILED", VERIFIED_AUTHORIZED |-> "AUTHORIZED"],
   MANUAL_REVIEW |->
     [OPERATOR_RECONCILE |-> "RECONCILED", OPERATOR_FORCE_CAPTURE |-> "CAPTURED",
      OPERATOR_FORCE_FAILED |-> "FAILED"]]

AllowedEvents(state) ==
  IF state \in DOMAIN Transitions THEN DOMAIN Transitions[state] ELSE {}

\* An unlisted event leaves a terminal state alone and sends any other one
\* to MANUAL_REVIEW.
Transition(state, event) ==
  IF event \in AllowedEvents(state) THEN Transitions[state][event]
  ELSE IF state \in Terminal THEN state
  ELSE "MANUAL_REVIEW"

IsTerminal(state) == state \in Terminal
=============================================================================
