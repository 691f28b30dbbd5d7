--------------------------- MODULE Reconciliation ---------------------------
(***************************************************************************)
(* ReconciliationEngine.reconcile (core/reconciliation.py): the report on  *)
(* an intent, what the provider says of it and what was executed.  A fact  *)
(* is abstracted to what the engine compares:                              *)
(*   status     the provider's, or "other" for one the engine does not know*)
(*   currency, identity, amount   does it match the intent's?              *)
(*   captures   the successful ones in external_executions                 *)
(*   heard      did a webhook tell of the payment?                         *)
(*   state      the intent's                                               *)
(***************************************************************************)
EXTENDS Naturals

ApiStatuses == {"captured", "authorized", "failed", "UNKNOWN", "other"}

\* The local state denies what the provider holds.
Conflicts(f) == f.state \in {"FAILED", "VOIDED"} /\ f.status = "captured"

Duplicated(f) == f.captures > 1

Anomalous(f) ==
  ~f.currency \/ ~f.identity \/ ~f.amount \/ Duplicated(f) \/ Conflicts(f)

\* The first that applies, in the order in which they override each other.
Divergence(f) ==
  CASE Duplicated(f) -> "POSSIBLE_DUPLICATE_CAPTURE"
    [] ~Duplicated(f) /\ ~f.currency -> "CURRENCY_MISMATCH"
    [] ~Duplicated(f) /\ f.currency /\ ~f.identity -> "PAYMENT_ID_MISMATCH"
    [] ~Duplicated(f) /\ f.currency /\ f.identity /\ ~f.amount -> "AMOUNT_MISMATCH"
    [] ~Anomalous(f) /\ f.status = "captured" /\ ~f.heard -> "LOST_WEBHOOK"
    [] ~Anomalous(f) /\ ~(f.status = "captured" /\ ~f.heard) -> "NONE"
    [] OTHER -> "CONFLICTING_PROVIDER_STATE"

Report(status, reconciled, divergence) ==
  [status |-> status, reconciled |-> reconciled, divergence |-> divergence]

Reconcile(f) ==
  IF ~Anomalous(f) /\ f.status \in {"captured", "authorized", "failed"}
    THEN Report("CONSISTENT", f.status # "authorized", Divergence(f))
  ELSE IF Duplicated(f)
    THEN Report("INCONSISTENT", FALSE, "POSSIBLE_DUPLICATE_CAPTURE")
  ELSE IF f.status = "UNKNOWN"
    THEN Report("AMBIGUOUS", FALSE, "UNKNOWN_PROVIDER_STATE")
  ELSE Report("INCONSISTENT", FALSE,
              IF Divergence(f) = "NONE" THEN "MANUAL_REVIEW_REQUIRED"
              ELSE Divergence(f))
=============================================================================
