------------------------ MODULE ReconciliationProofs ------------------------
(* What a report of the reconciliation engine entitles its reader to. *)
EXTENDS Reconciliation, TLAPS

Facts == [status : ApiStatuses, currency : BOOLEAN, identity : BOOLEAN,
          amount : BOOLEAN, captures : Nat, heard : BOOLEAN, state : STRING]

(* An intent is reported reconciled only if currency, order and amount     *)
(* match, at most one capture was executed, the provider's answer is final *)
(* and the local state does not deny it; and never when the answer is      *)
(* unknown.                                                                *)
THEOREM ReconciledIsMatched ==
  ASSUME NEW f \in Facts, Reconcile(f).reconciled
  PROVE  /\ f.currency /\ f.identity /\ f.amount
         /\ f.captures <= 1
         /\ f.status \in {"captured", "failed"}
         /\ f.state \in {"FAILED", "VOIDED"} => f.status = "failed"
<1>1. ~Anomalous(f) /\ f.status \in {"captured", "authorized", "failed"}
  BY DEF Reconcile, Report
<1>2. f.status # "authorized"
  BY <1>1 DEF Reconcile, Report
<1>3. f.captures <= 1
  BY <1>1 DEF Anomalous, Duplicated, Facts
<1> QED BY <1>1, <1>2, <1>3 DEF Anomalous, Conflicts

(* The resolver opens a case when the evidence is UNKNOWN or the report    *)
(* AMBIGUOUS (resolver.py:201): the second implies that the provider's     *)
(* status is unknown, so it never widens the first.                        *)
THEOREM AmbiguousIsUnknown ==
  ASSUME NEW f \in Facts, Reconcile(f).status = "AMBIGUOUS"
  PROVE  f.status = "UNKNOWN" /\ f.captures <= 1
<1>1. f.status = "UNKNOWN" /\ ~Duplicated(f)
  BY DEF Reconcile, Report
<1>2. f.captures <= 1
  BY <1>1 DEF Duplicated, Facts
<1> QED BY <1>1, <1>2
=============================================================================
