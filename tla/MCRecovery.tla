----------------------------- MODULE MCRecovery -----------------------------
(***************************************************************************)
(* Instances of Recovery for TLC: the outbox worker and one other task,    *)
(* the poller's or one the API server runs.                                *)
(***************************************************************************)
EXTENDS Recovery, TLC

CONSTANTS w, p, api, poller, worker

MCHostOf == [t \in Tasks |-> IF t = w THEN worker ELSE IF t \in Poller THEN poller ELSE api]
=============================================================================
