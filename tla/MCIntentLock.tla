---------------------------- MODULE MCIntentLock ----------------------------
(***************************************************************************)
(* Instances of IntentLock for TLC: two tasks of the API server and one of *)
(* the outbox worker, the processes start.sh starts.                       *)
(***************************************************************************)
EXTENDS IntentLock, TLC

CONSTANTS t1, t2, t3, api, worker

MCHostOf == (t1 :> api) @@ (t2 :> api) @@ (t3 :> worker)

MCSymmetry == Permutations({t1, t2})
=============================================================================
