---------------------------- MODULE MCResolution ----------------------------
(***************************************************************************)
(* Instances of Resolution for TLC: one resolution called by the API       *)
(* server, one by the outbox worker.                                       *)
(***************************************************************************)
EXTENDS Resolution, TLC

CONSTANTS t1, t2, api, worker

MCHostOf == [t \in Tasks |-> IF t = t1 THEN api ELSE worker]

\* The two resolutions may change places if their processes do so, too.
MCSwap ==
  {f \in Permutations({t1, t2, api, worker}) :
     {f[t1], f[t2]} = Tasks /\ \A t \in Tasks : f[HostOf[t]] = HostOf[f[t]]}

\* Any advice but that nothing need be done.
MCButNoAction == ActionTypes \ {"NO_ACTION"}
=============================================================================
