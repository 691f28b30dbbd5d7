--------------------------- MODULE MCOutboxWorker ---------------------------
(***************************************************************************)
(* Instances of OutboxWorker for TLC.                                      *)
(***************************************************************************)
EXTENDS OutboxWorker, TLC

CONSTANTS w1, w2

MCWorkerSymmetry == Permutations({w1, w2})
=============================================================================
