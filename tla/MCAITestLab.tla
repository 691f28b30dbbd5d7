---------------------------- MODULE MCAITestLab ----------------------------
(* An instance of AITestLab for TLC. *)
EXTENDS AITestLab, TLC

CONSTANTS r1, r2
=============================================================================
