----------------------------- MODULE TaskQueue -----------------------------
(***************************************************************************)
(* What worker.py's docstring promises of an outbox event, whatever        *)
(* happens to the workers: it is tried at most MaxAttempts times, it is    *)
(* done only after a try, it is given up only after the last one, and an   *)
(* event that is done or given up stays so.                                *)
(***************************************************************************)
EXTENDS Naturals

CONSTANTS Items, MaxAttempts

VARIABLES outcome,   \* what became of each item: open, done or dead
          tries      \* how often it was tried

Attempt(i) ==
  /\ outcome[i] = "open" /\ tries[i] < MaxAttempts
  /\ tries' = [tries EXCEPT ![i] = @ + 1]
  /\ UNCHANGED outcome

Finish(i) ==
  /\ outcome[i] = "open" /\ tries[i] > 0
  /\ outcome' = [outcome EXCEPT ![i] = "done"]
  /\ UNCHANGED tries

GiveUp(i) ==
  /\ outcome[i] = "open" /\ tries[i] = MaxAttempts
  /\ outcome' = [outcome EXCEPT ![i] = "dead"]
  /\ UNCHANGED tries

QueueInit ==
  /\ outcome = [i \in Items |-> "open"]
  /\ tries = [i \in Items |-> 0]

QueueNext == \E i \in Items : Attempt(i) \/ Finish(i) \/ GiveUp(i)

QueueSpec == QueueInit /\ [][QueueNext]_<<outcome, tries>>
=============================================================================
