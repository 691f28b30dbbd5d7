---------------------------- MODULE OutboxWorker ----------------------------
(***************************************************************************)
(* worker.py: workers that poll the outbox_events table, claim the oldest  *)
(* event that is due, resolve its payment intent and settle the event.     *)
(* Every SQL statement commits on its own, so a worker may die, or another *)
(* one may run, between any two of them.                                   *)
(*                                                                         *)
(* Time is abstracted to the two facts the queries read of it: whether     *)
(* available_at lies ahead (waiting) and whether a claim is older than the *)
(* 60 second lease (stale).  A call of resolve() is here only its outcome. *)
(* MaxCrashes bounds how often workers die.                                *)
(***************************************************************************)
EXTENDS Integers

CONSTANTS Items,         \* outbox events, numbered in the order of created_at
          Workers,
          NoItem,
          MaxAttempts,
          DbFails,       \* may the statement that marks an event raise?
          LiveLapse,     \* may the work on an event outlast its lease?
          MaxCrashes

ASSUME WorkerAssumption ==
  /\ Items \subseteq Nat /\ NoItem \notin Items
  /\ MaxAttempts \in Nat \ {0} /\ MaxCrashes \in Nat
  /\ DbFails \in BOOLEAN /\ LiveLapse \in BOOLEAN

VARIABLES status, attempts,   \* columns of the table
          waiting,            \* the items whose available_at lies ahead
          stale,              \* the claimed items whose lease has ended
          pc, held, got,      \* a worker's place, event and copy of attempts
          crashes

rows == <<status, attempts, waiting, stale>>
workerVars == <<status, attempts, waiting, stale, pc, held, got, crashes>>

Statuses == {"PENDING", "PROCESSING", "PROCESSED", "DEAD_LETTER"}
Busy == {"resolving", "marking", "failing"}

WorkerTypeOK ==
  /\ status \in [Items -> Statuses]
  /\ attempts \in [Items -> 0 .. MaxAttempts]
  /\ waiting \subseteq Items /\ stale \subseteq Items
  /\ pc \in [Workers -> {"poll", "claim", "down"} \cup Busy]
  /\ held \in [Workers -> Items \cup {NoItem}]
  /\ got \in [Workers -> 0 .. MaxAttempts]
  /\ \A w \in Workers : pc[w] \in Busy => held[w] \in Items
  /\ crashes \in Nat

WorkerInit ==
  /\ status = [i \in Items |-> "PENDING"] /\ attempts = [i \in Items |-> 0]
  /\ waiting = {} /\ stale = {}
  /\ pc = [w \in Workers |-> "poll"]
  /\ held = [w \in Workers |-> NoItem] /\ got = [w \in Workers |-> 0]
  /\ crashes = 0

LetGo(w, place) ==
  /\ pc' = [pc EXCEPT ![w] = place]
  /\ held' = [held EXCEPT ![w] = NoItem]
  /\ got' = [got EXCEPT ![w] = 0]

\* Fault variant: whatever is PROCESSING, however recently it was claimed.
ReclaimableAtOnce == {i \in Items : status[i] = "PROCESSING"}

\* reclaim_stuck_tasks: every PROCESSING row past its lease.
Reclaimable == {i \in Items : status[i] = "PROCESSING" /\ i \in stale}

Reclaim(w) ==
  /\ pc[w] = "poll"
  /\ status' = [i \in Items |-> IF i \in Reclaimable THEN "PENDING" ELSE status[i]]
  /\ waiting' = waiting \ Reclaimable
  /\ stale' = stale \ Reclaimable
  /\ pc' = [pc EXCEPT ![w] = "claim"]
  /\ UNCHANGED <<attempts, held, got, crashes>>

\* Fault variants: no limit on the attempts; any status but one.
ClaimableWithoutLimit == {i \in Items : status[i] = "PENDING" /\ i \notin waiting}
ClaimableInAnyStatus ==
  {i \in Items : status[i] # "DEAD_LETTER" /\ attempts[i] < MaxAttempts /\ i \notin waiting}

Claimable ==
  {i \in Items : status[i] = "PENDING" /\ attempts[i] < MaxAttempts /\ i \notin waiting}

\* Fault variant: the claim forgets to count the attempt.
ClaimUncounted(w) ==
  /\ pc[w] = "claim"
  /\ \E i \in Claimable :
       /\ \A j \in Claimable : i <= j
       /\ status' = [status EXCEPT ![i] = "PROCESSING"]
       /\ held' = [held EXCEPT ![w] = i]
       /\ got' = [got EXCEPT ![w] = attempts[i]]
       /\ stale' = stale \ {i}
  /\ pc' = [pc EXCEPT ![w] = "resolving"]
  /\ UNCHANGED <<attempts, waiting, crashes>>

\* UPDATE ... WHERE outbox_id = (SELECT ... FOR UPDATE SKIP LOCKED) RETURNING:
\* one statement, so claims take effect one after the other.
Claim(w) ==
  /\ pc[w] = "claim"
  /\ \E i \in Claimable :
       /\ \A j \in Claimable : i <= j
       /\ status' = [status EXCEPT ![i] = "PROCESSING"]
       /\ attempts' = [attempts EXCEPT ![i] = @ + 1]
       /\ held' = [held EXCEPT ![w] = i]
       /\ got' = [got EXCEPT ![w] = attempts[i] + 1]
       /\ stale' = stale \ {i}
  /\ pc' = [pc EXCEPT ![w] = "resolving"]
  /\ UNCHANGED <<waiting, crashes>>

\* Nothing is due: the worker sleeps and polls again.
FindNothing(w) ==
  /\ pc[w] = "claim" /\ Claimable = {}
  /\ pc' = [pc EXCEPT ![w] = "poll"]
  /\ UNCHANGED <<rows, held, got, crashes>>

\* resolve() answers.  SKIPPED (the intent is locked) and ERROR (it caught an
\* exception) are answers like any other: worker.py only logs them.
Answered(w) ==
  /\ pc[w] = "resolving"
  /\ pc' = [pc EXCEPT ![w] = "marking"]
  /\ UNCHANGED <<rows, held, got, crashes>>

\* resolve(), or the parsing of the event before it, raises.
Raised(w) ==
  /\ pc[w] = "resolving"
  /\ pc' = [pc EXCEPT ![w] = "failing"]
  /\ UNCHANGED <<rows, held, got, crashes>>

\* UPDATE ... SET status = 'PROCESSED' by id: the row's status is not looked at.
MarkProcessed(w) ==
  /\ pc[w] = "marking"
  /\ status' = [status EXCEPT ![held[w]] = "PROCESSED"]
  /\ stale' = stale \ {held[w]}
  /\ LetGo(w, "poll")
  /\ UNCHANGED <<attempts, waiting, crashes>>

MarkRaises(w) ==
  /\ DbFails /\ pc[w] = "marking"
  /\ pc' = [pc EXCEPT ![w] = "failing"]
  /\ UNCHANGED <<rows, held, got, crashes>>

\* Fault variant: off by one.
ExhaustedEarly(w) == got[w] >= MaxAttempts - 1

\* The worker decides on the count its claim returned.
Exhausted(w) == got[w] >= MaxAttempts

Fail(w) ==
  /\ pc[w] = "failing"
  /\ status' = [status EXCEPT
                  ![held[w]] = IF Exhausted(w) THEN "DEAD_LETTER" ELSE "PENDING"]
  /\ waiting' = IF Exhausted(w) THEN waiting ELSE waiting \cup {held[w]}
  /\ stale' = stale \ {held[w]}
  /\ LetGo(w, "poll")
  /\ UNCHANGED <<attempts, crashes>>

\* SIGKILL, out of memory, or an exception no handler of the worker catches.
Crash(w) ==
  /\ pc[w] # "down" /\ crashes < MaxCrashes
  /\ crashes' = crashes + 1
  /\ LetGo(w, "down")
  /\ UNCHANGED rows

Restart(w) ==
  /\ pc[w] = "down"
  /\ pc' = [pc EXCEPT ![w] = "poll"]
  /\ UNCHANGED <<rows, held, got, crashes>>

LeaseEnds(i) ==
  /\ status[i] = "PROCESSING" /\ i \notin stale
  /\ LiveLapse \/ \A w \in Workers : held[w] # i
  /\ stale' = stale \cup {i}
  /\ UNCHANGED <<status, attempts, waiting, pc, held, got, crashes>>

BackoffEnds(i) ==
  /\ i \in waiting
  /\ waiting' = waiting \ {i}
  /\ UNCHANGED <<status, attempts, stale, pc, held, got, crashes>>

Work(w) ==
  \/ Reclaim(w) \/ Claim(w) \/ FindNothing(w) \/ Answered(w) \/ Raised(w)
  \/ MarkProcessed(w) \/ MarkRaises(w) \/ Fail(w) \/ Restart(w)

WorkerNext ==
  \/ \E w \in Workers : Work(w) \/ Crash(w)
  \/ \E i \in Items : LeaseEnds(i) \/ BackoffEnds(i)

WorkerSpec == WorkerInit /\ [][WorkerNext]_workerVars

\* A worker that runs goes on, one that died is started again, time passes.
WorkerFairness ==
  /\ \A w \in Workers : WF_workerVars(Work(w))
  /\ \A i \in Items : WF_workerVars(LeaseEnds(i)) /\ WF_workerVars(BackoffEnds(i))

FairWorkerSpec == WorkerSpec /\ WorkerFairness
-----------------------------------------------------------------------------
\* A worker that holds an event it claimed is never the same attempt at it as
\* another worker: the count it keeps tells a current claim from an old one.
ClaimsDistinct ==
  \A v, w \in Workers :
    v # w /\ pc[v] \in Busy /\ pc[w] \in Busy /\ held[v] = held[w] => got[v] # got[w]

\* Nothing is given up before its last attempt (worker.py:136, docstring
\* "items exceeding MAX_ATTEMPTS are moved to DEAD_LETTER"), although the
\* worker decides on a count it read before the resolution.
DeadOnlyWhenExhausted ==
  \A i \in Items : status[i] = "DEAD_LETTER" => attempts[i] = MaxAttempts

\* As long as no worker outlasts its lease, an event a worker holds is claimed
\* in the table under the count the worker keeps, so the outcome it will write by
\* id alone (worker.py:123, 139, 151) is the current attempt's, whichever other
\* workers poll, reclaim what a dead one left, and claim.
HolderIsCurrent ==
  \A w \in Workers : pc[w] \in Busy =>
    status[held[w]] = "PROCESSING" /\ got[w] = attempts[held[w]]

Settled(i) == status[i] \in {"PROCESSED", "DEAD_LETTER"}

\* As long as no worker outlasts its lease, a settled event is not worked on
\* again and does not change sides, however many workers poll and die.
SettledIsFinal ==
  [][\A i \in Items : Settled(i) => status'[i] = status[i]]_workerVars

\* The outbox implements the task queue its docstring describes.
OutcomeOf(s) ==
  CASE s = "PROCESSED" -> "done" [] s = "DEAD_LETTER" -> "dead" [] OTHER -> "open"

Queue == INSTANCE TaskQueue WITH outcome <- [i \in Items |-> OutcomeOf(status[i])],
                                 tries <- attempts

ImplementsTaskQueue == Queue!QueueSpec

\* What is left of it when workers may die: every event is settled, or was
\* claimed MaxAttempts times and is then left alone.
SettlesOrExhausts ==
  \A i \in Items : <>[](Settled(i) \/ attempts[i] = MaxAttempts)
=============================================================================
