------------------------- MODULE OutboxWorkerProofs -------------------------
(***************************************************************************)
(* What is proved of the outbox for any items, workers and limits.         *)
(* Unconditionally: types, that a claim is told from an older one by its   *)
(* count, and that nothing is given up early.  Where leases outlast the    *)
(* work, and always where one worker runs: that a held event stays         *)
(* claimed, that a settled one is final, and TaskQueue is implemented.     *)
(***************************************************************************)
EXTENDS OutboxWorker, TLAPS

LEMMA TypeInitial == WorkerInit => WorkerTypeOK
BY WorkerAssumption DEF WorkerInit, WorkerTypeOK, Statuses, Busy

LEMMA TypeStep == WorkerTypeOK /\ [WorkerNext]_workerVars => WorkerTypeOK'
<1> SUFFICES ASSUME WorkerTypeOK, [WorkerNext]_workerVars PROVE WorkerTypeOK'
  OBVIOUS
<1> USE WorkerAssumption DEF WorkerTypeOK, Statuses, Busy
<1>1. ASSUME NEW w \in Workers, Reclaim(w) PROVE WorkerTypeOK'
  BY <1>1 DEF Reclaim, Reclaimable
<1>2. ASSUME NEW w \in Workers, Claim(w) PROVE WorkerTypeOK'
  <2>1. PICK i \in Claimable :
          /\ status' = [status EXCEPT ![i] = "PROCESSING"]
          /\ attempts' = [attempts EXCEPT ![i] = @ + 1]
          /\ held' = [held EXCEPT ![w] = i]
          /\ got' = [got EXCEPT ![w] = attempts[i] + 1]
          /\ stale' = stale \ {i}
    BY <1>2 DEF Claim
  <2>2. i \in Items /\ attempts[i] + 1 \in 0 .. MaxAttempts
    BY DEF Claimable
  <2>3. /\ attempts' \in [Items -> 0 .. MaxAttempts]
        /\ got' \in [Workers -> 0 .. MaxAttempts]
    BY <2>1, <2>2
  <2>4. /\ status' \in [Items -> Statuses]
        /\ held' \in [Workers -> Items \cup {NoItem}]
        /\ stale' \subseteq Items
    BY <2>1, <2>2
  <2>5. /\ pc' = [pc EXCEPT ![w] = "resolving"] /\ waiting' = waiting
        /\ crashes' = crashes
    BY <1>2 DEF Claim
  <2>6. \A v \in Workers : pc'[v] \in Busy => held'[v] \in Items
    BY <2>1, <2>2, <2>5
  <2> QED BY <2>3, <2>4, <2>5, <2>6
<1>3. ASSUME NEW w \in Workers, FindNothing(w) PROVE WorkerTypeOK'
  BY <1>3 DEF FindNothing, rows
<1>4. ASSUME NEW w \in Workers, Answered(w) PROVE WorkerTypeOK'
  BY <1>4 DEF Answered, rows
<1>5. ASSUME NEW w \in Workers, Raised(w) PROVE WorkerTypeOK'
  BY <1>5 DEF Raised, rows
<1>6. ASSUME NEW w \in Workers, MarkProcessed(w) PROVE WorkerTypeOK'
  <2>1. held[w] \in Items
    BY <1>6 DEF MarkProcessed
  <2>2. status' \in [Items -> Statuses] /\ stale' \subseteq Items
    BY <1>6, <2>1 DEF MarkProcessed
  <2>3. LetGo(w, "poll") /\ UNCHANGED <<attempts, waiting, crashes>>
    BY <1>6 DEF MarkProcessed
  <2> QED BY <2>2, <2>3 DEF LetGo
<1>7. ASSUME NEW w \in Workers, MarkRaises(w) PROVE WorkerTypeOK'
  BY <1>7 DEF MarkRaises, rows
<1>8. ASSUME NEW w \in Workers, Fail(w) PROVE WorkerTypeOK'
  <2>1. held[w] \in Items
    BY <1>8 DEF Fail
  <2>2. /\ status' \in [Items -> Statuses]
        /\ stale' \subseteq Items /\ waiting' \subseteq Items
    BY <1>8, <2>1 DEF Fail
  <2>3. LetGo(w, "poll") /\ UNCHANGED <<attempts, crashes>>
    BY <1>8 DEF Fail
  <2> QED BY <2>2, <2>3 DEF LetGo
<1>9. ASSUME NEW w \in Workers, Crash(w) PROVE WorkerTypeOK'
  BY <1>9 DEF Crash, LetGo, rows
<1>10. ASSUME NEW w \in Workers, Restart(w) PROVE WorkerTypeOK'
  BY <1>10 DEF Restart, rows
<1>11. ASSUME NEW i \in Items, LeaseEnds(i) PROVE WorkerTypeOK'
  BY <1>11 DEF LeaseEnds
<1>12. ASSUME NEW i \in Items, BackoffEnds(i) PROVE WorkerTypeOK'
  BY <1>12 DEF BackoffEnds
<1>13. CASE UNCHANGED workerVars
  BY <1>13 DEF workerVars
<1> QED
  BY <1>1, <1>2, <1>3, <1>4, <1>5, <1>6, <1>7, <1>8, <1>9, <1>10, <1>11, <1>12, <1>13
  DEF WorkerNext, Work

\* The types, among them that no event is attempted more than MaxAttempts
\* times, however many workers claim and reclaim it (worker.py:78-94).
THEOREM WorkerTypeCorrect == WorkerSpec => []WorkerTypeOK
BY TypeInitial, TypeStep, PTL DEF WorkerSpec
-----------------------------------------------------------------------------
(* Several workers.  Neither property is inductive alone: a worker that    *)
(* decides on its copy of the count must be known not to be ahead of the   *)
(* row (CopyNotAhead), so that the next claim's count differs from it.     *)

CopyNotAhead ==
  \A w \in Workers : pc[w] \in Busy => got[w] <= attempts[held[w]]

ClaimsInv == CopyNotAhead /\ ClaimsDistinct /\ DeadOnlyWhenExhausted

LEMMA ClaimsStep ==
  WorkerTypeOK /\ ClaimsInv /\ [WorkerNext]_workerVars => ClaimsInv'
<1> SUFFICES ASSUME WorkerTypeOK, ClaimsInv, [WorkerNext]_workerVars PROVE ClaimsInv'
  OBVIOUS
<1> USE WorkerAssumption DEF ClaimsInv, CopyNotAhead, ClaimsDistinct, DeadOnlyWhenExhausted
<1>t. /\ status \in [Items -> Statuses] /\ attempts \in [Items -> 0 .. MaxAttempts]
      /\ pc \in [Workers -> {"poll", "claim", "down"} \cup Busy]
      /\ held \in [Workers -> Items \cup {NoItem}]
      /\ got \in [Workers -> 0 .. MaxAttempts]
      /\ \A w \in Workers : pc[w] \in Busy => held[w] \in Items
  BY DEF WorkerTypeOK
<1>1. ASSUME NEW w \in Workers, Reclaim(w) PROVE ClaimsInv'
  <2>1. /\ attempts' = attempts /\ held' = held /\ got' = got
        /\ \A v \in Workers : pc'[v] \in Busy => pc[v] \in Busy
        /\ \A i \in Items : status'[i] = "DEAD_LETTER" => status[i] = "DEAD_LETTER"
    BY <1>1, <1>t DEF Reclaim, Busy
  <2> QED BY <2>1
<1>2. ASSUME NEW w \in Workers, Claim(w) PROVE ClaimsInv'
  <2>1. PICK i \in Claimable :
          /\ status' = [status EXCEPT ![i] = "PROCESSING"]
          /\ attempts' = [attempts EXCEPT ![i] = @ + 1]
          /\ held' = [held EXCEPT ![w] = i]
          /\ got' = [got EXCEPT ![w] = attempts[i] + 1]
    BY <1>2 DEF Claim
  <2>2. i \in Items /\ status[i] = "PENDING" /\ attempts[i] \in Nat
    BY <1>t DEF Claimable
  <2>3. /\ \A v \in Workers \ {w} : /\ pc'[v] = pc[v] /\ held'[v] = held[v]
                                    /\ got'[v] = got[v]
        /\ held'[w] = i /\ got'[w] = attempts[i] + 1 /\ attempts'[i] = attempts[i] + 1
        /\ \A j \in Items \ {i} : attempts'[j] = attempts[j]
    BY <1>2, <1>t, <2>1, <2>2 DEF Claim
  <2>4. CopyNotAhead'
    <3> SUFFICES ASSUME NEW v \in Workers, pc'[v] \in Busy
                 PROVE  got'[v] <= attempts'[held'[v]]
      OBVIOUS
    <3>1. CASE v = w
      BY <2>2, <2>3, <3>1
    <3>2. CASE v # w
      <4>1. held[v] \in Items /\ got[v] \in Nat /\ got[v] <= attempts[held[v]]
        BY <1>t, <2>3, <3>2
      <4>2. CASE held[v] = i
        BY <2>2, <2>3, <3>2, <4>1, <4>2
      <4>3. CASE held[v] # i
        BY <2>3, <3>2, <4>1, <4>3, ZenonT(40)
      <4> QED BY <4>2, <4>3
    <3> QED BY <3>1, <3>2
  <2>5. \A v \in Workers \ {w} : pc[v] \in Busy /\ held[v] = i => got[v] <= attempts[i]
    OBVIOUS
  <2>6. \A v \in Workers \ {w} : pc[v] \in Busy /\ held[v] = i => got[v] # attempts[i] + 1
    BY <1>t, <2>2, <2>5
  <2>7. ClaimsDistinct'
    <3> SUFFICES ASSUME NEW v \in Workers, NEW u \in Workers, v # u,
                        pc'[v] \in Busy, pc'[u] \in Busy, held'[v] = held'[u]
                 PROVE  got'[v] # got'[u]
      OBVIOUS
    <3>1. CASE v # w /\ u # w
      BY <2>3, <3>1
    <3>2. CASE v = w
      BY <2>3, <2>6, <3>2
    <3>3. CASE u = w
      BY <2>3, <2>6, <3>3
    <3> QED BY <3>1, <3>2, <3>3
  <2>8. DeadOnlyWhenExhausted'
    BY <1>t, <2>1, <2>2, <2>3
  <2> QED BY <2>4, <2>7, <2>8
<1>3. ASSUME NEW w \in Workers,
             FindNothing(w) \/ Answered(w) \/ Raised(w) \/ MarkRaises(w) \/ Restart(w)
      PROVE  ClaimsInv'
  <2>1. /\ status' = status /\ attempts' = attempts /\ held' = held /\ got' = got
        /\ \A v \in Workers : pc'[v] \in Busy => pc[v] \in Busy
    BY <1>3, <1>t DEF FindNothing, Answered, Raised, MarkRaises, Restart, rows, Busy
  <2> QED BY <2>1
<1>4. ASSUME NEW w \in Workers, MarkProcessed(w) \/ Fail(w) \/ Crash(w)
      PROVE  ClaimsInv'
  <2>1. /\ attempts' = attempts
        /\ \A v \in Workers : pc'[v] \in Busy =>
              v # w /\ pc[v] \in Busy /\ held'[v] = held[v] /\ got'[v] = got[v]
    BY <1>4, <1>t DEF MarkProcessed, Fail, Crash, LetGo, rows, Busy
  <2>2. CopyNotAhead' /\ ClaimsDistinct'
    BY <2>1
  <2>3. CASE MarkProcessed(w)
    <3>1. \A i \in Items : status'[i] = "DEAD_LETTER" => status[i] = "DEAD_LETTER"
      BY <2>3, <1>t DEF MarkProcessed
    <3> QED BY <2>1, <2>2, <3>1
  <2>4. CASE Fail(w)
    <3>1. held[w] \in Items /\ got[w] <= attempts[held[w]]
      BY <2>4, <1>t DEF Fail, Busy
    <3>2. Exhausted(w) => attempts[held[w]] = MaxAttempts
      <4>1. attempts[held[w]] \in 0 .. MaxAttempts /\ got[w] \in 0 .. MaxAttempts
        BY <3>1, <1>t
      <4> QED BY <3>1, <4>1 DEF Exhausted
    <3>3. \A i \in Items : status'[i] = "DEAD_LETTER" =>
            status[i] = "DEAD_LETTER" \/ (i = held[w] /\ Exhausted(w))
      BY <2>4, <1>t DEF Fail
    <3> QED BY <2>1, <2>2, <3>2, <3>3
  <2>5. CASE Crash(w)
    BY <2>1, <2>2, <2>5 DEF Crash, rows
  <2> QED BY <1>4, <2>3, <2>4, <2>5
<1>5. ASSUME NEW i \in Items, LeaseEnds(i) \/ BackoffEnds(i) PROVE ClaimsInv'
  BY <1>5 DEF LeaseEnds, BackoffEnds
<1>6. CASE UNCHANGED workerVars
  BY <1>6 DEF workerVars
<1> QED BY <1>1, <1>2, <1>3, <1>4, <1>5, <1>6 DEF WorkerNext, Work

\* Two workers that believe they process the same event, because the lease of
\* the first ended while it was still at work, hold different attempt counts
\* (worker.py:44-55, 78-100).
THEOREM ClaimsAreDistinct == WorkerSpec => []ClaimsDistinct
<1>1. WorkerInit => ClaimsInv
  BY DEF WorkerInit, ClaimsInv, CopyNotAhead, ClaimsDistinct, DeadOnlyWhenExhausted, Busy
<1>2. ClaimsInv => ClaimsDistinct
  BY DEF ClaimsInv
<1> QED BY <1>1, <1>2, ClaimsStep, WorkerTypeCorrect, PTL DEF WorkerSpec

\* However workers overlap, an event goes to DEAD_LETTER only when the table
\* counts MaxAttempts attempts of it (worker.py:136-143).
THEOREM DeadIsExhausted == WorkerSpec => []DeadOnlyWhenExhausted
<1>1. WorkerInit => ClaimsInv
  BY DEF WorkerInit, ClaimsInv, CopyNotAhead, ClaimsDistinct, DeadOnlyWhenExhausted, Busy
<1>2. ClaimsInv => DeadOnlyWhenExhausted
  BY DEF ClaimsInv
<1> QED BY <1>1, <1>2, ClaimsStep, WorkerTypeCorrect, PTL DEF WorkerSpec
-----------------------------------------------------------------------------
(* The marking statements look at no row: what keeps them right is that    *)
(* the row is still the worker's.  Nobody reclaims it as long as a lease   *)
(* ends under a worker at work only while no other one is about to         *)
(* reclaim.  A worker alone never is: start.sh runs one.                   *)

LeasesHold ==
  \A v, w \in Workers :
    v # w /\ pc[v] = "poll" /\ pc[w] \in Busy => held[w] \notin stale

OwnInv == HolderIsCurrent /\ \A w \in Workers : pc[w] \in Busy => got[w] > 0

(* Who holds the row's own count holds the row alone.                      *)
LEMMA OwnersDiffer ==
  ASSUME ClaimsDistinct, OwnInv,
         NEW v \in Workers, NEW w \in Workers, v # w, pc[v] \in Busy, pc[w] \in Busy
  PROVE  held[v] # held[w]
BY DEF ClaimsDistinct, OwnInv, HolderIsCurrent

LEMMA OwnStep ==
  ASSUME LeasesHold, WorkerTypeOK, ClaimsDistinct, OwnInv, [WorkerNext]_workerVars
  PROVE  OwnInv'
<1> USE DEF OwnInv, HolderIsCurrent
<1>t. /\ status \in [Items -> Statuses] /\ attempts \in [Items -> 0 .. MaxAttempts]
      /\ pc \in [Workers -> {"poll", "claim", "down"} \cup Busy]
      /\ held \in [Workers -> Items \cup {NoItem}]
      /\ got \in [Workers -> 0 .. MaxAttempts]
      /\ \A w \in Workers : pc[w] \in Busy => held[w] \in Items
  BY DEF WorkerTypeOK
<1>1. ASSUME NEW w \in Workers, Reclaim(w) PROVE OwnInv'
  <2>1. /\ attempts' = attempts /\ held' = held /\ got' = got
        /\ \A v \in Workers : pc'[v] \in Busy => v # w /\ pc[v] \in Busy
        /\ status' = [i \in Items |-> IF i \in Reclaimable THEN "PENDING" ELSE status[i]]
    BY <1>1, <1>t DEF Reclaim, Busy
  <2>2. \A v \in Workers : pc'[v] \in Busy => held[v] \in Items \ Reclaimable
    BY <1>1, <1>t, <2>1 DEF LeasesHold, Reclaim, Reclaimable
  <2> QED BY <2>1, <2>2
<1>2. ASSUME NEW w \in Workers, Claim(w) PROVE OwnInv'
  <2>1. PICK i \in Claimable :
          /\ status' = [status EXCEPT ![i] = "PROCESSING"]
          /\ attempts' = [attempts EXCEPT ![i] = @ + 1]
          /\ held' = [held EXCEPT ![w] = i]
          /\ got' = [got EXCEPT ![w] = attempts[i] + 1]
    BY <1>2 DEF Claim
  <2>2. i \in Items /\ attempts[i] \in Nat /\ status[i] = "PENDING"
    BY <1>t DEF Claimable
  <2>3. held'[w] = i /\ got'[w] = attempts[i] + 1
    BY <1>t, <2>1
  <2>4. status'[i] = "PROCESSING" /\ attempts'[i] = attempts[i] + 1
    BY <1>t, <2>1, <2>2
  <2>5. ASSUME NEW v \in Workers \ {w}, pc'[v] \in Busy
        PROVE  /\ status'[held'[v]] = "PROCESSING"
               /\ got'[v] = attempts'[held'[v]] /\ got'[v] > 0
    <3>1. pc[v] \in Busy /\ held'[v] = held[v] /\ got'[v] = got[v]
      BY <1>2, <1>t, <2>1, <2>5 DEF Claim
    <3>2. held[v] \in Items \ {i}
      BY <1>t, <2>2, <3>1
    <3> QED BY <1>t, <2>1, <3>1, <3>2
  <2> QED BY <2>2, <2>3, <2>4, <2>5
<1>3. ASSUME NEW w \in Workers,
             FindNothing(w) \/ Answered(w) \/ Raised(w) \/ MarkRaises(w) \/ Restart(w)
      PROVE  OwnInv'
  <2>1. /\ status' = status /\ attempts' = attempts /\ held' = held /\ got' = got
        /\ \A v \in Workers : pc'[v] \in Busy => pc[v] \in Busy
    BY <1>3, <1>t DEF FindNothing, Answered, Raised, MarkRaises, Restart, rows, Busy
  <2> QED BY <2>1
<1>4. ASSUME NEW w \in Workers, MarkProcessed(w) \/ Fail(w) \/ Crash(w) PROVE OwnInv'
  <2>1. /\ attempts' = attempts
        /\ \A v \in Workers : pc'[v] \in Busy =>
              v # w /\ pc[v] \in Busy /\ held'[v] = held[v] /\ got'[v] = got[v]
    BY <1>4, <1>t DEF MarkProcessed, Fail, Crash, LetGo, rows, Busy
  <2>2. status' = status
        \/ /\ pc[w] \in Busy
           /\ \E s : status' = [status EXCEPT ![held[w]] = s]
    BY <1>4 DEF MarkProcessed, Fail, Crash, rows, Busy
  <2>3. \A v \in Workers : pc'[v] \in Busy => status'[held[v]] = status[held[v]]
    BY <1>t, <2>1, <2>2, OwnersDiffer
  <2> QED BY <2>1, <2>3
<1>5. ASSUME NEW i \in Items, LeaseEnds(i) \/ BackoffEnds(i) PROVE OwnInv'
  BY <1>5 DEF LeaseEnds, BackoffEnds
<1>6. CASE UNCHANGED workerVars
  BY <1>6 DEF workerVars
<1> QED BY <1>1, <1>2, <1>3, <1>4, <1>5, <1>6 DEF WorkerNext, Work

LEMMA OwnInvariant ==
  WorkerSpec /\ []LeasesHold => [](WorkerTypeOK /\ ClaimsDistinct /\ OwnInv)
<1>1. WorkerInit => OwnInv
  BY DEF WorkerInit, OwnInv, HolderIsCurrent, Busy
<1>2. LeasesHold /\ WorkerTypeOK /\ ClaimsDistinct /\ OwnInv /\ [WorkerNext]_workerVars
        => OwnInv'
  BY OwnStep
<1> QED BY <1>1, <1>2, WorkerTypeCorrect, ClaimsAreDistinct, PTL DEF WorkerSpec

\* Nobody works on an event another worker has taken over, and what a worker
\* holds is claimed in the table under the count it keeps (worker.py:68-126).
THEOREM HoldersAreCurrent == WorkerSpec /\ []LeasesHold => []HolderIsCurrent
<1>1. OwnInv => HolderIsCurrent
  BY DEF OwnInv
<1> QED BY <1>1, OwnInvariant, PTL

\* How one step of the table looks to the task queue.
LEMMA QueueStep ==
  ASSUME WorkerTypeOK, OwnInv, [WorkerNext]_workerVars
  PROVE  \/ attempts' = attempts /\ \A i \in Items : OutcomeOf(status'[i]) = OutcomeOf(status[i])
         \/ \E i \in Items : Queue!Attempt(i) \/ Queue!Finish(i) \/ Queue!GiveUp(i)
<1> DEFINE Goal ==
      \/ attempts' = attempts /\ \A i \in Items : OutcomeOf(status'[i]) = OutcomeOf(status[i])
      \/ \E i \in Items : Queue!Attempt(i) \/ Queue!Finish(i) \/ Queue!GiveUp(i)
<1> USE WorkerAssumption DEF OutcomeOf
<1>t. /\ status \in [Items -> Statuses] /\ attempts \in [Items -> 0 .. MaxAttempts]
      /\ got \in [Workers -> 0 .. MaxAttempts]
  BY DEF WorkerTypeOK
<1>h. \A w \in Workers : pc[w] \in Busy =>
        /\ held[w] \in Items /\ status[held[w]] = "PROCESSING"
        /\ got[w] = attempts[held[w]] /\ got[w] > 0
  BY DEF WorkerTypeOK, OwnInv, HolderIsCurrent
<1>1. ASSUME NEW w \in Workers, Reclaim(w) PROVE Goal
  BY <1>1, <1>t DEF Reclaim, Reclaimable
<1>2. ASSUME NEW w \in Workers, Claim(w) PROVE Goal
  <2>1. PICK i \in Claimable :
          /\ status' = [status EXCEPT ![i] = "PROCESSING"]
          /\ attempts' = [attempts EXCEPT ![i] = @ + 1]
    BY <1>2 DEF Claim
  <2>2. i \in Items /\ status[i] = "PENDING" /\ attempts[i] < MaxAttempts
    BY DEF Claimable
  <2>3. \A j \in Items : OutcomeOf(status'[j]) = OutcomeOf(status[j])
    BY <1>t, <2>1, <2>2
  <2>4. Queue!Attempt(i)
    BY <2>1, <2>2, <2>3 DEF Queue!Attempt
  <2> QED BY <2>2, <2>4
<1>3. ASSUME NEW w \in Workers,
             FindNothing(w) \/ Answered(w) \/ Raised(w) \/ MarkRaises(w)
             \/ Restart(w) \/ Crash(w)
      PROVE  Goal
  BY <1>3 DEF FindNothing, Answered, Raised, MarkRaises, Restart, Crash, rows
<1>4. ASSUME NEW w \in Workers, MarkProcessed(w) PROVE Goal
  <2>1. /\ held[w] \in Items /\ status[held[w]] = "PROCESSING"
        /\ attempts[held[w]] > 0 /\ attempts' = attempts
        /\ status' = [status EXCEPT ![held[w]] = "PROCESSED"]
    BY <1>4, <1>h DEF MarkProcessed, Busy
  <2>2. [i \in Items |-> OutcomeOf(status'[i])]
          = [[i \in Items |-> OutcomeOf(status[i])] EXCEPT ![held[w]] = "done"]
    BY <1>t, <2>1
  <2>3. PICK i \in Items : i = held[w]
    BY <2>1
  <2>4. Queue!Finish(i)
    BY <2>1, <2>2, <2>3 DEF Queue!Finish
  <2> QED BY <2>4
<1>5. ASSUME NEW w \in Workers, Fail(w) PROVE Goal
  <2>1. /\ held[w] \in Items /\ status[held[w]] = "PROCESSING"
        /\ got[w] = attempts[held[w]] /\ attempts' = attempts
        /\ status' = [status EXCEPT ![held[w]] =
                         IF Exhausted(w) THEN "DEAD_LETTER" ELSE "PENDING"]
    BY <1>5, <1>h DEF Fail, Busy
  <2>2. CASE Exhausted(w)
    <3>1. attempts[held[w]] \in 0 .. MaxAttempts /\ attempts[held[w]] >= MaxAttempts
      BY <1>t, <2>1, <2>2 DEF Exhausted
    <3>2. attempts[held[w]] = MaxAttempts
      BY <3>1
    <3>3. [i \in Items |-> OutcomeOf(status'[i])]
            = [[i \in Items |-> OutcomeOf(status[i])] EXCEPT ![held[w]] = "dead"]
      BY <1>t, <2>1, <2>2
    <3>4. PICK i \in Items : i = held[w]
      BY <2>1
    <3>5. Queue!GiveUp(i)
      BY <2>1, <3>2, <3>3, <3>4 DEF Queue!GiveUp
    <3> QED BY <3>5
  <2>3. CASE ~Exhausted(w)
    BY <1>t, <2>1, <2>3
  <2> QED BY <2>2, <2>3
<1>6. ASSUME NEW i \in Items, LeaseEnds(i) \/ BackoffEnds(i) PROVE Goal
  BY <1>6 DEF LeaseEnds, BackoffEnds
<1>7. CASE UNCHANGED workerVars
  BY <1>7 DEF workerVars
<1> QED BY <1>1, <1>2, <1>3, <1>4, <1>5, <1>6, <1>7 DEF WorkerNext, Work

\* As long as the leases hold, the outbox implements the queue its docstring
\* describes for any number of workers: initial states and every step, a crash
\* between any two statements included.
THEOREM OutboxImplementsTaskQueue ==
  WorkerSpec /\ []LeasesHold => ImplementsTaskQueue
<1>1. WorkerInit => Queue!QueueInit
  BY DEF WorkerInit, Queue!QueueInit, OutcomeOf
<1>2. WorkerTypeOK /\ OwnInv /\ [WorkerNext]_workerVars
        => [Queue!QueueNext]_<<[i \in Items |-> OutcomeOf(status[i])], attempts>>
  BY QueueStep DEF Queue!QueueNext
<1> QED BY <1>1, <1>2, OwnInvariant, PTL
        DEF WorkerSpec, ImplementsTaskQueue, Queue!QueueSpec

\* As long as the leases hold, a settled event is final (worker.py:121-143).
THEOREM SettledStaysSettled == WorkerSpec /\ []LeasesHold => SettledIsFinal
<1>1. ASSUME WorkerTypeOK, OwnInv, [WorkerNext]_workerVars
      PROVE  \A i \in Items : Settled(i) => status'[i] = status[i]
  <2> SUFFICES ASSUME NEW i \in Items, Settled(i) PROVE status'[i] = status[i]
    OBVIOUS
  <2>t. /\ status \in [Items -> Statuses] /\ i \notin Reclaimable /\ i \notin Claimable
        /\ \A w \in Workers : pc[w] \in Busy => held[w] # i
    BY <1>1 DEF WorkerTypeOK, Settled, Reclaimable, Claimable, OwnInv, HolderIsCurrent
  <2>1. ASSUME NEW w \in Workers, Reclaim(w) PROVE status'[i] = status[i]
    BY <2>1, <2>t DEF Reclaim
  <2>2. ASSUME NEW w \in Workers, Claim(w) PROVE status'[i] = status[i]
    BY <2>2, <2>t DEF Claim
  <2>3. ASSUME NEW w \in Workers, MarkProcessed(w) \/ Fail(w)
        PROVE  status'[i] = status[i]
    BY <2>3, <2>t DEF MarkProcessed, Fail, Busy
  <2>4. ASSUME NEW w \in Workers,
               FindNothing(w) \/ Answered(w) \/ Raised(w) \/ MarkRaises(w)
               \/ Restart(w) \/ Crash(w)
        PROVE  status'[i] = status[i]
    BY <2>4 DEF FindNothing, Answered, Raised, MarkRaises, Restart, Crash, rows
  <2>5. ASSUME NEW j \in Items, LeaseEnds(j) \/ BackoffEnds(j) PROVE status' = status
    BY <2>5 DEF LeaseEnds, BackoffEnds
  <2>6. CASE UNCHANGED workerVars
    BY <2>6 DEF workerVars
  <2> QED BY <1>1, <2>1, <2>2, <2>3, <2>4, <2>5, <2>6 DEF WorkerNext, Work
<1>2. (WorkerTypeOK /\ OwnInv) /\ [WorkerNext]_workerVars
        => [\A i \in Items : Settled(i) => status'[i] = status[i]]_workerVars
  BY <1>1
<1> QED BY <1>2, OwnInvariant, PTL DEF WorkerSpec, SettledIsFinal

(* Where no work outlasts its lease, the lease of what is held has not     *)
(* ended: LeasesHold is then no assumption.                                *)
HeldIsFresh == \A w \in Workers : pc[w] \in Busy => held[w] \notin stale

LEMMA FreshStep ==
  ASSUME ~LiveLapse, WorkerTypeOK, HeldIsFresh, [WorkerNext]_workerVars
  PROVE  HeldIsFresh'
<1> USE DEF HeldIsFresh
<1>t. /\ pc \in [Workers -> {"poll", "claim", "down"} \cup Busy]
      /\ held \in [Workers -> Items \cup {NoItem}]
  BY DEF WorkerTypeOK
<1>1. ASSUME NEW w \in Workers, Claim(w) PROVE HeldIsFresh'
  <2>1. PICK i \in Claimable : held' = [held EXCEPT ![w] = i] /\ stale' = stale \ {i}
    BY <1>1 DEF Claim
  <2>2. /\ held'[w] = i
        /\ \A v \in Workers \ {w} :
             held'[v] = held[v] /\ (pc'[v] \in Busy => pc[v] \in Busy)
    BY <1>1, <1>t, <2>1 DEF Claim
  <2> QED BY <2>1, <2>2
<1>2. ASSUME NEW w \in Workers,
             Reclaim(w) \/ FindNothing(w) \/ Answered(w) \/ Raised(w) \/ MarkRaises(w)
             \/ Restart(w) \/ MarkProcessed(w) \/ Fail(w) \/ Crash(w)
      PROVE  HeldIsFresh'
  <2>1. /\ stale' \subseteq stale
        /\ \A v \in Workers : pc'[v] \in Busy => pc[v] \in Busy /\ held'[v] = held[v]
    BY <1>2, <1>t DEF Reclaim, FindNothing, Answered, Raised, MarkRaises, Restart,
                      MarkProcessed, Fail, Crash, LetGo, rows, Busy
  <2> QED BY <2>1
<1>3. ASSUME NEW i \in Items, LeaseEnds(i) \/ BackoffEnds(i) PROVE HeldIsFresh'
  BY <1>3 DEF LeaseEnds, BackoffEnds
<1>4. CASE UNCHANGED workerVars
  BY <1>4 DEF workerVars
<1> QED BY <1>1, <1>2, <1>3, <1>4 DEF WorkerNext, Work

\* Any number of workers, of which no one outlasts its lease: whoever polls,
\* reclaims or dies meanwhile, all three hold (worker.py:6, 10).
THEOREM LeasesAreEnough ==
  ASSUME ~LiveLapse
  PROVE  WorkerSpec => []HolderIsCurrent /\ SettledIsFinal /\ ImplementsTaskQueue
<1>1. WorkerInit => HeldIsFresh
  BY DEF WorkerInit, HeldIsFresh
<1>2. WorkerTypeOK /\ HeldIsFresh /\ [WorkerNext]_workerVars => HeldIsFresh'
  BY FreshStep
<1>3. HeldIsFresh => LeasesHold
  BY DEF HeldIsFresh, LeasesHold
<1>4. WorkerSpec => []LeasesHold
  BY <1>1, <1>2, <1>3, WorkerTypeCorrect, PTL DEF WorkerSpec
<1> QED BY <1>4, HoldersAreCurrent, SettledStaysSettled, OutboxImplementsTaskQueue, PTL

\* One worker, which is what start.sh runs: whatever crashes and however long
\* it works, all three hold, for its leases end under nobody else.
THEOREM OneWorkerIsEnough ==
  ASSUME NEW w \in Workers, Workers = {w}
  PROVE  WorkerSpec => []HolderIsCurrent /\ SettledIsFinal /\ ImplementsTaskQueue
<1>1. LeasesHold
  BY DEF LeasesHold
<1> QED BY <1>1, HoldersAreCurrent, SettledStaysSettled, OutboxImplementsTaskQueue, PTL
=============================================================================
