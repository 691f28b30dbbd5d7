---------------------------- MODULE WebhookIngest ----------------------------
(***************************************************************************)
(* api/webhook_receiver.py: the deliveries of one provider event, each an  *)
(* HTTP request that the API process serves concurrently with the others.  *)
(* A handler asks the dedup key, inserts the event, upserts the intent,    *)
(* enqueues the outbox task and writes the dedup key; there is no          *)
(* transaction around the three statements.  The provider delivers again   *)
(* until it sees a delivery acknowledged (answered 200).                   *)
(*                                                                         *)
(* Requests that the signature check or the parser turns away change       *)
(* nothing and are left out.  A payload is known by its hash; MaxCrashes   *)
(* bounds how often the API process dies.                                  *)
(***************************************************************************)
EXTENDS Naturals

CONSTANTS Deliveries, Hashes, NoHash,
          HashOf,        \* the payload each delivery carries
          Supported,     \* is the event one of WEBHOOK_FLOW_MAP?
          RedisFails, DbFails, MaxCrashes

ASSUME WebhookAssumption ==
  /\ HashOf \in [Deliveries -> Hashes] /\ NoHash \notin Hashes
  /\ {Supported, RedisFails, DbFails} \subseteq BOOLEAN
  /\ MaxCrashes \in Nat

VARIABLES dedup,     \* the Redis key event:dedup:...
          memory,    \* the same key in the memory of the API process
          event,     \* the payload hash of the row in payment_events
          intent,    \* is the intent's row there?
          task,      \* is the RESOLVE_INTENT row in outbox_events?
          pc, crashes

webhookVars == <<dedup, memory, event, intent, task, pc, crashes>>

InHandler == {"checking", "inserting", "upserting", "enqueueing", "marking"}
Places == {"unsent", "acknowledged", "refused", "lost"} \cup InHandler

WebhookTypeOK ==
  /\ dedup \in Hashes \cup {NoHash}
  /\ memory \in Hashes \cup {NoHash} /\ event \in Hashes \cup {NoHash}
  /\ intent \in BOOLEAN /\ task \in BOOLEAN
  /\ pc \in [Deliveries -> Places]
  /\ crashes \in 0 .. MaxCrashes

WebhookInit ==
  /\ dedup = NoHash /\ memory = NoHash /\ event = NoHash
  /\ intent \in BOOLEAN /\ task = FALSE
  /\ pc = [d \in Deliveries |-> "unsent"] /\ crashes = 0

Goto(d, place) == pc' = [pc EXCEPT ![d] = place]

Send(d) ==
  /\ pc[d] = "unsent" /\ \A e \in Deliveries : pc[e] # "acknowledged"
  /\ Goto(d, "checking")
  /\ UNCHANGED <<dedup, memory, event, intent, task, crashes>>

\* Fault variant: the check takes the key, as a lock would.
CheckClaims(d) ==
  /\ pc[d] = "checking"
  /\ Goto(d, IF dedup = NoHash THEN "inserting" ELSE "acknowledged")
  /\ dedup' = IF dedup = NoHash THEN HashOf[d] ELSE dedup
  /\ UNCHANGED <<memory, event, intent, task, crashes>>

\* verify_idempotency_payload: Redis answers, or the process' own memory does.
Check(d) ==
  /\ pc[d] = "checking"
  /\ \E stored \in {dedup} \cup (IF RedisFails THEN {memory} ELSE {}) :
       Goto(d, IF stored = NoHash THEN "inserting"
               ELSE IF stored = HashOf[d] THEN "acknowledged" ELSE "refused")
  /\ UNCHANGED <<dedup, memory, event, intent, task, crashes>>

\* Fault variant: a duplicate is answered before the task is looked for and
\* the first delivery skips to the dedup key.
InsertOnly(d) ==
  /\ pc[d] = "inserting"
  /\ Goto(d, "marking")
  /\ event' = IF event = NoHash THEN HashOf[d] ELSE event
  /\ UNCHANGED <<dedup, memory, intent, task, crashes>>

\* The INSERT of the event; the unique constraint turns a duplicate away.
Insert(d) ==
  /\ pc[d] = "inserting"
  /\ Goto(d, IF event = NoHash THEN "upserting" ELSE "marking")
  /\ event' = IF event = NoHash THEN HashOf[d] ELSE event
  /\ UNCHANGED <<dedup, memory, intent, task, crashes>>

\* Fault variant: the intent is left to the resolver.
UpsertSkipped(d) ==
  /\ pc[d] = "upserting"
  /\ Goto(d, IF Supported THEN "enqueueing" ELSE "marking")
  /\ UNCHANGED <<dedup, memory, event, intent, task, crashes>>

Upsert(d) ==
  /\ pc[d] = "upserting"
  /\ Goto(d, IF Supported THEN "enqueueing" ELSE "marking")
  /\ intent' = TRUE
  /\ UNCHANGED <<dedup, memory, event, task, crashes>>

Enqueue(d) ==
  /\ pc[d] = "enqueueing" /\ Goto(d, "marking")
  /\ task' = TRUE
  /\ UNCHANGED <<dedup, memory, event, intent, crashes>>

\* Fault variant: the caller forgets the hash and the key is set to a bare "1".
MarkUnhashed(d) ==
  /\ pc[d] = "marking" /\ Goto(d, "acknowledged")
  /\ dedup' = "1"
  /\ UNCHANGED <<memory, event, intent, task, crashes>>

\* mark_event_processed: SET; if it raises, applied or not, the memory too.
Mark(d) ==
  /\ pc[d] = "marking" /\ Goto(d, "acknowledged")
  /\ \/ dedup' = HashOf[d] /\ memory' = memory
     \/ RedisFails /\ memory' = HashOf[d] /\ dedup' \in {dedup, HashOf[d]}
  /\ UNCHANGED <<event, intent, task, crashes>>

\* A statement raises: the answer is 500 and what was written stays.
StatementRaises(d) ==
  /\ DbFails
  /\ pc[d] \in {"inserting", "upserting", "enqueueing"}
  /\ Goto(d, "refused")
  /\ UNCHANGED <<dedup, memory, event, intent, task, crashes>>

\* The key's hour is over, or Redis loses its data.
DedupExpires ==
  /\ dedup # NoHash /\ dedup' = NoHash
  /\ UNCHANGED <<memory, event, intent, task, pc, crashes>>

CrashApi ==
  /\ crashes < MaxCrashes /\ crashes' = crashes + 1
  /\ pc' = [d \in Deliveries |-> IF pc[d] \in InHandler THEN "lost" ELSE pc[d]]
  /\ memory' = NoHash
  /\ UNCHANGED <<dedup, event, intent, task>>

Handle(d) == Check(d) \/ Insert(d) \/ Upsert(d) \/ Enqueue(d) \/ Mark(d)

WebhookNext ==
  \/ \E d \in Deliveries : Send(d) \/ Handle(d) \/ StatementRaises(d)
  \/ DedupExpires \/ CrashApi

WebhookSpec == WebhookInit /\ [][WebhookNext]_webhookVars
-----------------------------------------------------------------------------
\* The dedup key, in Redis or in memory, never speaks of an event that
\* PostgreSQL does not hold: a crash after the key but before the event would
\* turn every later delivery away.
DedupNeverAhead == dedup # NoHash \/ memory # NoHash => event # NoHash

\* A task in the outbox has its event and its intent: the worker that claims
\* it at once finds the row to resolve.
TaskIsGrounded == task => event # NoHash /\ intent

\* If every delivery so far was acknowledged, the event has its task: deliveries
\* that overlap, and a Redis that fails or forgets, lose nothing.
FaultFreeIsEnqueued ==
  (\A d \in Deliveries : pc[d] \in {"unsent", "acknowledged"}) /\ event # NoHash
    => task \/ ~Supported
=============================================================================
