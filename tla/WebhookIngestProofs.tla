------------------------- MODULE WebhookIngestProofs -------------------------
(***************************************************************************)
(* Proofs about WebhookIngest, for any number of deliveries, payloads and  *)
(* crashes, whatever fails.                                                *)
(***************************************************************************)
EXTENDS WebhookIngest, TLAPS

\* What a handler has written by the time it reaches a statement.
HandlerProgress ==
  \A d \in Deliveries :
    /\ pc[d] \in {"upserting", "enqueueing", "marking"} => event # NoHash
    /\ pc[d] = "enqueueing" => intent

IngestInv == WebhookTypeOK /\ HandlerProgress /\ DedupNeverAhead /\ TaskIsGrounded

LEMMA InitEstablishes == WebhookInit => IngestInv
<1> SUFFICES ASSUME WebhookInit PROVE IngestInv
  OBVIOUS
<1>1. pc \in [Deliveries -> Places] /\ crashes \in 0 .. MaxCrashes
  BY WebhookAssumption DEF WebhookInit, Places, InHandler
<1>2. WebhookTypeOK
  BY <1>1, Zenon DEF WebhookInit, WebhookTypeOK
<1>3. HandlerProgress
  BY DEF WebhookInit, HandlerProgress
<1>4. QED
  BY <1>2, <1>3 DEF WebhookInit, IngestInv, DedupNeverAhead, TaskIsGrounded

\* The handlers write the event before anything else, and nothing removes a row.
LEMMA StepPreserves == IngestInv /\ [WebhookNext]_webhookVars => IngestInv'
<1> SUFFICES ASSUME IngestInv, [WebhookNext]_webhookVars
             PROVE  IngestInv'
  OBVIOUS
<1> USE WebhookAssumption
    DEF IngestInv, WebhookTypeOK, HandlerProgress, DedupNeverAhead, TaskIsGrounded,
        Places, InHandler, Goto
<1>1. CASE UNCHANGED webhookVars
  BY <1>1 DEF webhookVars
<1>2. ASSUME NEW d \in Deliveries, Send(d) PROVE IngestInv'
  BY <1>2 DEF Send
<1>3. ASSUME NEW d \in Deliveries, Check(d) PROVE IngestInv'
  BY <1>3 DEF Check
<1>4. ASSUME NEW d \in Deliveries, Insert(d) PROVE IngestInv'
  BY <1>4 DEF Insert
<1>5. ASSUME NEW d \in Deliveries, Upsert(d) PROVE IngestInv'
  BY <1>5 DEF Upsert
<1>6. ASSUME NEW d \in Deliveries, Enqueue(d) PROVE IngestInv'
  BY <1>6 DEF Enqueue
<1>7. ASSUME NEW d \in Deliveries, Mark(d) PROVE IngestInv'
  BY <1>7 DEF Mark
<1>8. ASSUME NEW d \in Deliveries, StatementRaises(d) PROVE IngestInv'
  BY <1>8 DEF StatementRaises
<1>9. CASE DedupExpires
  BY <1>9 DEF DedupExpires
<1>10. CASE CrashApi
  BY <1>10 DEF CrashApi
<1>11. QED
  BY <1>1, <1>2, <1>3, <1>4, <1>5, <1>6, <1>7, <1>8, <1>9, <1>10
  DEF WebhookNext, Handle

LEMMA IngestInvariant == WebhookSpec => []IngestInv
  BY InitEstablishes, StepPreserves, PTL DEF WebhookSpec

\* Every variable keeps its type.
THEOREM WebhookTypeCorrect == WebhookSpec => []WebhookTypeOK
  BY IngestInvariant, PTL DEF IngestInv

\* No dedup key outruns the event it speaks of, so no delivery is turned away
\* for an event that was never persisted.
THEOREM DedupIsNeverAhead == WebhookSpec => []DedupNeverAhead
  BY IngestInvariant, PTL DEF IngestInv

\* A task in the outbox has its event and its intent.
THEOREM TasksAreGrounded == WebhookSpec => []TaskIsGrounded
  BY IngestInvariant, PTL DEF IngestInv

----------------------------------------------------------------------------
\* A persisted event without a task has a delivery to show for it: one that is
\* about to write the task, or one that was not acknowledged and never will be.
SomebodyIsLeft ==
  event # NoHash /\ Supported /\ ~task =>
    \E d \in Deliveries : pc[d] \in {"upserting", "enqueueing", "refused", "lost"}

LEMMA LeftStep ==
  WebhookTypeOK /\ SomebodyIsLeft /\ [WebhookNext]_webhookVars => SomebodyIsLeft'
<1> SUFFICES ASSUME WebhookTypeOK, SomebodyIsLeft, [WebhookNext]_webhookVars,
                    event' # NoHash, Supported, ~task'
             PROVE  \E d \in Deliveries :
                      pc'[d] \in {"upserting", "enqueueing", "refused", "lost"}
  BY DEF SomebodyIsLeft
<1>0. pc \in [Deliveries -> Places]
  BY DEF WebhookTypeOK
<1>1. CASE event = NoHash
  <2>1. PICK d \in Deliveries : Insert(d)
    BY <1>1 DEF WebhookNext, Send, Handle, Check, Upsert, Enqueue, Mark,
                StatementRaises, DedupExpires, CrashApi, webhookVars
  <2>2. pc'[d] = "upserting"
    BY <1>0, <1>1, <2>1 DEF Insert, Goto
  <2> QED BY <2>2
<1>2. CASE event # NoHash
  <2>1. ~task
    BY DEF WebhookNext, Send, Handle, Check, Insert, Upsert, Enqueue, Mark,
           StatementRaises, DedupExpires, CrashApi, webhookVars
  <2>2. PICK d \in Deliveries : pc[d] \in {"upserting", "enqueueing", "refused", "lost"}
    BY <1>2, <2>1 DEF SomebodyIsLeft
  <2>3. ASSUME NEW e \in Deliveries,
               Send(e) \/ Check(e) \/ Insert(e) \/ Mark(e)
        PROVE  pc'[d] = pc[d]
    BY <1>0, <2>2, <2>3 DEF Send, Check, Insert, Mark, Goto
  <2>4. ASSUME NEW e \in Deliveries, Upsert(e) \/ Enqueue(e) \/ StatementRaises(e)
        PROVE  pc'[d] \in {"upserting", "enqueueing", "refused", "lost"}
    BY <1>0, <2>2, <2>4 DEF Upsert, Enqueue, StatementRaises, Goto
  <2>5. CASE CrashApi
    BY <2>2, <2>5 DEF CrashApi, InHandler
  <2>6. CASE DedupExpires \/ UNCHANGED webhookVars
    BY <2>2, <2>6 DEF DedupExpires, webhookVars
  <2> QED BY <2>2, <2>3, <2>4, <2>5, <2>6 DEF WebhookNext, Handle
<1> QED BY <1>1, <1>2

\* Where every delivery was acknowledged the task is there, however many of
\* them overlapped, whatever Redis forgot and whichever was turned away by the
\* unique constraint before the first had enqueued.
THEOREM FaultFreeEventsAreEnqueued == WebhookSpec => []FaultFreeIsEnqueued
<1>1. WebhookInit => SomebodyIsLeft
  BY DEF WebhookInit, SomebodyIsLeft
<1>2. WebhookTypeOK /\ SomebodyIsLeft => FaultFreeIsEnqueued
  BY WebhookAssumption DEF SomebodyIsLeft, FaultFreeIsEnqueued, WebhookTypeOK
<1> QED BY <1>1, <1>2, LeftStep, WebhookTypeCorrect, PTL DEF WebhookSpec
=============================================================================
