--------------------------- MODULE MCWebhookIngest ---------------------------
(***************************************************************************)
(* Instances of WebhookIngest for TLC: up to three deliveries of one event.*)
(***************************************************************************)
EXTENDS WebhookIngest

CONSTANTS d1, d2, d3, h1, h2

\* One delivery names the event but carries other bytes.
MCOtherHash == [d \in Deliveries |-> IF d = d1 THEN h2 ELSE h1]
=============================================================================
