-------------------------- MODULE PaymentLifecycle --------------------------
(***************************************************************************)
(* What core/state_machine.py promises of payment_intents.current_state:   *)
(* every change of it is one application of the transition function to the *)
(* state the row holds at that moment.  The resolver, which reads the row, *)
(* spends a minute of network calls and writes it back, is shown to        *)
(* implement this machine when its lock is exclusive (MCResolution).       *)
(***************************************************************************)
EXTENDS PaymentStates

CONSTANTS Events,      \* the events the writers of the row raise
          InitStates   \* the states in which a row is inserted

VARIABLE state

LifecycleInit == state \in InitStates

Deliver(event) == state' = Transition(state, event)

LifecycleSpec == LifecycleInit /\ [][\E e \in Events : Deliver(e)]_state
=============================================================================
