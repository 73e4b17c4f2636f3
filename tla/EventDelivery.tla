--------------------------- MODULE EventDelivery ---------------------------
(***************************************************************************)
(* What publishing an event promises: the event enters the log once, then  *)
(* each of its handlers is settled in the order of registration and never  *)
(* twice, as handled or as dead-lettered.  The publication is delivered    *)
(* when all of them are settled; it can be abandoned before that, and what *)
(* was abandoned is never taken up again.  Module EventDispatch implements *)
(* this.                                                                   *)
(***************************************************************************)
EXTENDS Naturals, Sequences

CONSTANTS Events, Registered

VARIABLES
    log,        \* events that are durable
    phase,      \* "unpublished", "delivering", "delivered" or "abandoned"
    outcome     \* per event, how the first handlers were settled

deliveryVars == <<log, phase, outcome>>

DeliveryInit ==
    /\ log = {}
    /\ phase = [e \in Events |-> "unpublished"]
    /\ outcome = [e \in Events |-> <<>>]

Publish(e) ==
    /\ phase[e] = "unpublished"
    /\ log' = log \cup {e}
    /\ phase' = [phase EXCEPT ![e] = "delivering"]
    /\ UNCHANGED outcome

\* The publication failed; nobody knows whether the event is in the log.
PublishInDoubt(e) ==
    /\ phase[e] = "unpublished"
    /\ log' \in {log, log \cup {e}}
    /\ phase' = [phase EXCEPT ![e] = "abandoned"]
    /\ UNCHANGED outcome

Settle(e, result) ==
    /\ phase[e] = "delivering" /\ e \in log
    /\ Len(outcome[e]) < Len(Registered[e])
    /\ outcome' = [outcome EXCEPT ![e] = Append(@, result)]
    /\ UNCHANGED <<log, phase>>

Finish(e) ==
    /\ phase[e] = "delivering"
    /\ Len(outcome[e]) = Len(Registered[e])
    /\ phase' = [phase EXCEPT ![e] = "delivered"]
    /\ UNCHANGED <<log, outcome>>

\* The process ends, or a dead letter cannot be written: any number of
\* publications is abandoned at once.
Abandon(lost) ==
    /\ \A e \in lost : phase[e] = "delivering"
    /\ phase' = [e \in Events |-> IF e \in lost THEN "abandoned" ELSE phase[e]]
    /\ UNCHANGED <<log, outcome>>

DeliveryNext ==
    \/ \E e \in Events :
         \/ Publish(e) \/ PublishInDoubt(e) \/ Finish(e)
         \/ \E result \in {"handled", "dead"} : Settle(e, result)
    \/ \E lost \in SUBSET Events : Abandon(lost)

DeliverySpec == DeliveryInit /\ [][DeliveryNext]_deliveryVars

=============================================================================
