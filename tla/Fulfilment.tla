------------------------------ MODULE Fulfilment ------------------------------
(***************************************************************************)
(* What happens to a paid order at the provider: the handoff that follows  *)
(* its confirmation, the provider's decision, and the production, shipment *)
(* and delivery events an admin ingests.                                   *)
(***************************************************************************)
EXTENDS OrderStore

Action(event) ==
  CASE event \in ProductionEvents -> "provider.production_progress.record"
    [] event \in ShipmentEvents -> "provider.shipment.record"
    [] event \in DeliveryEvents -> "provider.delivery.record"

-------------------------------------------------------------------------------
(* Provider handoff                                                        *)

(***************************************************************************)
(* _skip_code and _validate_transmission_eligibility.  The commit of the   *)
(* confirmation expired the cached order, so the status is read afresh.    *)
(***************************************************************************)
EligibleForHandoff(o) ==
  /\ CanHandOff("verified", orders[o].status)
  /\ orders[o].payment_provider_reference # None

(* The handler is done with its order, and no other code path retries.     *)
EndHandoff(o) == handoffPending' = handoffPending \ {o}

(***************************************************************************)
(* transmit_paid_order with an adapter that answers SENT: the provider has *)
(* the order (one order per idempotency key), then status and reference    *)
(* are committed.                                                          *)
(***************************************************************************)
HandoffSent(o) ==
  /\ o \in handoffPending
  /\ EligibleForHandoff(o)
  /\ CanTransitionOrder(orders[o].status, "sent_to_provider",
                        "provider_handoff_sent", None)
  /\ providerOrders' = providerOrders \cup {o}
  /\ WriteHandoffSent(o)
  /\ EndHandoff(o)
  /\ UNCHANGED <<paymentVars, auditLogs, providerDecisions>>

(* The adapter answered, but the process died or the commit failed.        *)
HandoffLostAfterTransmission(o) ==
  /\ o \in handoffPending
  /\ EligibleForHandoff(o)
  /\ providerOrders' = providerOrders \cup {o}
  /\ EndHandoff(o)
  /\ UNCHANGED <<orders, paymentVars, auditLogs, providerDecisions>>

(***************************************************************************)
(* Skipped (the order left confirmed in between), rejected by the payload  *)
(* or assignment checks, answered FAILED by the adapter, or a process that *)
(* died before the call: the order stays as it is.                         *)
(***************************************************************************)
HandoffNotSent(o) ==
  /\ o \in handoffPending
  /\ EndHandoff(o)
  /\ UNCHANGED <<orders, paymentVars, auditLogs, providerVars>>

-------------------------------------------------------------------------------
(* Provider acceptance                                                     *)

DecisionTarget(d) == IF d = "accept" THEN "accepted" ELSE "cancelled"
DecisionTrigger(d) == IF d = "accept" THEN "provider_accepted" ELSE "provider_rejected"

(* _idempotent_result *)
StateMatchesDecision(o, d) ==
  \/ d = "accept" /\ orders[o].status = "accepted"
  \/ /\ d = "reject" /\ orders[o].status = "cancelled"
     /\ orders[o].provider_handoff_reference # None

(* _validate_processable_order and the transition it leads to.             *)
MayDecide(o, d) ==
  /\ ~StateMatchesDecision(o, d)
  /\ orders[o].status = "sent_to_provider"
  /\ orders[o].provider_handoff_reference # None
  /\ CanTransitionOrder(orders[o].status, DecisionTarget(d), DecisionTrigger(d), None)

(* Mutant: the decision is persisted without the adapter.                  *)
TellNobody(o, d) == UNCHANGED <<providerOrders, providerDecisions>>

(* record_acceptance: the adapter hears of the decision before the commit. *)
TellProvider(o, d) ==
  /\ providerDecisions' = providerDecisions \cup {[order |-> o, decision |-> d]}
  /\ UNCHANGED providerOrders

ProviderDecides(o, d) ==
  /\ MayDecide(o, d)
  /\ TellProvider(o, d)
  /\ WriteStatus(o, DecisionTarget(d))
  /\ RecordAudit("provider.acceptance_decision.record", o, d, None, FALSE)
  /\ UNCHANGED <<paymentVars, handoffPending>>

(* Audit or commit failed after the adapter call: the order is as before.  *)
ProviderDecisionLost(o, d) ==
  /\ MayDecide(o, d)
  /\ TellProvider(o, d)
  /\ UNCHANGED <<orders, paymentVars, auditLogs, handoffPending>>

(* The decision is reported as already represented, and audited as such.   *)
ProviderDecisionRepeated(o, d) ==
  /\ StateMatchesDecision(o, d)
  /\ RecordAudit("provider.acceptance_decision.record", o, d, None, TRUE)
  /\ UNCHANGED <<orders, paymentVars, handoffPending, providerVars>>

-------------------------------------------------------------------------------
(* Production, shipment and delivery                                       *)

(* _transition_metadata of the three services.                             *)
TargetStatus(event) ==
  CASE event = "production_started" -> "in_production"
    [] event = "package_ready_for_pickup" -> "ready_for_pickup"
    [] event \in ShipmentEvents -> "shipped"
    [] event \in DeliveryEvents -> "delivered"

(***************************************************************************)
(* _matching_event_reference_log.  The code takes the oldest match; all    *)
(* matches name one event (ReferenceNamesOneEvent), so any of them would   *)
(* do.                                                                     *)
(***************************************************************************)
MatchingLogs(o, event, reference) ==
  {a \in auditLogs : /\ a.action = Action(event)
                     /\ a.order = o
                     /\ a.event_reference = reference}

(* Mutant: only a log of the same event counts as a match.                 *)
FreshForEvent(o, event, reference) ==
  reference = None \/ \A a \in MatchingLogs(o, event, reference) : a.event # event

(* _duplicate_event_reference_result returns None.                         *)
FreshReference(o, event, reference) ==
  reference = None \/ MatchingLogs(o, event, reference) = {}

(* ... returns the earlier result.                                         *)
RepeatedReference(o, event, reference) ==
  /\ reference # None
  /\ MatchingLogs(o, event, reference) # {}
  /\ \A a \in MatchingLogs(o, event, reference) : a.event = event
  /\ orders[o].status = TargetStatus(event)

FulfilmentProceeds(o, event, reference) ==
  /\ FreshReference(o, event, reference)
  /\ CanTransitionOrder(orders[o].status, TargetStatus(event), event, None)
  /\ WriteStatus(o, TargetStatus(event))
  /\ RecordAudit(Action(event), o, event, reference, FALSE)
  /\ UNCHANGED <<paymentVars, handoffPending, providerVars>>

(* An idempotent replay writes an audit row and nothing else.              *)
FulfilmentRepeated(o, event, reference) ==
  /\ RepeatedReference(o, event, reference)
  /\ RecordAudit(Action(event), o, event, reference, TRUE)
  /\ UNCHANGED <<orders, paymentVars, handoffPending, providerVars>>

IngestEvent(o, event, reference) ==
  \/ FulfilmentProceeds(o, event, reference)
  \/ FulfilmentRepeated(o, event, reference)

(* The three services and endpoints, alike but for the events they take.   *)
RecordProductionProgress(o, event, reference) ==
  event \in ProductionEvents /\ IngestEvent(o, event, reference)

RecordShipment(o, event, reference) ==
  event \in ShipmentEvents /\ IngestEvent(o, event, reference)

RecordDelivery(o, event, reference) ==
  event \in DeliveryEvents /\ IngestEvent(o, event, reference)
===============================================================================
