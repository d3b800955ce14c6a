----------------------------- MODULE PathAOrders ------------------------------
(***************************************************************************)
(* The Path A order backend, one committed database transaction per step.  *)
(*                                                                         *)
(* Handlers run their transaction without suspending, so the transactions  *)
(* of one worker never overlap: a transaction is a step.  What may come    *)
(* between two transactions does: another request between a payment's      *)
(* confirmation and the handoff its handler still owes, a crash before,    *)
(* during or after that handoff, events repeated, reordered or lost.       *)
(* Overlapping transactions of several workers are a separate model.       *)
(***************************************************************************)
EXTENDS Payments, Fulfilment, Cancellation

Next ==
  \/ \E o \in Orders :
       \/ CreateDraftOrder(o)
       \/ InitializePayment(o)
       \/ HandoffSent(o)
       \/ HandoffLostAfterTransmission(o)
       \/ HandoffNotSent(o)
       \/ \E d \in AcceptanceDecisions :
            \/ ProviderDecides(o, d)
            \/ ProviderDecisionLost(o, d)
            \/ ProviderDecisionRepeated(o, d)
       \/ \E e \in FulfilmentEvents, r \in EventReferences \cup {None} :
            \/ RecordProductionProgress(o, e, r)
            \/ RecordShipment(o, e, r)
            \/ RecordDelivery(o, e, r)
       \/ \E c \in Customers : RequestCancellation(o, c)
       \/ ApproveCancellation(o)
       \/ RejectCancellation(o)
  \/ \E p \in payments : CheckoutWindowElapses(p)
  \/ \E ev \in WebhookEvent : ProcessWebhook(ev)

Spec == Init /\ [][Next]_vars

-------------------------------------------------------------------------------
(* Safety                                                                  *)

Verified(o) == {p \in PaymentsOf(o) : p.status = "verified"}

(***************************************************************************)
(* An order carries a payment reference exactly when one of its payment    *)
(* rows is verified; that row is the only one, has that reference and is   *)
(* over the order's own total.  Checkout attempts, events for other        *)
(* references, failures and replays in any order must not break the        *)
(* correspondence that process_verified_webhook writes in three tables.    *)
(***************************************************************************)
OrderPaidByOneVerifiedPayment ==
  \A o \in Orders :
    /\ orders[o].payment_provider_reference = None => Verified(o) = {}
    /\ orders[o].payment_provider_reference # None =>
         \E p \in Verified(o) :
           /\ Verified(o) = {p}
           /\ p.payment_provider_reference = orders[o].payment_provider_reference
           /\ p.amount = Total[o]

(***************************************************************************)
(* A provider reference names one payment of one order: no rows of two     *)
(* orders share it (_payment_for_event refuses), nor two rows of one order *)
(* (the unique constraint on the payments table never has to).             *)
(***************************************************************************)
ReferenceNamesOnePayment ==
  \A p, q \in payments :
    /\ p.payment_provider_reference # None
    /\ p.payment_provider_reference = q.payment_provider_reference
    => p = q

(***************************************************************************)
(* Repeating POST /payments/initialize never leaves a customer with two    *)
(* live Wompi checkouts for one order, whatever expired in between.        *)
(***************************************************************************)
LiveCheckouts(o) == {p \in ActivePayments(o) : p.provider_code = "wompi"}

OneActiveCheckout ==
  \A o \in Orders : \A p, q \in LiveCheckouts(o) : p = q

(***************************************************************************)
(* An order is where its paper trail says: past draft it is paid; known to *)
(* the provider, it was transmitted; accepted or later, on hold or not,    *)
(* the provider was told ACCEPT; and each production, shipment or delivery *)
(* stage it has passed is backed by an audited event that was not a        *)
(* replay.                                                                 *)
(***************************************************************************)
Stage(o) ==
  IF orders[o].status = "cancellation_requested"
  THEN orders[o].cancellation_requested_from
  ELSE orders[o].status

Audited(o, events) ==
  \E a \in auditLogs : a.order = o /\ a.event \in events /\ ~a.idempotent

InProductionOrLater == {"in_production", "ready_for_pickup", "shipped", "delivered"}
ReadyOrLater == InProductionOrLater \ {"in_production"}
ShippedOrLater == {"shipped", "delivered"}
AcceptedOrLater == InProductionOrLater \cup {"accepted"}
SentOrLater == AcceptedOrLater \cup {"sent_to_provider"}
ConfirmedOrLater == SentOrLater \cup {"confirmed"}

RowIsJustified(o) ==
  /\ Stage(o) \in ConfirmedOrLater \cup {"cancelled"}
       => orders[o].payment_provider_reference # None
  /\ Stage(o) \in SentOrLater
       => orders[o].provider_handoff_reference # None
  /\ orders[o].provider_handoff_reference # None => o \in providerOrders
  /\ Stage(o) \in AcceptedOrLater
       => [order |-> o, decision |-> "accept"] \in providerDecisions
  /\ Stage(o) \in InProductionOrLater => Audited(o, {"production_started"})
  /\ Stage(o) \in ReadyOrLater => Audited(o, {"package_ready_for_pickup"})
  /\ Stage(o) \in ShippedOrLater => Audited(o, ShipmentEvents)
  /\ Stage(o) = "delivered" => Audited(o, DeliveryEvents)

StageIsJustified == \A o \in Orders : RowIsJustified(o)

(***************************************************************************)
(* The CHECK constraint ck_orders_cancellation_requested_from_matches_     *)
(* status is never what stops a handler: no committed transaction would    *)
(* fail it.                                                                *)
(***************************************************************************)
CancellationSourceMatchesStatus ==
  \A o \in Orders :
    orders[o].cancellation_requested_from # None
      <=> orders[o].status = "cancellation_requested"

(***************************************************************************)
(* Within one audit action, a non-null event reference of an order names   *)
(* one event: replays and conflicting reuse are told apart by the log, and *)
(* taking its oldest match is as good as any.                              *)
(***************************************************************************)
ReferenceNamesOneEvent ==
  \A a, b \in auditLogs :
    /\ a.event_reference # None
    /\ <<a.action, a.order, a.event_reference>> = <<b.action, b.order, b.event_reference>>
    => a.event = b.event

-------------------------------------------------------------------------------
(* What a step may never do                                                *)

(***************************************************************************)
(* A provider-referenced payment is only written by a webhook whose replay *)
(* key is claimed by the same transaction for that order and payment.      *)
(* Redelivering an event id can therefore never move a payment again.      *)
(***************************************************************************)
PaymentMovesClaimAnEvent ==
  [][ \A p \in payments' \ payments :
        p.payment_provider_reference # None =>
          \E w \in webhookEvents' \ webhookEvents :
            /\ w.order = p.order
            /\ w.payment = p.id
            /\ \A v \in webhookEvents : v.event_id # w.event_id
    ]_vars

(***************************************************************************)
(* A settled payment is history: a row that is verified, failed, cancelled *)
(* or expired is never changed or removed, by a late event, a retried      *)
(* checkout or the clock.                                                  *)
(***************************************************************************)
SettledPaymentsStay ==
  [][ \A p \in payments : p.status \in TerminalPaymentStatuses => p \in payments' ]_vars

(***************************************************************************)
(* Each order goes to the provider in at most one attempt, which the       *)
(* confirming handler makes: an order that is no longer owed a handoff is  *)
(* never owed one again.                                                   *)
(***************************************************************************)
HandoffOwedOnce ==
  [][ \A o \in Orders :
        /\ orders[o].payment_provider_reference # None
        /\ o \notin handoffPending
        => o \notin handoffPending' /\ (o \in providerOrders' => o \in providerOrders)
    ]_vars

-------------------------------------------------------------------------------
(* What the repository says and the code does not keep                     *)

(***************************************************************************)
(* ProviderAcceptanceProcessingResult: "idempotent: Whether the persisted  *)
(* state already represented the same provider decision."  A decision      *)
(* reported and audited as idempotent repeats one that was taken.          *)
(***************************************************************************)
RepeatedDecisionWasTaken ==
  \A a \in auditLogs :
    /\ a.action = "provider.acceptance_decision.record"
    /\ a.idempotent
    => [a EXCEPT !.idempotent = FALSE] \in auditLogs

(***************************************************************************)
(* The fairness of the handoff: a running handler comes to an end, and an  *)
(* adapter that is asked again and again does not fail forever.            *)
(***************************************************************************)
Handoff(o) == HandoffSent(o) \/ HandoffLostAfterTransmission(o) \/ HandoffNotSent(o)

HandoffFairness ==
  \A o \in Orders : WF_vars(Handoff(o)) /\ SF_vars(HandoffSent(o))

FairSpec == Spec /\ HandoffFairness

(***************************************************************************)
(* docs/flows/main-flow.md: "transmission failed: Keep confirmed and retry *)
(* without duplicate handoff".  An order that is still confirmed when its  *)
(* handler is done, and that the provider does not have, gets there in the *)
(* end or leaves confirmed otherwise.                                      *)
(***************************************************************************)
TransmissionFailed(o) ==
  orders[o].status = "confirmed" /\ o \notin handoffPending \cup providerOrders

FailedTransmissionsAreRetried ==
  \A o \in Orders :
    TransmissionFailed(o) ~> orders[o].status # "confirmed" \/ o \in providerOrders

-------------------------------------------------------------------------------
(* Refinement                                                              *)

(***************************************************************************)
(* The backend keeps OrderContract: read a held order's stage from         *)
(* cancellation_requested_from, its payment and handoff from the           *)
(* references on the order row.                                            *)
(***************************************************************************)
Contract == INSTANCE OrderContract WITH
  stage <- [o \in Orders |-> Stage(o)],
  held <- {o \in Orders : orders[o].status = "cancellation_requested"},
  paid <- {o \in Orders : orders[o].payment_provider_reference # None},
  atProvider <- {o \in Orders : orders[o].provider_handoff_reference # None}

KeepsContract == Contract!ContractSpec
===============================================================================
