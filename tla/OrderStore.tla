------------------------------ MODULE OrderStore ------------------------------
(***************************************************************************)
(* What the Path A backend keeps: the order, payment, webhook-event and    *)
(* audit-log tables of its PostgreSQL database, the handoffs that running  *)
(* webhook handlers still owe, and what the fulfilment provider behind the *)
(* ProviderAdapter interface has been told.                                *)
(*                                                                         *)
(* A row's immutable or irrelevant columns are left out.  Who owns an      *)
(* order and what it costs are fixed when it is created, so they are       *)
(* constants; an amount stands for an amount with its currency.            *)
(***************************************************************************)
EXTENDS OrderLifecycle, PaymentLifecycle

CONSTANTS
  Orders,            \* order ids
  Customers,         \* user ids
  Amounts,           \* amount and currency of a total or of a payment
  Owner,             \* Owner[o]: the customer that creates order o
  Total,             \* Total[o]: total_amount and currency of order o
  PaymentIds,        \* ids of the payments table
  References,        \* payment_provider_reference values a webhook may carry
  EventIds,          \* ids of payment webhook events
  EventReferences,   \* event_reference values of fulfilment events
  None               \* NULL

ASSUME StoreAssumption ==
  /\ Owner \in [Orders -> Customers]
  /\ Total \in [Orders -> Amounts]
  /\ None \notin OrderStatus
  /\ None \notin Orders
  /\ None \notin Customers
  /\ None \notin References
  /\ None \notin EventReferences

VARIABLES
  orders,             \* the orders table
  payments,           \* the payments table
  webhookEvents,      \* the payment_webhook_events table
  auditLogs,          \* the audit_logs table
  handoffPending,     \* orders a webhook handler confirmed and has yet to hand off
  providerOrders,     \* orders the provider received through handoff_paid_order
  providerDecisions   \* decisions the provider adapter recorded

vars == <<orders, payments, webhookEvents, auditLogs, handoffPending,
          providerOrders, providerDecisions>>

(***************************************************************************)
(* Rows.  A status "absent" stands for an id with no row yet.  The payment *)
(* reference and payment_verified_at are always written together, and so   *)
(* are the handoff reference and provider_handoff_sent_at: each pair is    *)
(* one field.  The mock provider calls order o "local-order-o", so the     *)
(* order id is its own handoff reference.                                  *)
(***************************************************************************)
OrderRow ==
  [status : OrderStatus \cup {"absent"},
   cancellation_requested_from : CancellationRequestableStatuses \cup {None},
   payment_provider_reference : References \cup {None},
   provider_handoff_reference : Orders \cup {None}]

NoOrder ==
  [status |-> "absent", cancellation_requested_from |-> None,
   payment_provider_reference |-> None, provider_handoff_reference |-> None]

ProviderCodes == {"wompi", "legacy_generic"}

(* window: is checkout_expires_at NULL, in the future, or reached?         *)
PaymentRow ==
  [id : PaymentIds, order : Orders, provider_code : ProviderCodes,
   status : PaymentStatus, payment_provider_reference : References \cup {None},
   amount : Amounts, window : {"none", "open", "elapsed"}]

WebhookEventRow == [event_id : EventIds, order : Orders, payment : PaymentIds]

AcceptanceDecisions == {"accept", "reject"}

ProductionEvents == {"production_started", "package_ready_for_pickup"}
ShipmentEvents == {"carrier_qr_pickup_scan", "authorized_operator_shipment_fallback"}
DeliveryEvents == {"delivery_confirmed"}
FulfilmentEvents == ProductionEvents \cup ShipmentEvents \cup DeliveryEvents

AuditActions ==
  {"provider.acceptance_decision.record", "provider.production_progress.record",
   "provider.shipment.record", "provider.delivery.record",
   "order.cancellation.request", "order.cancellation.approve",
   "order.cancellation.reject"}

(* event: the decision, fulfilment event or cancellation trigger recorded. *)
AuditRow ==
  [action : AuditActions, order : Orders,
   event : AcceptanceDecisions \cup FulfilmentEvents
           \cup {"customer_cancellation_requested", "cancellation_approved",
                 "cancellation_rejected"},
   event_reference : EventReferences \cup {None},
   idempotent : BOOLEAN]

ProviderDecision == [order : Orders, decision : AcceptanceDecisions]

TypeOK ==
  /\ orders \in [Orders -> OrderRow]
  /\ payments \subseteq PaymentRow
  /\ webhookEvents \subseteq WebhookEventRow
  /\ auditLogs \subseteq AuditRow
  /\ handoffPending \subseteq Orders
  /\ providerOrders \subseteq Orders
  /\ providerDecisions \subseteq ProviderDecision

Init ==
  /\ orders = [o \in Orders |-> NoOrder]
  /\ payments = {}
  /\ webhookEvents = {}
  /\ auditLogs = {}
  /\ handoffPending = {}
  /\ providerOrders = {}
  /\ providerDecisions = {}

paymentVars == <<payments, webhookEvents>>
providerVars == <<providerOrders, providerDecisions>>

Exists(o) == orders[o].status # "absent"

(* A committed transaction and its audit row, written together.            *)
RecordAudit(action, o, event, reference, idempotent) ==
  auditLogs' = auditLogs \cup
    {[action |-> action, order |-> o, event |-> event,
      event_reference |-> reference, idempotent |-> idempotent]}

(* Mutant: a status write that forgets the cancellation columns.           *)
WriteStatusOnly(o, status) == orders' = [orders EXCEPT ![o].status = status]

(***************************************************************************)
(* The status writes of OrderRepository.  Every provider step and both     *)
(* resolutions of a cancellation also clear cancellation_requested_from.   *)
(***************************************************************************)
WriteStatus(o, status) ==
  orders' = [orders EXCEPT ![o].status = status,
                           ![o].cancellation_requested_from = None]

(* Mutant: the source is read after the status was overwritten.            *)
WriteCancellationRequestSwapped(o) ==
  orders' = [orders EXCEPT ![o].status = "cancellation_requested",
                           ![o].cancellation_requested_from = "cancellation_requested"]

WriteCancellationRequest(o) ==
  orders' = [orders EXCEPT ![o].status = "cancellation_requested",
                           ![o].cancellation_requested_from = orders[o].status]

WritePaymentConfirmed(o, reference) ==
  orders' = [orders EXCEPT ![o].status = "confirmed",
                           ![o].payment_provider_reference = reference]

WriteHandoffSent(o) ==
  orders' = [orders EXCEPT ![o].status = "sent_to_provider",
                           ![o].provider_handoff_reference = o]

(***************************************************************************)
(* create_draft_order: checkout validation either rejects the request or   *)
(* the owner gets a draft order with its item snapshots.                   *)
(***************************************************************************)
CreateDraftOrder(o) ==
  /\ ~Exists(o)
  /\ orders' = [orders EXCEPT ![o].status = "draft"]
  /\ UNCHANGED <<payments, webhookEvents, auditLogs, handoffPending,
                 providerOrders, providerDecisions>>
===============================================================================
