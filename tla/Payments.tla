------------------------------- MODULE Payments -------------------------------
(***************************************************************************)
(* The two ways a payment row is written: POST /payments/initialize opens, *)
(* reuses or replaces a Wompi checkout for a draft order, and the signed   *)
(* provider webhook records payment statuses and confirms the order.       *)
(*                                                                         *)
(* A rejection raises, the endpoint rolls back, and the database is as it  *)
(* was: a rejected request is a step that is not taken.                    *)
(***************************************************************************)
EXTENDS OrderStore

WebhookEvent ==
  [id : EventIds, order : Orders, customer : Customers \cup {None},
   status : PaymentStatus, reference : References, amount : Amounts]

Allocated == {p.id : p \in payments}

PaymentsOf(o) == {p \in payments : p.order = o}

ActivePayments(o) ==
  {p \in PaymentsOf(o) : p.status \in NonTerminalPaymentStatuses}

-------------------------------------------------------------------------------
(* Payment initialization                                                  *)

(* _validate_payable_order; the item snapshots are taken to be payable.    *)
PayableOrder(o) ==
  /\ orders[o].status = "draft"
  /\ orders[o].payment_provider_reference = None

(* The guards of initialize_payment that precede any write.                *)
MayInitialize(o) ==
  /\ PayableOrder(o)
  /\ \A p \in PaymentsOf(o) : p.status # "verified"

(***************************************************************************)
(* _create_wompi_payment.  The row appears already in requires_action and  *)
(* without a provider reference, under an id no row ever had.              *)
(***************************************************************************)
WompiCheckout(o, id) ==
  [id |-> id, order |-> o, provider_code |-> "wompi",
   status |-> "requires_action", payment_provider_reference |-> None,
   amount |-> Total[o], window |-> "open"]

(* initialize_payment with no active payment.                              *)
OpenCheckout(o, id) ==
  /\ MayInitialize(o)
  /\ ActivePayments(o) = {}
  /\ id \notin Allocated
  /\ payments' = payments \cup {WompiCheckout(o, id)}
  /\ UNCHANGED <<orders, webhookEvents, auditLogs, handoffPending, providerVars>>

(* _expire_restartable_payment *)
Restartable(p) ==
  /\ p.provider_code = "wompi"
  /\ p.window = "elapsed"
  /\ CanTransitionPayment(p.status, "expired", "checkout_window_elapsed",
                          "payment_initialization")

(* Mutant: the checkout that ran out of time is left active.               *)
ReplaceCheckoutKeepingOld(o, p, id) ==
  /\ MayInitialize(o)
  /\ ActivePayments(o) = {p}
  /\ Restartable(p)
  /\ id \notin Allocated
  /\ payments' = payments \cup {WompiCheckout(o, id)}
  /\ UNCHANGED <<orders, webhookEvents, auditLogs, handoffPending, providerVars>>

(***************************************************************************)
(* _handle_active_payment with a checkout whose window has elapsed: the    *)
(* old row expires and its replacement is staged in the same transaction,  *)
(* so a provider that is unavailable undoes both.  An open requires_action *)
(* checkout is handed out again without a write, and every other active    *)
(* payment is a rejection.                                                 *)
(***************************************************************************)
ReplaceCheckout(o, p, id) ==
  /\ MayInitialize(o)
  /\ ActivePayments(o) = {p}
  /\ Restartable(p)
  /\ id \notin Allocated
  /\ payments' = (payments \ {p}) \cup
                 {[p EXCEPT !.status = "expired"], WompiCheckout(o, id)}
  /\ UNCHANGED <<orders, webhookEvents, auditLogs, handoffPending, providerVars>>

(* The clock reaches checkout_expires_at of an active checkout.            *)
CheckoutWindowElapses(p) ==
  /\ p.window = "open"
  /\ p.status \in NonTerminalPaymentStatuses
  /\ payments' = (payments \ {p}) \cup {[p EXCEPT !.window = "elapsed"]}
  /\ UNCHANGED <<orders, webhookEvents, auditLogs, handoffPending, providerVars>>

-------------------------------------------------------------------------------
(* Payment webhook                                                         *)

(* _transition_trigger: no provider event reports "initiated".             *)
WebhookTrigger(status) ==
  CASE status = "pending" -> "provider_pending"
    [] status = "requires_action" -> "provider_requires_action"
    [] status = "verified" -> "verified_provider_confirmation"
    [] status = "failed" -> "provider_failed"
    [] status = "cancelled" -> "provider_cancelled"
    [] status = "expired" -> "provider_expired"
    [] OTHER -> "none"

WebhookMayMove(from, to) ==
  CanTransitionPayment(from, to, WebhookTrigger(to), "payment_provider_webhook")

PaymentsForReference(reference) ==
  {p \in payments : p.payment_provider_reference = reference}

(* _payment_for_event: the row of this order that the event speaks of.      *)
PaymentForEvent(ev) == {p \in PaymentsForReference(ev.reference) : p.order = ev.order}

(* Mutant: the reference is not compared with payments of other orders.    *)
ValidEventOfAnyReference(ev) ==
  /\ Exists(ev.order)
  /\ ev.customer \in {None, Owner[ev.order]}
  /\ ev.amount = Total[ev.order]

(***************************************************************************)
(* The checks of process_verified_webhook before the replay key is claimed:*)
(* known order, matching customer when the event names one, exact amount   *)
(* and currency, and no payment of another order under the reference.      *)
(***************************************************************************)
ValidEvent(ev) ==
  /\ Exists(ev.order)
  /\ ev.customer \in {None, Owner[ev.order]}
  /\ ev.amount = Total[ev.order]
  /\ \A p \in PaymentsForReference(ev.reference) : p.order = ev.order

(* Mutant: the replay key is upserted.                                     *)
UpsertWebhookEvent(ev, id) ==
  webhookEvents' = webhookEvents \cup
    {[event_id |-> ev.id, order |-> ev.order, payment |-> id]}

(* _claim_webhook_event and _link_webhook_event, committed together.       *)
ClaimWebhookEvent(ev, id) ==
  /\ \A w \in webhookEvents : w.event_id # ev.id
  /\ webhookEvents' = webhookEvents \cup
       {[event_id |-> ev.id, order |-> ev.order, payment |-> id]}

(* create_legacy_payment: the row of a reference not seen before.          *)
LegacyPayment(ev, id) ==
  [id |-> id, order |-> ev.order, provider_code |-> "legacy_generic",
   status |-> ev.status, payment_provider_reference |-> ev.reference,
   amount |-> ev.amount, window |-> "none"]

CreatePayment(ev, id) ==
  /\ PaymentForEvent(ev) = {}
  /\ id \notin Allocated
  /\ WebhookMayMove("initiated", ev.status)
  /\ payments' = payments \cup {LegacyPayment(ev, id)}

(* Mutant: the row takes whatever status the event reports.                *)
UpdatePaymentUnchecked(ev, p) ==
  /\ p.status # ev.status
  /\ payments' = (payments \ {p}) \cup
                 {[p EXCEPT !.status = ev.status, !.amount = ev.amount]}

UpdatePayment(ev, p) ==
  /\ p.status # ev.status
  /\ WebhookMayMove(p.status, ev.status)
  /\ payments' = (payments \ {p}) \cup
                 {[p EXCEPT !.status = ev.status, !.amount = ev.amount]}

(* A status the row already has is a replay, accepted for verified only.   *)
KeepVerifiedPayment(ev, p) ==
  /\ p.status = ev.status
  /\ p.status = "verified"
  /\ UNCHANGED payments

(***************************************************************************)
(* _persist_payment_event: (order, reference) is unique, so at most one    *)
(* row answers to the event.                                               *)
(***************************************************************************)
PersistPaymentEvent(ev, allowVerifiedReplay, id) ==
  \/ CreatePayment(ev, id)
  \/ \E p \in PaymentForEvent(ev) :
       /\ p.id = id
       /\ \/ UpdatePayment(ev, p)
          \/ allowVerifiedReplay /\ KeepVerifiedPayment(ev, p)

(* Mutant: any verified event repeats the confirmation.                    *)
RepeatsAnyConfirmation(ev) == ev.status = "verified"

(* _validate_idempotent_confirmation *)
RepeatsConfirmation(ev) ==
  /\ ev.status = "verified"
  /\ orders[ev.order].payment_provider_reference = ev.reference

(* Mutant: a repeated confirmation is handed off like the first.           *)
WebhookRepeatsHandoff(ev, id) ==
  /\ ValidEvent(ev)
  /\ orders[ev.order].status = "confirmed"
  /\ RepeatsConfirmation(ev)
  /\ ClaimWebhookEvent(ev, id)
  /\ PersistPaymentEvent(ev, TRUE, id)
  /\ handoffPending' = handoffPending \cup {ev.order}
  /\ UNCHANGED <<orders, auditLogs, providerVars>>

(***************************************************************************)
(* process_verified_webhook on an order that is already confirmed: the     *)
(* event is claimed and linked, the order is not confirmed again and no    *)
(* handoff follows.                                                        *)
(***************************************************************************)
WebhookRepeatsConfirmation(ev, id) ==
  /\ ValidEvent(ev)
  /\ orders[ev.order].status = "confirmed"
  /\ RepeatsConfirmation(ev)
  /\ ClaimWebhookEvent(ev, id)
  /\ PersistPaymentEvent(ev, TRUE, id)
  /\ UNCHANGED <<orders, auditLogs, handoffPending, providerVars>>

(* ... with a status other than verified: the order is left alone, in      *)
(* whatever status but confirmed it is.                                    *)
WebhookRecordsStatus(ev, id) ==
  /\ ValidEvent(ev)
  /\ orders[ev.order].status # "confirmed"
  /\ ev.status # "verified"
  /\ ClaimWebhookEvent(ev, id)
  /\ PersistPaymentEvent(ev, FALSE, id)
  /\ UNCHANGED <<orders, auditLogs, handoffPending, providerVars>>

(***************************************************************************)
(* ... with a verified payment of a draft order: payment row, order row    *)
(* and replay key are committed in one transaction, and only then does the *)
(* handler turn to the provider handoff it now owes.                       *)
(***************************************************************************)
WebhookConfirmsOrder(ev, id) ==
  /\ ValidEvent(ev)
  /\ CanConfirmOrder(ev.status, orders[ev.order].status, "payment_provider_webhook")
  /\ CanTransitionOrder(orders[ev.order].status, "confirmed", "verified_payment", None)
  /\ ClaimWebhookEvent(ev, id)
  /\ PersistPaymentEvent(ev, FALSE, id)
  /\ WritePaymentConfirmed(ev.order, ev.reference)
  /\ handoffPending' = handoffPending \cup {ev.order}
  /\ UNCHANGED <<auditLogs, providerVars>>

ProcessWebhook(ev) ==
  /\ ValidEvent(ev)
  /\ \E id \in PaymentIds :
       \/ WebhookRepeatsConfirmation(ev, id)
       \/ WebhookRecordsStatus(ev, id)
       \/ WebhookConfirmsOrder(ev, id)

InitializePayment(o) ==
  \E id \in PaymentIds :
    \/ OpenCheckout(o, id)
    \/ \E p \in PaymentsOf(o) : ReplaceCheckout(o, p, id)
===============================================================================
