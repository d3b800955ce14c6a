-------------------------- MODULE OverlappingSessions --------------------------
(***************************************************************************)
(* Database sessions of several API workers that work on one order at the  *)
(* same time.  PostgreSQL runs them READ COMMITTED: a handler validates    *)
(* the rows it loaded, and what it then writes lands on the rows as they   *)
(* have become.  Payment initialization alone locks the order row.         *)
(*                                                                         *)
(* A transaction is two steps, Load and Commit.  SQLAlchemy updates the    *)
(* columns whose value changed since the load and no others; a constraint  *)
(* of the database that the result would break rolls the transaction back. *)
(* Flush and commit are one step: an update that waits for another's row   *)
(* lock is one that comes after that other's commit.                       *)
(***************************************************************************)
EXTENDS OrderLifecycle, PaymentLifecycle

CONSTANTS
  Sessions,     \* database sessions that may be open at one time
  PaymentIds,   \* ids of the payments table
  References,   \* payment_provider_reference values a webhook may carry
  EventIds,     \* ids of payment webhook events
  None          \* NULL

ASSUME SessionAssumption ==
  None \notin OrderStatus /\ None \notin References

VARIABLES
  row,            \* the committed row of the order
  payments,       \* the committed payments of the order
  claimedEvents,  \* event ids in payment_webhook_events
  session         \* session[s]: what session s has loaded and is about to do

vars == <<row, payments, claimedEvents, session>>

(* Columns of the order row that a handler reads back or a constraint names.*)
Row ==
  [status : OrderStatus,
   cancellation_requested_from : CancellationRequestableStatuses \cup {None},
   payment_provider_reference : References \cup {None}]

DraftRow ==
  [status |-> "draft", cancellation_requested_from |-> None,
   payment_provider_reference |-> None]

Payment ==
  [id : PaymentIds, provider_code : {"wompi", "legacy_generic"},
   status : PaymentStatus, payment_provider_reference : References \cup {None},
   expired_window : BOOLEAN]

WebhookEvent == [id : EventIds, status : PaymentStatus, reference : References]

(* Triggers of the requests that read the order, validate and write it.    *)
RequestTriggers ==
  {"provider_accepted", "provider_rejected", "production_started",
   "package_ready_for_pickup", "carrier_qr_pickup_scan",
   "authorized_operator_shipment_fallback", "delivery_confirmed",
   "customer_cancellation_requested", "cancellation_approved",
   "cancellation_rejected"}

CancellationTriggers ==
  {"customer_cancellation_requested", "cancellation_approved", "cancellation_rejected"}

Session ==
  [kind : {"idle", "handoff_owed"}]
  \cup [kind : {"status"}, loaded : Row, target : OrderStatus,
        trigger : RequestTriggers \cup {"provider_handoff_sent"}]
  \cup [kind : {"webhook"}, loaded : Row, event : WebhookEvent,
        payment : Payment \cup {None}]
  \cup [kind : {"initialize"}, loaded : Row, payments : SUBSET Payment]

Idle == [kind |-> "idle"]
HandoffOwed == [kind |-> "handoff_owed"]

SessionTypeOK ==
  /\ row \in Row
  /\ payments \subseteq Payment
  /\ claimedEvents \subseteq EventIds
  /\ session \in [Sessions -> Session]

Init ==
  /\ row = DraftRow
  /\ payments = {}
  /\ claimedEvents = {}
  /\ session = [s \in Sessions |-> Idle]

Becomes(s, work) == session' = [session EXCEPT ![s] = work]

(* Mutant: initialization reads the order without SELECT ... FOR UPDATE.   *)
NeverLocked == FALSE

(***************************************************************************)
(* A session in initialize_payment holds the row lock.  Everybody's update *)
(* of the order waits for it, and so does the insert of a webhook event,   *)
(* whose foreign key needs the row; plain reads do not.                    *)
(***************************************************************************)
OrderRowLocked == \E s \in Sessions : session[s].kind = "initialize"

(* Mutant: the row is not checked.                                         *)
AnyRow(r) == TRUE

(* ck_orders_cancellation_requested_from_matches_status                    *)
SatisfiesCheck(r) ==
  r.cancellation_requested_from # None <=> r.status = "cancellation_requested"

(* The update a session flushes: changed columns over the current row.     *)
Merge(current, loaded, new) ==
  [c \in DOMAIN current |-> IF new[c] = loaded[c] THEN current[c] ELSE new[c]]

(* A rejection, a broken constraint or a lost connection.                  *)
Rollback(s) ==
  /\ session[s].kind \in {"status", "webhook", "initialize"}
  /\ Becomes(s, Idle)
  /\ UNCHANGED <<row, payments, claimedEvents>>

-------------------------------------------------------------------------------
(* Requests that move the order                                            *)

(* Mutant: the transition table is not asked.                              *)
LoadUnvalidated(s, trigger, target) ==
  /\ session[s] = Idle
  /\ target # row.status
  /\ Becomes(s, [kind |-> "status", loaded |-> row, target |-> target,
                 trigger |-> trigger])
  /\ UNCHANGED <<row, payments, claimedEvents>>

(***************************************************************************)
(* The provider services and the cancellation service: the status they are *)
(* about to write is validated against the row they loaded.                *)
(***************************************************************************)
LoadForTransition(s, trigger, target) ==
  /\ session[s] = Idle
  /\ CanTransitionOrder(row.status, target, trigger, row.cancellation_requested_from)
  /\ Becomes(s, [kind |-> "status", loaded |-> row, target |-> target,
                 trigger |-> trigger])
  /\ UNCHANGED <<row, payments, claimedEvents>>

(***************************************************************************)
(* The confirming session goes on to the handoff: orders that left         *)
(* confirmed are skipped, a failed transmission writes nothing.            *)
(***************************************************************************)
LoadForHandoff(s) ==
  /\ session[s] = HandoffOwed
  /\ \/ /\ CanHandOff("verified", row.status)
        /\ Becomes(s, [kind |-> "status", loaded |-> row,
                       target |-> "sent_to_provider",
                       trigger |-> "provider_handoff_sent"])
     \/ Becomes(s, Idle)
  /\ UNCHANGED <<row, payments, claimedEvents>>

(* Mutant: the source is read after the status was overwritten.            *)
AssignedRowSwapped(w) ==
  [w.loaded EXCEPT
     !.status = w.target,
     !.cancellation_requested_from =
        IF w.trigger = "customer_cancellation_requested" THEN w.target ELSE None]

(***************************************************************************)
(* What the handler assigns to the row object it loaded.  The handoff does *)
(* not touch the cancellation column, which was NULL when it was loaded.   *)
(***************************************************************************)
AssignedRow(w) ==
  [w.loaded EXCEPT
     !.status = w.target,
     !.cancellation_requested_from =
        IF w.trigger = "customer_cancellation_requested" THEN w.loaded.status ELSE None]

CommitTransition(s) ==
  /\ session[s].kind = "status"
  /\ ~OrderRowLocked
  /\ row' = Merge(row, session[s].loaded, AssignedRow(session[s]))
  /\ SatisfiesCheck(row')
  /\ Becomes(s, Idle)
  /\ UNCHANGED <<payments, claimedEvents>>

-------------------------------------------------------------------------------
(* Payment webhook                                                         *)

ReferencedPayments(reference) ==
  {p \in payments : p.payment_provider_reference = reference}

(* Order and payment are loaded before the replay key is claimed.          *)
LoadForWebhook(s, ev) ==
  /\ session[s] = Idle
  /\ \E p \in IF ReferencedPayments(ev.reference) = {} THEN {None}
              ELSE ReferencedPayments(ev.reference) :
       Becomes(s, [kind |-> "webhook", loaded |-> row, event |-> ev, payment |-> p])
  /\ UNCHANGED <<row, payments, claimedEvents>>

WebhookTrigger(status) ==
  CASE status = "pending" -> "provider_pending"
    [] status = "requires_action" -> "provider_requires_action"
    [] status = "verified" -> "verified_provider_confirmation"
    [] status = "failed" -> "provider_failed"
    [] status = "cancelled" -> "provider_cancelled"
    [] status = "expired" -> "provider_expired"
    [] OTHER -> "none"

WebhookMayMove(from, to) ==
  CanTransitionPayment(from, to, WebhookTrigger(to), "payment_provider_webhook")

(* UPDATE payments SET status WHERE id                                     *)
SetStatus(id, status) ==
  {IF p.id = id THEN [p EXCEPT !.status = status] ELSE p : p \in payments}

(* The insert of a payment; (order, reference) is unique.                  *)
InsertPayment(ev) ==
  /\ WebhookMayMove("initiated", ev.status)
  /\ ReferencedPayments(ev.reference) = {}
  /\ \E id \in PaymentIds \ {p.id : p \in payments} :
       payments' = payments \cup
         {[id |-> id, provider_code |-> "legacy_generic", status |-> ev.status,
           payment_provider_reference |-> ev.reference, expired_window |-> FALSE]}

(* _persist_payment_event, validated on the payment the session loaded.    *)
PersistPaymentEvent(ev, loaded, allowVerifiedReplay) ==
  \/ loaded = None /\ InsertPayment(ev)
  \/ /\ loaded # None
     /\ WebhookMayMove(loaded.status, ev.status)
     /\ payments' = SetStatus(loaded.id, ev.status)
  \/ /\ loaded # None
     /\ allowVerifiedReplay
     /\ loaded.status = "verified" /\ ev.status = "verified"
     /\ UNCHANGED payments

(* Mutant: the replay key is upserted.                                     *)
UpsertEvent(ev) == claimedEvents' = claimedEvents \cup {ev.id}

(* event_id is unique: the second of two inserts waits for the first and   *)
(* is a replay once that has committed.                                    *)
ClaimEvent(ev) == ev.id \notin claimedEvents /\ UpsertEvent(ev)

(* validate_order_confirmation_from_payment, on the row that was loaded.   *)
Confirms(ev, loaded) ==
  CanConfirmOrder(ev.status, loaded.status, "payment_provider_webhook")

(* _validate_idempotent_confirmation                                       *)
RepeatsConfirmation(ev, loaded) ==
  /\ loaded.status = "confirmed"
  /\ ev.status = "verified"
  /\ loaded.payment_provider_reference = ev.reference

WebhookConfirmsOrder(s) ==
  LET ev == session[s].event
      loaded == session[s].loaded
  IN
  /\ Confirms(ev, loaded)
  /\ PersistPaymentEvent(ev, session[s].payment, FALSE)
  /\ row' = Merge(row, loaded, [loaded EXCEPT !.status = "confirmed",
                                !.payment_provider_reference = ev.reference])
  /\ SatisfiesCheck(row')
  /\ Becomes(s, HandoffOwed)

WebhookKeepsOrder(s) ==
  LET ev == session[s].event
      loaded == session[s].loaded
  IN
  /\ RepeatsConfirmation(ev, loaded) \/ (ev.status # "verified" /\ loaded.status # "confirmed")
  /\ PersistPaymentEvent(ev, session[s].payment, RepeatsConfirmation(ev, loaded))
  /\ Becomes(s, Idle)
  /\ UNCHANGED row

(***************************************************************************)
(* process_verified_webhook from the claim to the commit.  The order is    *)
(* written when a verified event found it in draft, and the session then   *)
(* owes a handoff.                                                         *)
(***************************************************************************)
CommitWebhook(s) ==
  /\ session[s].kind = "webhook"
  /\ ~OrderRowLocked
  /\ ClaimEvent(session[s].event)
  /\ WebhookConfirmsOrder(s) \/ WebhookKeepsOrder(s)

-------------------------------------------------------------------------------
(* Payment initialization                                                  *)

Active(ps) == {p \in ps : p.status \in NonTerminalPaymentStatuses}

(* SELECT ... FOR UPDATE of the order, then a plain read of its payments.  *)
LoadForInitialization(s) ==
  /\ session[s] = Idle
  /\ ~OrderRowLocked
  /\ row.status = "draft" /\ row.payment_provider_reference = None
  /\ Becomes(s, [kind |-> "initialize", loaded |-> row, payments |-> payments])
  /\ UNCHANGED <<row, payments, claimedEvents>>

Restartable(p) ==
  /\ p.provider_code = "wompi"
  /\ p.expired_window
  /\ CanTransitionPayment(p.status, "expired", "checkout_window_elapsed",
                          "payment_initialization")

(***************************************************************************)
(* initialize_payment opens a checkout for an order with no active one, or *)
(* expires the only active one if its window is over and opens another.    *)
(***************************************************************************)
CommitInitialization(s) ==
  LET seen == session[s].payments IN
  /\ session[s].kind = "initialize"
  /\ \A p \in seen : p.status # "verified"
  /\ \E id \in PaymentIds \ {p.id : p \in payments}, old \in SUBSET Active(seen) :
       /\ old = Active(seen)
       /\ \A p, q \in old : p = q /\ Restartable(p)
       /\ payments' =
            {IF \E q \in old : q.id = p.id THEN [p EXCEPT !.status = "expired"] ELSE p
               : p \in payments}
            \cup {[id |-> id, provider_code |-> "wompi", status |-> "requires_action",
                   payment_provider_reference |-> None, expired_window |-> FALSE]}
  /\ Becomes(s, Idle)
  /\ UNCHANGED <<row, claimedEvents>>

(* The clock reaches checkout_expires_at of an active Wompi checkout.      *)
CheckoutWindowElapses(p) ==
  /\ p.provider_code = "wompi"
  /\ p.status \in NonTerminalPaymentStatuses
  /\ ~p.expired_window
  /\ payments' = (payments \ {p}) \cup {[p EXCEPT !.expired_window = TRUE]}
  /\ UNCHANGED <<row, claimedEvents, session>>

-------------------------------------------------------------------------------
Next ==
  \/ \E s \in Sessions :
       \/ \E t \in RequestTriggers, target \in OrderStatus :
            LoadForTransition(s, t, target)
       \/ CommitTransition(s)
       \/ LoadForHandoff(s)
       \/ \E ev \in WebhookEvent : LoadForWebhook(s, ev)
       \/ CommitWebhook(s)
       \/ LoadForInitialization(s)
       \/ CommitInitialization(s)
       \/ Rollback(s)
  \/ \E p \in payments : CheckoutWindowElapses(p)

Spec == Init /\ [][Next]_vars

-------------------------------------------------------------------------------
(* What holds however sessions overlap                                     *)

(***************************************************************************)
(* Two first calls of POST /payments/initialize, or two that restart an    *)
(* expired checkout, leave one live Wompi checkout: the row lock makes the *)
(* second see what the first committed.                                    *)
(***************************************************************************)
OneLiveCheckout ==
  \A p, q \in Active(payments) :
    p.provider_code = "wompi" /\ q.provider_code = "wompi" => p = q

(***************************************************************************)
(* No checkout is opened for an order that is no longer a draft or already *)
(* has a verified payment, though a webhook may be confirming it meanwhile.*)
(***************************************************************************)
CheckoutsOpenForUnpaidDrafts ==
  [][ \A p \in payments' :
        p.provider_code = "wompi" /\ (\A q \in payments : q.id # p.id)
        => row.status = "draft" /\ \A q \in payments : q.status # "verified"
    ]_vars

(***************************************************************************)
(* An order on hold leaves the hold through a cancellation request alone.  *)
(* A provider event, handoff or payment that was validated before the hold *)
(* would leave cancellation_requested_from behind, and the CHECK           *)
(* constraint of the orders table rolls it back.                           *)
(***************************************************************************)
HoldsAreOnlyResolved ==
  [][ row.status = "cancellation_requested" /\ row' # row =>
        \E s \in Sessions :
          /\ session[s].kind = "status"
          /\ session[s].trigger \in CancellationTriggers
          /\ session'[s] = Idle
    ]_vars

(***************************************************************************)
(* However many sessions process one delivery of a webhook event at once,  *)
(* one of them moves payments or the order: a step of a webhook session    *)
(* that changes either is the step that claims its event.                  *)
(***************************************************************************)
EventsActOnce ==
  [][ \A s \in Sessions :
        /\ session[s].kind = "webhook"
        /\ session'[s] # session[s]
        /\ <<row, payments>>' # <<row, payments>>
        => session[s].event.id \in claimedEvents' \ claimedEvents
    ]_vars

-------------------------------------------------------------------------------
(* What a session keeps that nobody disturbs, and what overlapping         *)
(* sessions break though the repository states it                          *)

MovesAlongTable ==
  row'.status # row.status =>
    \E t \in RequestTriggers \cup {"verified_payment", "provider_handoff_sent"} :
      CanTransitionOrder(row.status, row'.status, t, row.cancellation_requested_from)

KeepsSettledStatuses ==
  \A p \in payments :
    p.status \in {"verified", "failed", "cancelled"} =>
      \E q \in payments' : q.id = p.id /\ q.status = p.status

KeepsConfirmingPayment ==
  row.payment_provider_reference # None =>
    row'.payment_provider_reference = row.payment_provider_reference

(***************************************************************************)
(* Whatever the others have done before, a session that commits while the  *)
(* order and the payment are as it loaded them moves the order along the   *)
(* table, and changes neither a settled payment nor the one that confirmed *)
(* the order: these fail through writes validated on stale rows, and for   *)
(* no other reason.                                                        *)
(***************************************************************************)
UndisturbedCommitsAreTransitions ==
  [][ \A s \in Sessions :
        /\ session[s].kind \in {"status", "webhook"}
        /\ session[s].loaded = row
        /\ session[s].kind = "webhook" => session[s].payment \in payments \cup {None}
        /\ session'[s] # session[s]
        => MovesAlongTable /\ KeepsSettledStatuses /\ KeepsConfirmingPayment
    ]_vars

(***************************************************************************)
(* docs/planning/orders.md: "`delivered` and `cancelled` are terminal      *)
(* states.  Invalid transitions must be rejected without mutating          *)
(* persisted order state."  Every committed change of the persisted status *)
(* is a transition of the table.                                           *)
(***************************************************************************)
CommittedStepsAreTransitions == [][MovesAlongTable]_vars
===============================================================================
