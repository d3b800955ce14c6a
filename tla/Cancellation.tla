----------------------------- MODULE Cancellation -----------------------------
(***************************************************************************)
(* Customer cancellation of a paid order: the owner asks, the order stops  *)
(* where it is, and an admin approves or sends it back to where it was.    *)
(***************************************************************************)
EXTENDS OrderStore

RequestCancellation(o, customer) ==
  /\ Owner[o] = customer
  /\ CanTransitionOrder(orders[o].status, "cancellation_requested",
                        "customer_cancellation_requested", None)
  /\ WriteCancellationRequest(o)
  /\ RecordAudit("order.cancellation.request", o,
                 "customer_cancellation_requested", None, FALSE)
  /\ UNCHANGED <<paymentVars, handoffPending, providerVars>>

(* _pending_cancellation_order *)
PendingCancellation(o) == orders[o].status = "cancellation_requested"

(* _cancellation_requested_from, without which neither resolution goes on. *)
HasOriginalStatus(o) == orders[o].cancellation_requested_from \in OrderStatus

ApproveCancellation(o) ==
  /\ PendingCancellation(o)
  /\ HasOriginalStatus(o)
  /\ CanTransitionOrder("cancellation_requested", "cancelled",
                        "cancellation_approved", None)
  /\ WriteStatus(o, "cancelled")
  /\ RecordAudit("order.cancellation.approve", o, "cancellation_approved", None, FALSE)
  /\ UNCHANGED <<paymentVars, handoffPending, providerVars>>

RejectCancellation(o) ==
  LET original == orders[o].cancellation_requested_from IN
  /\ PendingCancellation(o)
  /\ HasOriginalStatus(o)
  /\ CanTransitionOrder("cancellation_requested", original,
                        "cancellation_rejected", original)
  /\ WriteStatus(o, original)
  /\ RecordAudit("order.cancellation.reject", o, "cancellation_rejected", None, FALSE)
  /\ UNCHANGED <<paymentVars, handoffPending, providerVars>>
===============================================================================
