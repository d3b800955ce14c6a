---------------------------- MODULE OrderLifecycle ----------------------------
(***************************************************************************)
(* The order status machine of app/domain/order_lifecycle.py: the ten      *)
(* Path A statuses, the thirteen triggers that may move an order, and the  *)
(* validation every handler calls before it writes a status.               *)
(***************************************************************************)

OrderStatus ==
  {"draft", "confirmed", "sent_to_provider", "accepted", "in_production",
   "ready_for_pickup", "shipped", "delivered", "cancellation_requested",
   "cancelled"}

TerminalOrderStatuses == {"delivered", "cancelled"}

(* Mutant: a package ready for pickup can still be held.                   *)
RequestableUntilShipped ==
  {"confirmed", "accepted", "in_production", "ready_for_pickup"}

CancellationRequestableStatuses == {"confirmed", "accepted", "in_production"}

(***************************************************************************)
(* ORDER_STATUS_TRANSITIONS: the triggers that justify a step between two  *)
(* statuses.  pre_payment_cancel is in the table, but no handler uses it.  *)
(***************************************************************************)
OrderTriggers(from, to) ==
  CASE from = "draft" /\ to = "confirmed" -> {"verified_payment"}
    [] from = "draft" /\ to = "cancelled" -> {"pre_payment_cancel"}
    [] from = "confirmed" /\ to = "sent_to_provider" -> {"provider_handoff_sent"}
    [] from = "sent_to_provider" /\ to = "accepted" -> {"provider_accepted"}
    [] from = "sent_to_provider" /\ to = "cancelled" -> {"provider_rejected"}
    [] from = "accepted" /\ to = "in_production" -> {"production_started"}
    [] from = "in_production" /\ to = "ready_for_pickup"
         -> {"package_ready_for_pickup"}
    [] from = "ready_for_pickup" /\ to = "shipped"
         -> {"carrier_qr_pickup_scan", "authorized_operator_shipment_fallback"}
    [] from = "shipped" /\ to = "delivered" -> {"delivery_confirmed"}
    [] from \in CancellationRequestableStatuses /\ to = "cancellation_requested"
         -> {"customer_cancellation_requested"}
    [] from = "cancellation_requested" /\ to = "cancelled"
         -> {"cancellation_approved"}
    [] from = "cancellation_requested" /\ to \in CancellationRequestableStatuses
         -> {"cancellation_rejected"}
    [] OTHER -> {}

(* _validate_cancellation_rejection_target *)
ReturnsToRequestedFrom(to, requestedFrom) ==
  /\ requestedFrom \in CancellationRequestableStatuses
  /\ to = requestedFrom

(***************************************************************************)
(* transition_order_status: TRUE where the code returns a transition,      *)
(* FALSE where it raises OrderStatusTransitionError.                       *)
(***************************************************************************)
CanTransitionOrder(from, to, trigger, requestedFrom) ==
  /\ from \notin TerminalOrderStatuses
  /\ trigger \in OrderTriggers(from, to)
  /\ trigger = "cancellation_rejected" => ReturnsToRequestedFrom(to, requestedFrom)
===============================================================================
