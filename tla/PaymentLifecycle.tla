--------------------------- MODULE PaymentLifecycle ---------------------------
(***************************************************************************)
(* The payment status machine of app/domain/payment_lifecycle.py and the   *)
(* three eligibility rules derived from it: who may verify a payment, when *)
(* a payment may confirm an order, when an order may go to the provider.   *)
(***************************************************************************)

PaymentStatus ==
  {"initiated", "pending", "requires_action", "verified", "failed",
   "cancelled", "expired"}

TerminalPaymentStatuses == {"verified", "failed", "cancelled", "expired"}

NonTerminalPaymentStatuses == PaymentStatus \ TerminalPaymentStatuses

PaymentEventSource ==
  {"payment_provider_webhook", "payment_provider_reconciliation",
   "payment_initialization", "frontend_return", "provider_adapter"}

TrustedPaymentConfirmationSources ==
  {"payment_provider_webhook", "payment_provider_reconciliation"}

(***************************************************************************)
(* PAYMENT_STATUS_TRANSITIONS.  Only the provider expires a pending       *)
(* payment: the elapsed checkout window alone does not.                    *)
(***************************************************************************)
PaymentTriggers(from, to) ==
  CASE from \in {"initiated", "requires_action"} /\ to = "pending"
         -> {"provider_pending"}
    [] from \in {"initiated", "pending"} /\ to = "requires_action"
         -> {"provider_requires_action"}
    [] from \in NonTerminalPaymentStatuses /\ to = "verified"
         -> {"verified_provider_confirmation"}
    [] from \in NonTerminalPaymentStatuses /\ to = "failed"
         -> {"provider_failed"}
    [] from \in NonTerminalPaymentStatuses /\ to = "cancelled"
         -> {"provider_cancelled"}
    [] from \in {"initiated", "requires_action"} /\ to = "expired"
         -> {"provider_expired", "checkout_window_elapsed"}
    [] from = "pending" /\ to = "expired" -> {"provider_expired"}
    [] OTHER -> {}

(* transition_payment_status *)
CanTransitionPayment(from, to, trigger, source) ==
  /\ from \notin TerminalPaymentStatuses
  /\ trigger \in PaymentTriggers(from, to)
  /\ trigger = "verified_provider_confirmation"
       => source \in TrustedPaymentConfirmationSources

(* validate_order_confirmation_from_payment *)
CanConfirmOrder(paymentStatus, orderStatus, source) ==
  /\ source \in TrustedPaymentConfirmationSources
  /\ paymentStatus = "verified"
  /\ orderStatus = "draft"

(* validate_provider_handoff_eligibility *)
CanHandOff(paymentStatus, orderStatus) ==
  /\ paymentStatus = "verified"
  /\ orderStatus = "confirmed"
===============================================================================
