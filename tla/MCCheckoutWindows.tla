-------------------------- MODULE MCCheckoutWindows --------------------------
(* A small instance of CheckoutWindows.                                     *)
EXTENDS CheckoutWindows, TLC

(* Payments are only compared.                                              *)
WindowSymmetry == Permutations(PaymentIds)
===============================================================================
