------------------------- MODULE MCOverlappingSessions -------------------------
(* Small instances of OverlappingSessions.                                  *)
EXTENDS OverlappingSessions, TLC

(* Sessions, ids and references are only compared.                          *)
SessionSymmetry ==
  Permutations(Sessions) \cup Permutations(PaymentIds)
  \cup Permutations(EventIds) \cup Permutations(References)
===============================================================================
