---------------------------- MODULE MCPathAOrders -----------------------------
(* Small instances of PathAOrders.                                          *)
EXTENDS PathAOrders, TLC

CONSTANTS c1, c2, a1, a2, o1, o2

(* Orders o1 and o2 have different owners and different totals.             *)
MCOwner == [o \in Orders |-> IF o = o1 THEN c1 ELSE c2]
MCTotal == [o \in Orders |-> IF o = o1 THEN a1 ELSE a2]

(* Ids and references are only compared, so they may be renamed.            *)
IdSymmetry == Permutations(PaymentIds) \cup Permutations(EventIds)

ReferenceSymmetry == Permutations(EventReferences)
===============================================================================
