\* Two sessions that move, initialize and confirm one order at once.
SPECIFICATION Spec
CONSTANTS
  None = None
  Sessions = {s1, s2}
  PaymentIds = {p1, p2, p3}
  References = {r1}
  EventIds = {e1, e2}
SYMMETRY SessionSymmetry
\* An order may stay where it is for good: delivered, cancelled, or waiting.
CHECK_DEADLOCK FALSE
INVARIANTS
  SessionTypeOK
  OneLiveCheckout
PROPERTIES
  HoldsAreOnlyResolved
  CheckoutsOpenForUnpaidDrafts
  EventsActOnce
  UndisturbedCommitsAreTransitions
