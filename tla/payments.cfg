\* Two orders of two customers that compete for provider references.
SPECIFICATION Spec
CONSTANTS
  None = None
  o1 = o1
  o2 = o2
  c1 = c1
  c2 = c2
  a1 = a1
  a2 = a2
  Orders = {o1, o2}
  Customers = {c1, c2}
  Amounts = {a1, a2}
  Owner <- MCOwner
  Total <- MCTotal
  PaymentIds = {p1, p2}
  References = {r1, r2}
  EventIds = {e1, e2}
  EventReferences = {}
SYMMETRY IdSymmetry
\* An order may stay where it is for good: delivered, cancelled, or waiting.
CHECK_DEADLOCK FALSE
INVARIANTS
  ReferenceNamesOnePayment
  OrderPaidByOneVerifiedPayment
  OneActiveCheckout
PROPERTIES
  PaymentMovesClaimAnEvent
  SettledPaymentsStay
  HandoffOwedOnce
