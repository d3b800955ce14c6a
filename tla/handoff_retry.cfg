\* One paid order whose handoff may fail, under fairness of the handoff.
SPECIFICATION FairSpec
CONSTANTS
  None = None
  o1 = o1
  o2 = o2
  c1 = c1
  c2 = c2
  a1 = a1
  a2 = a2
  Orders = {o1}
  Customers = {c1, c2}
  Amounts = {a1, a2}
  Owner <- MCOwner
  Total <- MCTotal
  PaymentIds = {p1}
  References = {r1}
  EventIds = {e1}
  EventReferences = {}
\* An order may stay where it is for good: delivered, cancelled, or waiting.
CHECK_DEADLOCK FALSE
PROPERTIES
  FailedTransmissionsAreRetried
