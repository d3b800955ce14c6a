\* Three checkouts that live three ticks, two ticks to the millisecond, and
\* workers whose clocks are one tick off.
SPECIFICATION Spec
CONSTANTS
  PaymentIds = {p1, p2, p3}
  Millisecond = 2
  TimeToLive = 3
  Skew = 1
  MaxTime = 9
SYMMETRY WindowSymmetry
INVARIANTS
  WindowsTypeOK
  OneLinkIsOpen
