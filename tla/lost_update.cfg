\* Two requests validated on the same row.
SPECIFICATION Spec
CONSTANTS
  None = None
  Sessions = {s1, s2}
  PaymentIds = {p1}
  References = {r1}
  EventIds = {e1}
\* An order may stay where it is for good: delivered, cancelled, or waiting.
CHECK_DEADLOCK FALSE
PROPERTIES
  CommittedStepsAreTransitions
