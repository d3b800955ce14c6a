\* Three requests on two orders that share an event id and a reference.
SPECIFICATION FairSpec
CONSTANTS
  w1 = w1
  w2 = w2
  s1 = s1
  s2 = s2
  s3 = s3
  Workers = {w1, w2}
  Sessions = {s1, s2, s3}
  Home <- TwoShareAWorker
  Orders = {o1, o2}
  References = {r1}
  EventIds = {e1, e2}
INVARIANTS
  LockTypeOK
  NobodyWaitsInACircle
  ReplayedEventsHaveActed
PROPERTIES
  SharedReferencesOverlapped
  EveryRequestIsAnswered
