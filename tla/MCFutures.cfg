\* The usage of the program: four promises, two futures, one waiter.
SPECIFICATION Spec
CONSTANTS
  Promises = {p1, p2, p3, p4}
  Futures = {f1, f2}
  Callbacks = {c1}
  Notifies = {n1}
  NULL = NULL
  MaxDepth = 2
  Usage = {}
INVARIANTS
  NoAssertionFails
  ClosuresHaveOneHome
  PendingHasOneSource
  BackwardsLeadsUpstream
  NotifiesNeedMatchingFuture
PROPERTIES
  ImplementsContinuations
SYMMETRY Symmetry
CHECK_DEADLOCK FALSE
