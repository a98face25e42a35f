\* Every usage that Usage names, failing assertions included.
SPECIFICATION Spec
CONSTANTS
  Promises = {p1, p2, p3}
  Futures = {f1, f2}
  Callbacks = {c1}
  Notifies = {n1, n2}
  NULL = NULL
  MaxDepth = 2
  Usage = {"wait_on_then", "pending_cthen", "stale_attached", "cancel_running"}
INVARIANTS
  TypeOK
  MatchedPair
  WaitersInOneList
  CancellableHasCancellablePromise
SYMMETRY Symmetry
CHECK_DEADLOCK FALSE
