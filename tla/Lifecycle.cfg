\* One HTTP request and two WebSockets about a shutdown.
SPECIFICATION FairSpec
CONSTANTS
  Requests = {h1, w1, w2}
  WebSockets = {w1, w2}
INVARIANTS
  TypeOK
  ShutdownInOrder
  IdleSignal
PROPERTY ShutdownEndsRequests
CHECK_DEADLOCK FALSE
