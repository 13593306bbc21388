\* Four turns on one connection, the fallback on, the account switched at will.
SPECIFICATION Spec
CONSTANTS
  None = None
  a = a
  b = b
  Accounts = {a, b}
  Requests <- MCRequests
  HTTPFallback = TRUE
  MaxTurns = 4
SYMMETRY AccountSymmetry
INVARIANTS
  TypeOK
  OwnSocket
  ContextComplete
  CarriedOver
  SubmittedOnce
CHECK_DEADLOCK FALSE
