\* A response shown over the HTTP fallback and not committed, then an append.
SPECIFICATION Spec
CONSTANTS
  None = None
  a = a
  b = b
  Accounts = {a, b}
  Requests <- MCRequests
  HTTPFallback = TRUE
  MaxTurns = 3
SYMMETRY AccountSymmetry
INVARIANT ContextAlwaysComplete
CHECK_DEADLOCK FALSE
