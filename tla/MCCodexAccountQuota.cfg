\* Two request goroutines, two accounts, three grants, no login flow.
SPECIFICATION Spec
CONSTANTS
  a = a
  b = b
  g1 = g1
  g2 = g2
  g3 = g3
  None = None
  Procs = {p1, p2}
  Accounts = {a, b}
  Grants = {g1, g2, g3}
  Flows = {}
  Owner <- MCOwner
INVARIANTS
  QuotaOfStoredAccount
