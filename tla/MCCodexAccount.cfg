\* Two request goroutines, two accounts, three grants, one login flow.
SPECIFICATION FairSpec
CONSTANTS
  a = a
  b = b
  g1 = g1
  g2 = g2
  g3 = g3
  None = None
  Procs = {p1, p2}
  Accounts = {a, b}
  Grants = {g1, g2, g3}
  Flows = {f1}
  Owner <- MCOwner
INVARIANTS
  TypeOK
  RowIsLastLogin
  ForeignQuotaOnlyIfLate
PROPERTIES
  UsedOnce
  RefreshKeepsToken
  CallsReturn
