\* The console over seven plans, two sign-ins, two accounts and two keys.
SPECIFICATION Spec
CONSTANTS
  None = None
  Slots = {s1, s2}
  MaxSignIns = 2
  Plans <- MCPlans
  Days = {today, yesterday}
  Today = today
  Accounts = {a1, a2}
  Flows = {f1, f2}
  Keys = {k1, k2}
SYMMETRY Symmetry
\* Signed out without a sign-in in the plan, nothing is left to do.
CHECK_DEADLOCK FALSE
INVARIANTS
  TypeOK
  Current
  SecretKept
  ScrollLock
PROPERTIES
  SignedOutRightly
