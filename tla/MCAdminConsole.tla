--------------------------- MODULE MCAdminConsole ---------------------------
(***************************************************************************)
(* AdminConsole with two calls under way at a time.  A behaviour keeps to  *)
(* the calls of one plan: signing in and out beside a page, each pair of   *)
(* ways to connect an account, what there is to do with one, and the keys  *)
(* beside another page or a sign-out.                                      *)
(***************************************************************************)
EXTENDS AdminConsole, TLC

MCPlans ==
  {{"login", "logout", "overview", "keys"},
   {"login", "logout", "password", "account", "import"},
   {"overview", "account", "device", "poll"},
   {"account", "device", "poll", "browser", "callback", "import"},
   {"account", "browser", "callback", "import", "quota", "disconnect"},
   {"overview", "keys", "create", "revoke"},
   {"login", "keys", "create"}}

\* Calls, accounts, device logins and keys are interchangeable.
Symmetry ==
  Permutations(Slots) \cup Permutations(Accounts) \cup Permutations(Flows) \cup Permutations(Keys)
=============================================================================
