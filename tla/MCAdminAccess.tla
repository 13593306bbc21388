---------------------------- MODULE MCAdminAccess ----------------------------
(***************************************************************************)
(* AdminAccess with three calls, whose goroutines are interchangeable, as  *)
(* are tokens and passwords.                                               *)
(***************************************************************************)
EXTENDS AdminAccess, TLC

Symmetry == Permutations(Calls) \cup Permutations(Tokens) \cup Permutations(Passwords)
=============================================================================
