--------------------------- MODULE MCCodexAccount ---------------------------
(* Instances of CodexAccount for TLC. *)
EXTENDS CodexAccount, TLC

CONSTANTS a, b, g1, g2, g3

\* Two grants of one account, so that it can be refreshed, and one of another.
MCOwner == (g1 :> a) @@ (g2 :> a) @@ (g3 :> b)

=============================================================================
