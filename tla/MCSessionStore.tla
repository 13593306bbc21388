--------------------------- MODULE MCSessionStore ---------------------------
\* Symmetry for the run of SessionStore.
EXTENDS SessionStore, TLC

Symmetry == Permutations(Keys) \cup Permutations(Callers)
=============================================================================
