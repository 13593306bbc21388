--------------------------- MODULE MCWebSocketTurn ---------------------------
\* Values of the constants for the runs of WebSocketTurn.
EXTENDS WebSocketTurn, TLC

CONSTANTS a, b

\* A new thread with both settings or with neither; an append that sets
\* nothing, new instructions, or new tools and blank instructions.
MCRequests ==
  {r \in Request :
     <<r.cont, r.tools, r.wording>> \in
       {<<FALSE, TRUE, "text">>, <<FALSE, FALSE, "absent">>,
        <<TRUE, FALSE, "absent">>, <<TRUE, FALSE, "text">>,
        <<TRUE, TRUE, "blank">>}}

AccountSymmetry == Permutations(Accounts)
=============================================================================
