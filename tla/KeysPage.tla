------------------------------ MODULE KeysPage ------------------------------
(***************************************************************************)
(* web/src/pages/Keys.tsx: the API keys, and the only time the secret of a *)
(* new one is shown.                                                       *)
(***************************************************************************)
EXTENDS ConsoleCalls

CONSTANT Keys  \* bound: the keys there can be

KeyStates == {"unused", "active", "revoked"}

VARIABLES
  keyPage,  \* the state of the component
  stored,   \* the server: the keys
  given     \* history: keys whose secret the administrator has put away, or
            \* whose secret it was too late to show

KeysInit ==
  [shown |-> [k \in Keys |-> "unused"], loading |-> TRUE, create |-> "closed", secret |-> None]

KeysType ==
  [shown : [Keys -> KeyStates], loading : BOOLEAN,
   create : {"closed", "open", "sent"}, secret : Keys \cup {None}]

KeyDialogs ==
  (IF keyPage.create = "closed" THEN {} ELSE {"create"})
    \cup (IF keyPage.secret = None THEN {} ELSE {"secret"})

\* load, on behalf of a page that may have gone.
LoadKeys(to) == Call("keys", None, to)

-----------------------------------------------------------------------------
\* What the administrator does.

OpenCreate ==
  /\ KeyDialogs = {}
  /\ keyPage' = [keyPage EXCEPT !.create = "open"]
  /\ UNCHANGED <<browser, heard, given>>

SubmitCreate(s) ==
  /\ keyPage.create = "open"
  /\ Ask(s, Call("create", None, "page"))
  /\ keyPage' = [keyPage EXCEPT !.create = "sent"]
  /\ UNCHANGED <<cookie, heard, given>>

CloseCreate ==
  /\ keyPage.create # "closed"
  /\ keyPage' = [keyPage EXCEPT !.create = "closed"]
  /\ calls' = Disowned(calls, {"create"})
  /\ UNCHANGED <<cookie, heard, given>>

CloseSecret ==
  /\ keyPage.secret # None
  /\ given' = given \cup {keyPage.secret}
  /\ keyPage' = [keyPage EXCEPT !.secret = None]
  /\ UNCHANGED <<browser, heard>>

\* Nothing keeps the button from being pressed again.
Revoke(s) ==
  /\ KeyDialogs = {}
  /\ \E k \in Keys : keyPage.shown[k] = "active" /\ Ask(s, Call("revoke", k, "page"))
  /\ UNCHANGED <<cookie, heard, keyPage, given>>

-----------------------------------------------------------------------------
\* The server.

ServeKeys(s) ==
  /\ Admitted(s, "keys")
  /\ Reply(s, stored)
  /\ UNCHANGED <<cookie, server, heard, stored, given>>

StoreKey(s, k, state) ==
  /\ stored' = [stored EXCEPT ![k] = state]
  /\ calls' = Replied(Outdated(calls, {"keys"}, {"ok"}), s, "ok", k)
  /\ UNCHANGED <<cookie, server, heard, given>>

ServeCreate(s) ==
  /\ Admitted(s, "create")
  /\ \E k \in Keys : stored[k] = "unused" /\ StoreKey(s, k, "active")

\* A key that is revoked already is not found: Fail.
ServeRevoke(s) ==
  /\ Admitted(s, "revoke")
  /\ stored[calls[s].arg] = "active"
  /\ StoreKey(s, calls[s].arg, "revoked")

KeysServes(s) ==
  \/ ServeKeys(s)
  \/ ServeCreate(s)
  \/ ServeRevoke(s)

-----------------------------------------------------------------------------
\* The answers.

KeysAnswered(s) ==
  /\ Answered(s, "keys") /\ calls[s].to = "page"
  /\ keyPage' = [keyPage EXCEPT !.loading = FALSE,
                                !.shown = IF Ok(s) THEN calls[s].view ELSE @]
  /\ IF Ok(s) THEN Learn(s) ELSE heard' = [heard EXCEPT !.missed = TRUE]
  /\ calls' = Done(calls, s)
  /\ UNCHANGED <<cookie, given>>

\* The secret that goes when a form that was closed early brings another one.
Overwritten(s) ==
  IF keyPage.secret = None \/ calls[s].mine THEN {} ELSE {keyPage.secret}

WithoutLoad(cs, s, to) == Done(cs, s)

\* The list is loaded again, by a page that has gone too.
ThenLoad(cs, s, to) == [cs EXCEPT ![s] = LoadKeys(to)]

CreatedIfOpen(s) ==
  IF calls[s].mine THEN [keyPage EXCEPT !.create = "closed", !.secret = calls[s].view] ELSE keyPage

\* onCreated: the dialog that is open now is closed.
Created(s) == [keyPage EXCEPT !.create = "closed", !.secret = calls[s].view]

CreateAnswered(s) ==
  /\ Answered(s, "create") /\ calls[s].to = "page" /\ Ok(s)
  /\ keyPage' = Created(s)
  /\ given' = given \cup Overwritten(s)
  /\ calls' = ThenLoad(Disowned(calls, {"create"}), s, "page")
  /\ UNCHANGED <<cookie, heard>>

\* The secret of a create that failed, or is answered once the page has gone.
NeverShown(s) == IF calls[s].op = "create" THEN {calls[s].view} \cap Keys ELSE {}

CreateFailed(s) ==
  /\ Answered(s, "create") /\ calls[s].to = "page" /\ ~Ok(s)
  /\ keyPage' = [keyPage EXCEPT !.create = IF calls[s].mine THEN "open" ELSE @]
  /\ calls' = Done(calls, s)
  /\ given' = given \cup NeverShown(s)
  /\ Miss(s)
  /\ UNCHANGED cookie

RevokeAnswered(s) ==
  /\ Answered(s, "revoke") /\ calls[s].to = "page"
  /\ IF Ok(s)
     THEN calls' = ThenLoad(calls, s, "page") /\ UNCHANGED heard
     ELSE calls' = Done(calls, s) /\ Miss(s)
  /\ UNCHANGED <<cookie, keyPage, given>>

KeysHears(s) ==
  \/ KeysAnswered(s)
  \/ CreateAnswered(s)
  \/ CreateFailed(s)
  \/ RevokeAnswered(s)

\* The page goes, and with it the secret it shows.
Abandoned == {keyPage.secret} \cap Keys

-----------------------------------------------------------------------------
\* When nothing is under way the list is the server's, unless it was loaded
\* before the last change and heard after it, or not at all (Keys.tsx:13-19).
ShownKeys ==
  Quiet /\ ~keyPage.loading /\ ~heard.late /\ ~heard.missed => keyPage.shown = stored

\* README.md: the secret is shown once, when the key is created.  Until the
\* administrator has closed the dialog that shows it, it is shown or on its
\* way: neither closing the form early nor creating another key loses it, if
\* the page stays, the answer comes, and no form that was closed early brings
\* another one over it (Keys.tsx:38-39, 46).
SecretKept ==
  \A k \in Keys :
    stored[k] # "unused" /\ k \notin given =>
      \/ keyPage.secret = k
      \/ \E s \in UnderWay :
           calls[s].op = "create" /\ calls[s].view = k /\ calls[s].status \in {"ok", "failed"}
=============================================================================
