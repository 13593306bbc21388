---------------------------- MODULE AdminConsole ----------------------------
(***************************************************************************)
(* web/src/App.tsx, pages/Login.tsx and components/Shell.tsx: the          *)
(* administration console in one browser tab, its three pages, and the     *)
(* server it calls.                                                        *)
(*                                                                         *)
(* App does not read the cookie: whether the administrator is signed in is *)
(* what the last session check, sign-in or sign-out said, until a call of  *)
(* any component is answered with 401.                                     *)
(***************************************************************************)
EXTENDS OverviewPage, AccountPage, KeysPage, Dialogs

VARIABLES
  session,  \* of App: checking (null), in or out
  page,     \* of App: the page of the location's hash
  signing   \* of Login: loading

Pages == {"overview", "account", "keys"}

\* The calls there are, what each is about, and what its answer may be.
Ops ==
  {"session", "login", "logout", "overview", "password", "keys", "create", "revoke"}
    \cup Telling \cup Buttons

Args(op) ==
  CASE op = "overview" -> Days
    [] op = "poll" -> Flows
    [] op = "revoke" -> Keys
    [] OTHER -> {None}

Views(op) ==
  CASE op = "session" -> {"in", "out"}
    [] op = "login" -> 1..MaxSignIns
    [] op = "overview" -> Days
    [] op \in Telling -> Accounts \cup {NoAccount}
    [] op = "device" -> Flows
    [] op = "keys" -> [Keys -> KeyStates]
    [] op \in {"create", "revoke"} -> Keys
    [] OTHER -> {None}

CallType(op) ==
  [op : {op}, arg : Args(op), to : Callers, mine : BOOLEAN, cookie : 0..MaxSignIns,
   status : Statuses, view : Views(op) \cup {None}, old : BOOLEAN]

ASSUME NoneAssumption ==
  /\ None \notin Accounts \cup Keys \cup {NoAccount}
  /\ \A op \in Ops : None \notin CallType(op)

app == <<session, page, signing>>
pages == <<overview, account, keyPage>>
vars == <<plan, calls, cookie, server, heard, app, pages, accountServer, stored, given, scroll>>

Init ==
  /\ CallsInit("session")
  /\ session = "checking" /\ page \in Pages \cap plan /\ signing = FALSE
  /\ overview = OverviewInit /\ account = AccountInit /\ keyPage = KeysInit
  /\ row = NoAccount /\ live = {}
  /\ stored = [k \in Keys |-> "unused"] /\ given = {}
  /\ scroll = ScrollInit

-----------------------------------------------------------------------------
\* Pages come and go; a page is named as its first call is.

Mounted(p) == session = "in" /\ page = p

KeepingAll(cs, caller) == cs

\* A component that goes keeps nothing, and hears nothing of its calls.
Orphaned(cs, caller) ==
  Update(cs, {s \in Slots : cs[s] # None /\ cs[s].to = caller},
         LAMBDA c : [c EXCEPT !.to = "nobody", !.mine = FALSE])

NewPages ==
  /\ overview' = OverviewInit /\ account' = AccountInit /\ keyPage' = KeysInit
  /\ given' = given \cup Abandoned
  /\ heard' = [late |-> FALSE, missed |-> FALSE]

FirstLoad(p) ==
  CASE p = "overview" -> Call("overview", Today, "page")
    [] p = "account" -> LoadAccount
    [] p = "keys" -> LoadKeys("page")

\* The page that is up is replaced: the load of the new one takes the slot.
Mount(cs, s, p) ==
  /\ NewPages
  /\ calls' = [Orphaned(Orphaned(cs, "page"), "login") EXCEPT ![s] = FirstLoad(p)]

Unmount(cs) ==
  /\ NewPages
  /\ calls' = Orphaned(cs, "page")

Staying == UNCHANGED <<pages, given, heard>>

-----------------------------------------------------------------------------
\* App.

Navigate(s, p) ==
  /\ session = "in" /\ p # page /\ calls[s] = None /\ p \in plan
  /\ page' = p
  /\ Mount(calls, s, p)
  /\ UNCHANGED <<cookie, server, session, signing, accountServer, stored>>

\* The session is checked: anything but a page load that says so is a sign-out.
SessionChecked(s) ==
  /\ Answered(s, "session")
  /\ session' = IF Ok(s) /\ calls[s].view = "in" THEN "in" ELSE "out"
  /\ IF session' = session
     THEN /\ calls' = Done(calls, s)
          /\ Staying /\ UNCHANGED signing
     ELSE IF session' = "in"
          THEN Mount(calls, s, page) /\ signing' = FALSE
          ELSE Unmount(Done(calls, s)) /\ UNCHANGED signing
  /\ UNCHANGED <<cookie, server, page, accountServer, stored>>

\* setSession with authenticated false, while a session is known.
SignedOut(cs) ==
  /\ session' = IF session = "checking" THEN session ELSE "out"
  /\ IF session = "in" THEN Unmount(cs) ELSE calls' = cs /\ Staying

\* api dispatches the event whoever has made the call, and however long ago;
\* the form that hears of its own call is enabled again.
UnauthorizedAnswered(s) ==
  /\ Unauthorized(s)
  /\ SignedOut(Done(calls, s))
  /\ signing' = (signing /\ calls[s].to # "login")
  /\ UNCHANGED <<cookie, server, page, accountServer, stored>>

\* The backdrop of a dialog lies over the sidebar.
Logout(s) ==
  /\ session = "in" /\ DOMAIN scroll.kept = {}
  /\ Ask(s, Call("logout", None, "app"))
  /\ Staying
  /\ UNCHANGED <<cookie, server, app, accountServer, stored>>

\* The answer removes the cookie, whichever it is by now.
LogoutAnswered(s) ==
  /\ Answered(s, "logout")
  /\ IF Ok(s)
     THEN /\ cookie' = 0
          /\ SignedOut(Done(calls, s))
     ELSE /\ calls' = Done(calls, s)
          /\ UNCHANGED <<cookie, session>> /\ Staying
  /\ UNCHANGED <<server, page, signing, accountServer, stored>>

\* onChanged of the password's dialog: the same event as for a 401.
PasswordAnswered(s) ==
  /\ Answered(s, "password") /\ Ok(s)
  /\ SignedOut(Done(calls, s))
  /\ UNCHANGED <<cookie, server, page, signing, accountServer, stored>>

-----------------------------------------------------------------------------
\* Login.

SignIn(s) ==
  /\ session = "out" /\ ~signing
  /\ Ask(s, Call("login", None, "login"))
  /\ signing' = TRUE
  /\ Staying
  /\ UNCHANGED <<cookie, server, session, page, accountServer, stored>>

\* onSuccess checks the session, also when the form has gone by then.
LoginAnswered(s) ==
  /\ Answered(s, "login")
  /\ IF Ok(s)
     THEN /\ cookie' = calls[s].view
          /\ calls' = [calls EXCEPT ![s] = [Call("session", None, "app") EXCEPT !.cookie = cookie']]
     ELSE calls' = Done(calls, s) /\ UNCHANGED cookie
  /\ signing' = (signing /\ calls[s].to # "login")
  /\ Staying
  /\ UNCHANGED <<server, session, page, accountServer, stored>>

-----------------------------------------------------------------------------
\* The server's part in it (AdminAccess has the whole of it).

ServeSession(s) ==
  /\ Sent(s, "session")
  /\ Reply(s, IF Accepted(s) THEN "in" ELSE "out")
  /\ UNCHANGED <<cookie, server, heard>>

\* The right password, or a wrong one.
ServeLogin(s) ==
  /\ Sent(s, "login")
  /\ \/ /\ signIns < MaxSignIns
        /\ signIns' = signIns + 1
        /\ valid' = valid \cup {signIns'}
        /\ Reply(s, signIns')
     \/ /\ calls' = Replied(calls, s, "unauthorized", None)
        /\ UNCHANGED server
  /\ UNCHANGED <<cookie, heard>>

ServeLogout(s) ==
  /\ Admitted(s, "logout")
  /\ valid' = valid \ {calls[s].cookie}
  /\ Reply(s, None)
  /\ UNCHANGED <<cookie, signIns, heard>>

-----------------------------------------------------------------------------
\* The pages' steps.

OnOverview(step) == Mounted("overview") /\ step
                      /\ UNCHANGED <<server, app, account, keyPage, accountServer, stored, given>>

OnAccount(step) == Mounted("account") /\ step
                     /\ UNCHANGED <<server, app, overview, keyPage, accountServer, stored, given>>

OnKeys(step) == Mounted("keys") /\ step
                  /\ UNCHANGED <<server, app, overview, account, accountServer, stored>>

\* Nobody is there to hear it; what the caller did next it does all the same.
NobodyAnswered(s) ==
  /\ calls[s] # None /\ calls[s].to = "nobody" /\ calls[s].status \in {"ok", "failed"}
  /\ calls[s].op \notin {"login", "logout", "session"}
  /\ calls[s].op = "password" => ~Ok(s)
  /\ calls' = IF Ok(s) /\ calls[s].op \in {"create", "revoke"}
              THEN ThenLoad(calls, s, "nobody")
              ELSE Done(calls, s)
  /\ Miss(s)
  /\ given' = given \cup NeverShown(s)
  /\ UNCHANGED <<cookie, server, app, pages, accountServer, stored>>

UserStep(s) ==
  \/ \E p \in Pages : Navigate(s, p)
  \/ Logout(s)
  \/ SignIn(s)
  \/ OnOverview(OverviewUser(s))
  \/ OnAccount(AccountUser(s))
  \/ OnKeys(SubmitCreate(s))
  \/ OnKeys(Revoke(s))

DialogStep ==
  \/ OnOverview(Select)
  \/ \E form \in Forms : OnAccount(OpenForm(form))
  \/ \E form \in Forms : OnAccount(CloseForm(form)) /\ Closable(form)
  \/ OnAccount(EndDevice)
  \/ OnKeys(OpenCreate)
  \/ OnKeys(CloseCreate) /\ Closable("create")
  \/ OnKeys(CloseSecret) /\ Closable("secret")

HeardStep(s) ==
  \/ SessionChecked(s)
  \/ UnauthorizedAnswered(s)
  \/ LogoutAnswered(s)
  \/ PasswordAnswered(s)
  \/ LoginAnswered(s)
  \/ OnOverview(OverviewAnswered(s))
  \/ OnAccount(AccountHears(s))
  \/ OnKeys(KeysHears(s))
  \/ NobodyAnswered(s)

ServerStep(s) ==
  /\ \/ /\ \/ ServeSession(s)
           \/ ServeLogin(s)
           \/ ServeLogout(s)
           \/ ServeOverview(s)
           \/ Refuse(s)
           \/ Fail(s)
        /\ UNCHANGED <<accountServer, stored, given>>
     \/ AccountServes(s) /\ UNCHANGED <<stored, given>>
     \/ KeysServes(s) /\ UNCHANGED accountServer
  /\ UNCHANGED <<app, pages>>

Elsewhere ==
  \E t \in Tokens : EndSession(t) /\ UNCHANGED <<app, pages, accountServer, stored, given>>

\* The dialogs of the page that is up, after the step.
DialogsOf(p) ==
  CASE p = "account" -> AccountDialogs
    [] p = "keys" -> KeyDialogs
    [] OTHER -> {}

Next ==
  /\ \/ \E s \in Slots : UserStep(s) \/ ServerStep(s) \/ HeardStep(s)
     \/ DialogStep
     \/ Elsewhere
  /\ Rendered(DialogsOf(page)')
  /\ UNCHANGED plan

Spec == Init /\ [][Next]_vars

-----------------------------------------------------------------------------
\* What the console keeps is of the kinds App.tsx, the pages and types.ts
\* declare, and only the page that is up has calls of its own.
TypeOK ==
  /\ session \in {"checking", "in", "out"} /\ page \in Pages /\ signing \in BOOLEAN
  /\ cookie \in 0..MaxSignIns /\ valid \subseteq 1..signIns /\ signIns \in 0..MaxSignIns
  /\ overview \in OverviewType /\ account \in AccountType /\ keyPage \in KeysType
  /\ row \in Accounts \cup {NoAccount} /\ live \subseteq Flows
  /\ stored \in [Keys -> KeyStates] /\ given \subseteq Keys
  /\ ScrollType
  /\ \A s \in UnderWay :
       /\ calls[s].op \in Ops /\ calls[s] \in CallType(calls[s].op)
       /\ calls[s].mine => calls[s].to # "nobody"
       /\ calls[s].to = "page" => session = "in"
       /\ calls[s].to = "login" => session = "out"

\* The console signs the administrator out only when the server has, or when
\* an answer says so that was asked for with another cookie, or whose session
\* check failed, or for a password that was wrong: a wrong current password
\* signs out too (App.tsx:26-36, 55-58, api.ts:29).
SignedOutRightly ==
  [][session = "in" /\ session' = "out" =>
       \/ cookie' \notin valid'
       \/ \E s \in UnderWay :
            /\ calls'[s] = None
            /\ \/ calls[s].cookie # cookie
               \/ calls[s].op = "session" /\ calls[s].status = "failed"
               \/ calls[s].op \in {"login", "password"} /\ calls[s].status = "unauthorized"]_vars

\* Once nothing is under way, each page shows what the server has
\* (Account.tsx:17-102, Keys.tsx:13-19, Overview.tsx:14-33).
Current == ShownAccount /\ ShownKeys /\ ShownDay
=============================================================================
