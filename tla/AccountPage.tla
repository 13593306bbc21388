----------------------------- MODULE AccountPage -----------------------------
(***************************************************************************)
(* web/src/pages/Account.tsx: the page of the upstream account, its four   *)
(* dialogs and the polling of a device login.  Calls overlap: a dialog can *)
(* be closed and opened again while its call is under way, the polls of a  *)
(* device login do not wait for each other, and one `busy' serves them all.*)
(***************************************************************************)
EXTENDS ConsoleCalls

CONSTANTS Accounts, \* accounts to sign in to
          Flows     \* bound: device logins something still refers to

NoAccount == "no account"

VARIABLES
  account,  \* the state of the component
  row,      \* the server: the account that is connected, or NoAccount
  live      \* the server: device logins that have not completed

accountServer == <<row, live>>

\* A form that is sent stays open until the answer comes.
FormStates == {"closed", "open", "sent"}

\* The dialog a call was submitted from.
FormOf == [callback |-> "browser", import |-> "import", password |-> "password"]

Forms == {"browser", "import", "password"}

\* The calls behind the buttons of the page.
Buttons == {"device", "browser", "quota", "disconnect"}

\* Calls whose answer tells which account is connected.
Telling == {"account", "quota", "poll", "callback", "import", "disconnect"}

AccountInit ==
  [of |-> None, quota |-> None, loading |-> TRUE, busy |-> None,
   device |-> None, failures |-> 0,
   browser |-> "closed", import |-> "closed", password |-> "closed"]

AccountType ==
  LET shown == Accounts \cup {NoAccount, None} IN
  [of : shown, quota : shown, loading : BOOLEAN, busy : Buttons \cup {None},
   device : Flows \cup {None}, failures : 0..2,
   browser : FormStates, import : FormStates, password : FormStates]

AccountDialogs ==
  {form \in Forms : account[form] # "closed"}
    \cup (IF account.device = None THEN {} ELSE {"device"})

\* A dialog's backdrop lies over the page.
Usable == ~account.loading /\ AccountDialogs = {}

Connected == account.of \in Accounts

-----------------------------------------------------------------------------
\* What the administrator does.

LoadAccount == Call("account", None, "page")

Press(s, op) ==
  /\ Usable /\ account.busy # op
  /\ CASE op = "device" -> ~Connected
       [] op = "browser" -> TRUE
       [] OTHER -> Connected
  /\ Ask(s, Call(op, None, "page"))
  /\ account' = [account EXCEPT !.busy = op]
  /\ UNCHANGED <<cookie, heard>>

OpenForm(form) ==
  /\ Usable
  /\ form = "password" \/ (form = "import" /\ ~Connected)
  /\ account' = [account EXCEPT ![form] = "open"]
  /\ UNCHANGED <<browser, heard>>

Submit(s, op) ==
  /\ account[FormOf[op]] = "open"
  /\ Ask(s, Call(op, None, "page"))
  /\ account' = [account EXCEPT ![FormOf[op]] = "sent"]
  /\ UNCHANGED <<cookie, heard>>

\* The call a closed form has sent goes on, and its answer is still applied.
CloseForm(form) ==
  /\ account[form] # "closed"
  /\ calls' = Disowned(calls, {op \in DOMAIN FormOf : FormOf[op] = form})
  /\ account' = [account EXCEPT ![form] = "closed"]
  /\ UNCHANGED <<cookie, heard>>

-----------------------------------------------------------------------------
\* The device login: the effect that polls it is there while `device' is.

Polls == {"poll"}

StopPolling(a) == [a EXCEPT !.device = None, !.failures = 0]

\* A tick of the interval: it does not wait for the last poll.
Poll(s) ==
  /\ account.device # None
  /\ Ask(s, Call("poll", account.device, "page"))
  /\ UNCHANGED <<cookie, heard, account>>

\* A tick after the code has expired, or the dialog is closed.
EndDevice ==
  /\ account.device # None
  /\ account' = StopPolling(account)
  /\ calls' = Disowned(calls, Polls)
  /\ UNCHANGED <<cookie, heard>>

AccountUser(s) ==
  \/ \E op \in Buttons : Press(s, op)
  \/ \E op \in DOMAIN FormOf : Submit(s, op)
  \/ Poll(s)

-----------------------------------------------------------------------------
\* The server.

ServeAccount(s) ==
  /\ Admitted(s, "account")
  /\ Reply(s, row)
  /\ UNCHANGED <<cookie, server, heard, accountServer>>

\* A new account replaces the old one: answers with the old one are out of date.
Tell(s, now) ==
  /\ row' = now
  /\ calls' = Replied(Outdated(calls, Telling, {"ok"}), s, "ok", now)

Replace(s) ==
  /\ Admitted(s, "callback") \/ Admitted(s, "import")
  /\ \E a \in Accounts : Tell(s, a)
  /\ UNCHANGED <<cookie, server, heard, live>>

ServeDisconnect(s) ==
  /\ Admitted(s, "disconnect")
  /\ Tell(s, NoAccount)
  /\ UNCHANGED <<cookie, server, heard, live>>

ServeQuota(s) ==
  /\ Admitted(s, "quota") /\ row # NoAccount
  /\ Reply(s, row)
  /\ UNCHANGED <<cookie, server, heard, accountServer>>

ServeBrowser(s) ==
  /\ Admitted(s, "browser")
  /\ Reply(s, None)
  /\ UNCHANGED <<cookie, server, heard, accountServer>>

\* A new login: one that nothing refers to stands for it.
Unreferenced(f) ==
  /\ account.device # f
  /\ \A s \in UnderWay : calls[s].arg # f /\ calls[s].view # f

ServeDevice(s) ==
  /\ Admitted(s, "device")
  /\ \E f \in Flows :
       /\ Unreferenced(f)
       /\ Reply(s, f)
       /\ live' = live \cup {f}
  /\ UNCHANGED <<cookie, server, heard, row>>

PollPending(s) ==
  /\ Admitted(s, "poll") /\ calls[s].arg \in live
  /\ Reply(s, None)
  /\ UNCHANGED <<cookie, server, heard, accountServer>>

\* It has been authorised: the account is stored and the login is forgotten.
PollComplete(s) ==
  /\ Admitted(s, "poll") /\ calls[s].arg \in live
  /\ \E a \in Accounts : Tell(s, a)
  /\ live' = live \ {calls[s].arg}
  /\ UNCHANGED <<cookie, server, heard>>

\* The cookies of the old password are void.
ServePassword(s) ==
  /\ Admitted(s, "password")
  /\ Reply(s, None)
  /\ valid' = {}
  /\ UNCHANGED <<cookie, signIns, heard, accountServer>>

\* The current password is wrong: the same status as for a call signed out.
WrongPassword(s) ==
  /\ Admitted(s, "password")
  /\ calls' = Replied(calls, s, "unauthorized", None)
  /\ UNCHANGED <<cookie, server, heard, accountServer>>

AccountServes(s) ==
  \/ ServeAccount(s)
  \/ Replace(s)
  \/ ServeDisconnect(s)
  \/ ServeQuota(s)
  \/ ServeBrowser(s)
  \/ ServeDevice(s)
  \/ PollPending(s)
  \/ PollComplete(s)
  \/ ServePassword(s)
  \/ WrongPassword(s)

-----------------------------------------------------------------------------
\* The answers.

FromPage(s, op) == Answered(s, op) /\ calls[s].to = "page"

SetAccountKeepingQuota(a, now) ==
  [a EXCEPT !.of = now, !.quota = IF @ \in Accounts THEN @ ELSE now]

\* setAccount: the quota shown is the new account's own, if it has one.
SetAccount(a, now) == [a EXCEPT !.of = now, !.quota = now]

\* An answer that fails, or finds that what it was for has gone.
Unheard(s) ==
  /\ calls' = Done(calls, s)
  /\ Miss(s)

AccountAnswered(s) ==
  /\ FromPage(s, "account")
  /\ LET loaded == [account EXCEPT !.loading = FALSE] IN
     account' = IF Ok(s) THEN SetAccount(loaded, calls[s].view) ELSE loaded
  /\ calls' = Done(calls, s)
  /\ IF Ok(s) THEN Learn(s) ELSE heard' = [heard EXCEPT !.missed = TRUE]
  /\ UNCHANGED cookie

\* finally: the busy of whichever call it is now is cleared.
Idle(a) == [a EXCEPT !.busy = None]

PressFailed(s) ==
  /\ \E op \in Buttons : FromPage(s, op)
  /\ ~Ok(s)
  /\ account' = Idle(account)
  /\ Unheard(s)
  /\ UNCHANGED cookie

DeviceStarted(s) ==
  /\ FromPage(s, "device") /\ Ok(s)
  /\ account' = [Idle(account) EXCEPT !.browser = "closed", !.device = calls[s].view, !.failures = 0]
  /\ calls' = Done(Disowned(calls, Polls \cup {"callback"}), s)
  /\ UNCHANGED <<cookie, heard>>

\* A dialog that is open stays as it is, and gets the new login.
BrowserStarted(s) ==
  /\ FromPage(s, "browser") /\ Ok(s)
  /\ account' = [StopPolling(Idle(account)) EXCEPT !.browser = IF @ = "closed" THEN "open" ELSE @]
  /\ calls' = Done(Disowned(calls, Polls), s)
  /\ UNCHANGED <<cookie, heard>>

QuotaAnswered(s) ==
  /\ FromPage(s, "quota") /\ Ok(s)
  /\ account' = [Idle(account) EXCEPT !.quota = IF account.of = None THEN @ ELSE calls[s].view]
  /\ calls' = Done(calls, s)
  /\ heard' = [heard EXCEPT !.late = @ \/ calls[s].old]
  /\ UNCHANGED cookie

Disconnected(s) ==
  /\ FromPage(s, "disconnect") /\ Ok(s)
  /\ account' = SetAccount(Idle(account), calls[s].view)
  /\ calls' = Done(calls, s)
  /\ Learn(s)
  /\ UNCHANGED cookie

\* onConnected and onImported: the dialog that is open now is closed with it.
FormAnswered(s) ==
  \E op \in {"callback", "import"} :
    /\ FromPage(s, op)
    /\ IF Ok(s)
       THEN /\ account' = [SetAccount(account, calls[s].view) EXCEPT ![FormOf[op]] = "closed"]
            /\ calls' = Done(Disowned(calls, {op}), s)
            /\ Learn(s)
       ELSE /\ account' = [account EXCEPT ![FormOf[op]] = IF calls[s].mine THEN "open" ELSE @]
            /\ Unheard(s)
    /\ UNCHANGED cookie

PasswordFailed(s) ==
  /\ FromPage(s, "password") /\ ~Ok(s)
  /\ account' = [account EXCEPT !.password = IF calls[s].mine THEN "open" ELSE @]
  /\ calls' = Done(calls, s)
  /\ UNCHANGED <<cookie, heard>>

\* Polls of a login that is over are not heard (`stopped').
PollAnswered(s) ==
  /\ FromPage(s, "poll")
  /\ UNCHANGED cookie
  /\ \/ /\ ~calls[s].mine
        /\ Unheard(s)
        /\ UNCHANGED account
     \/ /\ calls[s].mine /\ Ok(s) /\ calls[s].view = None
        /\ account' = [account EXCEPT !.failures = 0]
        /\ calls' = Done(calls, s)
        /\ UNCHANGED heard
     \/ /\ calls[s].mine /\ Ok(s) /\ calls[s].view # None
        /\ account' = SetAccount(StopPolling(account), calls[s].view)
        /\ calls' = Done(Disowned(calls, Polls), s)
        /\ Learn(s)
     \/ /\ calls[s].mine /\ ~Ok(s) /\ account.failures < 2
        /\ account' = [account EXCEPT !.failures = @ + 1]
        /\ Unheard(s)
     \/ /\ calls[s].mine /\ ~Ok(s) /\ account.failures = 2
        /\ account' = StopPolling(account)
        /\ calls' = Done(Disowned(calls, Polls), s)
        /\ Miss(s)

AccountHears(s) ==
  \/ AccountAnswered(s)
  \/ PressFailed(s)
  \/ DeviceStarted(s)
  \/ BrowserStarted(s)
  \/ QuotaAnswered(s)
  \/ Disconnected(s)
  \/ FormAnswered(s)
  \/ PasswordFailed(s)
  \/ PollAnswered(s)

-----------------------------------------------------------------------------
\* When nothing is under way the page shows the account the server has, and
\* no other account's quota, whichever dialogs were closed and opened again
\* and whichever polls overlapped on the way, unless an answer came too late
\* or was not heard at all (Account.tsx:17-102, 139-140).
ShownAccount ==
  Quiet /\ ~account.loading /\ ~heard.late /\ ~heard.missed
    => account.of = row /\ account.quota = row
=============================================================================
