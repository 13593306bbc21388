----------------------------- MODULE ConsoleCalls -----------------------------
(***************************************************************************)
(* web/src/api.ts: the calls the administration console makes, from fetch  *)
(* to the moment their promise is settled, the cookie they carry, and      *)
(* whether the server accepts it.                                          *)
(*                                                                         *)
(* A call is sent, done by the server in one step, and answered; calls     *)
(* under way are done and answered in any order.  The component that made  *)
(* a call may have gone by then: React keeps no state for it any more.     *)
(***************************************************************************)
EXTENDS Naturals

CONSTANTS Slots,      \* bound: calls under way at a time
          MaxSignIns, \* bound: sign-ins that succeed
          Plans,      \* bound: sets of the kinds of calls made in a behaviour
          None

ASSUME SignInsAssumption == MaxSignIns \in Nat

VARIABLES
  plan,   \* the one of Plans that this behaviour keeps to
  calls,  \* the calls under way
  cookie, \* codexone_session in the browser, 0 if there is none
  valid,  \* the cookies the server accepts
  signIns, \* how many it has handed out
  heard   \* history: what the page that is up has missed, or heard too late

browser == <<calls, cookie>>
server == <<valid, signIns>>

Tokens == 1..MaxSignIns

\* Where the answer goes: to App, which stays, to the login form or the page
\* that made the call, or to nobody once they are unmounted.
Callers == {"app", "login", "page", "nobody"}

Statuses == {"sent", "ok", "unauthorized", "failed"}

\* mine: what the call was made for, a dialog or a device login, is still
\* there.  old (history): its answer was true once and no longer is.
Call(op, arg, to) ==
  [op |-> op, arg |-> arg, to |-> to, mine |-> to # "nobody", cookie |-> cookie,
   status |-> "sent", view |-> None, old |-> FALSE]

UnderWay == {s \in Slots : calls[s] # None}

Quiet == UnderWay = {}

\* The page is loaded: its first call is under way.
CallsInit(op) ==
  /\ plan \in Plans
  /\ cookie \in 0..MaxSignIns /\ cookie <= 1
  /\ signIns = cookie
  /\ valid \in SUBSET ({cookie} \ {0})
  /\ \E s \in Slots : calls = [x \in Slots |-> IF x = s THEN Call(op, None, "app") ELSE None]
  /\ heard = [late |-> FALSE, missed |-> FALSE]

\* The calls with f applied to those that are under way and in the set.
Update(cs, set, f(_)) == [s \in Slots |-> IF s \in set THEN f(cs[s]) ELSE cs[s]]

\* The calls of some kinds lose what they were made for.
Disowned(cs, ops) ==
  Update(cs, {s \in Slots : cs[s] # None /\ cs[s].op \in ops},
         LAMBDA c : [c EXCEPT !.mine = FALSE])

\* The answers of some kinds that have not arrived are out of date.
Outdated(cs, ops, statuses) ==
  Update(cs, {s \in Slots : cs[s] # None /\ cs[s].op \in ops /\ cs[s].status \in statuses},
         LAMBDA c : [c EXCEPT !.old = TRUE])

Ask(s, call) ==
  /\ calls[s] = None /\ call.op \in plan
  /\ calls' = [calls EXCEPT ![s] = call]

-----------------------------------------------------------------------------
\* The server's side of a call.

Sent(s, op) == calls[s] # None /\ calls[s].op = op /\ calls[s].status = "sent"

\* requireAdmin.
Accepted(s) == calls[s].cookie \in valid

Admitted(s, op) == Sent(s, op) /\ Accepted(s)

Replied(cs, s, status, view) == [cs EXCEPT ![s].status = status, ![s].view = view]

Reply(s, view) == calls' = Replied(calls, s, "ok", view)

Refuse(s) ==
  /\ calls[s] # None
  /\ calls[s].op \notin {"session", "login"}
  /\ calls[s].status = "sent" /\ ~Accepted(s)
  /\ calls' = Replied(calls, s, "unauthorized", None)
  /\ UNCHANGED <<cookie, server, heard>>

\* An error of the server's, or of the network, before or after the server
\* did what it was asked for.
Fail(s) ==
  /\ calls[s] # None
  /\ calls[s].status \in {"sent", "ok"}
  /\ calls' = [calls EXCEPT ![s].status = "failed"]
  /\ UNCHANGED <<cookie, server, heard>>

\* Expired, or the password was changed elsewhere.  Bound: where there are
\* sign-ins to follow.
EndSession(t) ==
  /\ t \in valid /\ "login" \in plan
  /\ valid' = valid \ {t}
  /\ UNCHANGED <<browser, signIns, heard>>

-----------------------------------------------------------------------------
\* The page's side.

Answered(s, op) == calls[s] # None /\ calls[s].op = op /\ calls[s].status \in {"ok", "failed"}

AnyFailure(s) == calls[s] # None /\ calls[s].status \in {"unauthorized", "failed"}

\* 401: api tells the whole console.
Unauthorized(s) == calls[s] # None /\ calls[s].status = "unauthorized"

Ok(s) == calls[s].status = "ok"

Done(cs, s) == [cs EXCEPT ![s] = None]

\* The page learns how things stand: current again, unless the answer is old.
Learn(s) ==
  heard' = IF calls[s].old THEN [heard EXCEPT !.late = TRUE]
           ELSE [late |-> FALSE, missed |-> FALSE]

\* The answer to a call the server may have carried out is not heard.
Miss(s) == heard' = [heard EXCEPT !.missed = @ \/ calls[s].view # None]
=============================================================================
