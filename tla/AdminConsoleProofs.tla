-------------------------- MODULE AdminConsoleProofs --------------------------
(***************************************************************************)
(* Proofs about AdminConsole, for any slots, pages' contents and plans:    *)
(* the type invariant, that a page without a dialog scrolls, that nobody   *)
(* is signed out for the answer to another session's call, that the secret *)
(* of a new key is seen, and that once no call is under way the page that  *)
(* is up shows what the server has.                                        *)
(***************************************************************************)
EXTENDS AdminConsole, TLAPS

-----------------------------------------------------------------------------
(* The inductive invariant. *)

\* An answer that says the cookie of its call is no longer good.
Refused(c) ==
  \/ c.op = "session" /\ c.status = "ok" /\ c.view = "out"
  \/ c.op \notin {"login", "password"} /\ c.status = "unauthorized"
  \/ c.op = "password" /\ c.status = "ok"

\* What a call under way is, with so many sign-ins, these cookies accepted, and
\* this account and these keys at the server.
Fits(c, handedOut, accepted, connected, keys) ==
  /\ c.op \in Ops /\ c \in CallType(c.op)
  /\ c.mine => c.to # "nobody"
  /\ c.op = "create" => c.to \in {"page", "nobody"}
  /\ c.cookie <= handedOut
  /\ c.status = "ok" /\ c.op # "poll" => c.view \in Views(c.op)
  /\ c.status \in {"sent", "unauthorized"} => c.view = None
  /\ c.op = "login" /\ c.status = "ok" => c.view <= handedOut
  /\ c.op = "overview" /\ c.status = "ok" => c.view = c.arg
  /\ Refused(c) => c.cookie \notin accepted
  /\ c.op \in Telling /\ c.status = "ok" /\ c.view # None /\ ~c.old => c.view = connected
  /\ c.op = "keys" /\ c.status = "ok" /\ ~c.old => c.view = keys

AllFit(cs, handedOut, accepted, connected, keys) ==
  /\ cs = [s \in Slots |-> cs[s]]
  /\ \A s \in Slots : cs[s] # None => Fits(cs[s], handedOut, accepted, connected, keys)

\* The calls, and the cookies they carry.
CallsInv ==
  /\ AllFit(calls, signIns, valid, row, stored)
  /\ signIns \in 0..MaxSignIns /\ valid \subseteq 1..signIns /\ cookie \in 0..signIns

\* A page has calls when App shows pages, the form when App shows it.
Placed(cs, state) ==
  \A s \in Slots : cs[s] # None =>
    /\ cs[s].to = "page" => state = "in"
    /\ cs[s].to = "login" => state = "out"

\* Only the page that is up has a state of its own.
Blank ==
  /\ ~Mounted("overview") => overview = OverviewInit
  /\ ~Mounted("account") => account = AccountInit
  /\ ~Mounted("keys") => keyPage = KeysInit

\* A component that is not mounted has no state, and no calls.
MountInv == Placed(calls, session) /\ Blank

Types ==
  /\ session \in {"checking", "in", "out"} /\ page \in Pages /\ signing \in BOOLEAN
  /\ overview \in OverviewType /\ account \in AccountType /\ keyPage \in KeysType
  /\ row \in Accounts \cup {NoAccount} /\ live \subseteq Flows
  /\ stored \in [Keys -> KeyStates] /\ given \subseteq Keys
  /\ heard \in [late : BOOLEAN, missed : BOOLEAN]

\* What scrolls: without two dialogs at once, the one that is open found the
\* page as it should be when there is none.
ScrollInv ==
  /\ ScrollType
  /\ DOMAIN scroll.kept \subseteq DOMAIN Place
  /\ DOMAIN scroll.kept # {} => scroll.hidden
  /\ ~scroll.stacked =>
       /\ scroll.hidden => DOMAIN scroll.kept # {}
       /\ \A d, e \in DOMAIN scroll.kept : d = e
       /\ \A d \in DOMAIN scroll.kept : ~scroll.kept[d]

\* The overview shows its day, or a load for it is under way, or went wrong.
DayInv ==
  /\ Mounted("overview") =>
       /\ \A s \in UnderWay :
            calls[s].op = "overview" /\ calls[s].to = "page" /\ ~calls[s].old
              => calls[s].arg = overview.date
       /\ \/ \E s \in UnderWay : calls[s].op = "overview" /\ calls[s].to = "page"
          \/ heard.late \/ heard.missed
          \/ overview.data = overview.date
  /\ overview.selected \in {overview.data, None}

\* Calls that change the account.
Changing == {"poll", "callback", "import", "disconnect"}

\* The account page shows the server's account, or will load it, or the
\* answer to a call that has changed it is still to come, or went wrong.
AccountInv ==
  Mounted("account") =>
    \/ \E s \in UnderWay :
         \/ calls[s].op = "account" /\ calls[s].to = "page"
         \/ calls[s].op \in Changing /\ calls[s].view # None
    \/ heard.late \/ heard.missed
    \/ account.of = row /\ account.quota = row

\* The same of the list of keys, which is loaded again after each change.
KeysInv ==
  Mounted("keys") =>
    \/ \E s \in UnderWay :
         \/ calls[s].op = "keys" /\ calls[s].to = "page"
         \/ calls[s].op \in {"create", "revoke"} /\ calls[s].view # None
    \/ heard.late \/ heard.missed
    \/ keyPage.shown = stored

Creating == {s \in UnderWay : calls[s].op = "create" /\ calls[s].mine}

\* One form sends one creation, and none is open beside a secret.
SecretInv ==
  /\ Creating # {} => keyPage.create = "sent"
  /\ \A s, t \in Creating : s = t
  /\ keyPage.secret # None => keyPage.create = "closed"
  /\ SecretKept

-----------------------------------------------------------------------------
(* Scrolling. *)

\* Of dialogs that are open one is the last.
LEMMA LastIsOpen ==
  ASSUME NEW open, open # {}, open \subseteq DOMAIN Place
  PROVE  LastOf(open) \in open
<1>1. DOMAIN Place = {"device", "browser", "import", "password", "create", "secret"}
  BY DEF Place
<1>2. \E d \in open : \A e \in open : Place[e] <= Place[d]
  <2>1. CASE "password" \in open
    BY <1>1, <2>1 DEF Place
  <2>2. CASE "password" \notin open /\ "import" \in open
    BY <1>1, <2>2 DEF Place
  <2>3. CASE {"password", "import"} \cap open = {} /\ "browser" \in open
    BY <1>1, <2>3 DEF Place
  <2>4. CASE {"password", "import", "browser"} \cap open = {} /\ "secret" \in open
    BY <1>1, <2>4 DEF Place
  <2>5. CASE open \subseteq {"device", "create"}
    BY <2>5 DEF Place
  <2> QED
    BY <1>1, <2>1, <2>2, <2>3, <2>4, <2>5
<1> QED
  BY <1>2 DEF LastOf

LEMMA FirstOfOne ==
  ASSUME NEW d, d \in DOMAIN Place
  PROVE  FirstOf({d}) = d
BY DEF FirstOf, Place

LEMMA DialogsPlaced ==
  ASSUME NEW p PROVE DialogsOf(p)' \subseteq DOMAIN Place
BY DEF DialogsOf, AccountDialogs, KeyDialogs, Forms, Place

LEMMA ScrollKept ==
  ASSUME ScrollInv, NEW now, now \subseteq DOMAIN Place, Rendered(now)
  PROVE  ScrollInv'
<1>1. CASE now = DOMAIN scroll.kept /\ UNCHANGED scroll
  BY <1>1 DEF ScrollInv, ScrollType
<1>2. CASE Render(now)
  <2> DEFINE found == Undone(now)
             open == DOMAIN scroll.kept
  <2>1. /\ scroll'.hidden = (now # {} \/ found)
        /\ scroll'.kept = [d \in now |-> d # FirstOf(now) \/ found]
        /\ scroll'.stacked = (scroll'.hidden /\ (scroll.stacked \/ \E d, e \in now : d # e))
    BY <1>2 DEF Render, SetUp
  <2>2. found \in BOOLEAN /\ (~scroll.stacked => ~found)
    <3>1. CASE open = {}
      BY <3>1 DEF ScrollInv, ScrollType, Undone
    <3>2. CASE open # {}
      <4> DEFINE rest == IF open \cap now = {} THEN open ELSE open \cap now
      <4>1. rest # {} /\ rest \subseteq open
        BY <3>2
      <4>2. LastOf(rest) \in open
        BY <4>1, LastIsOpen DEF ScrollInv
      <4>3. found = scroll.kept[LastOf(rest)]
        BY <3>2 DEF Undone
      <4> QED
        BY <4>2, <4>3 DEF ScrollInv, ScrollType
    <3> QED
      BY <3>1, <3>2
  <2> HIDE DEF found
  <2>3. DOMAIN scroll'.kept = now
    BY <2>1
  <2>4. ScrollType'
    BY <2>1, <2>2, <2>3 DEF ScrollInv, ScrollType
  <2>5. ASSUME ~scroll'.stacked
        PROVE  /\ scroll'.hidden => now # {}
               /\ \A d, e \in now : d = e
               /\ \A d \in now : ~scroll'.kept[d]
    <3>1. CASE now = {}
      BY <2>1, <2>2, <2>5, <3>1
    <3>2. CASE now # {}
      <4>1. ~scroll.stacked /\ ~found /\ \A d, e \in now : d = e
        BY <2>1, <2>2, <2>5, <3>2
      <4>2. ASSUME NEW d \in now PROVE ~scroll'.kept[d]
        <5>1. now = {d}
          BY <4>1
        <5> QED
          BY <2>1, <4>1, <5>1, FirstOfOne
      <4> QED
        BY <3>2, <4>1, <4>2
    <3> QED
      BY <3>1, <3>2
  <2> QED
    BY <2>1, <2>3, <2>4, <2>5 DEF ScrollInv
<1> QED
  BY <1>1, <1>2 DEF Rendered

LEMMA ScrollStep == ScrollInv /\ [Next]_vars => ScrollInv'
<1>1. ASSUME ScrollInv, Next PROVE ScrollInv'
  BY <1>1, DialogsPlaced, ScrollKept DEF Next
<1>2. ASSUME ScrollInv, UNCHANGED vars PROVE ScrollInv'
  BY <1>2 DEF ScrollInv, ScrollType, vars
<1> QED
  BY <1>1, <1>2

LEMMA ScrollInvariance == Spec => []ScrollInv
<1>1. Init => ScrollInv
  BY DEF Init, ScrollInit, ScrollInv, ScrollType
<1> QED
  BY <1>1, ScrollStep, PTL DEF Spec

\* The page behind a dialog does not scroll and the page without one does, unless
\* two dialogs have been open at once: however the pages render, and whichever
\* dialogs come and go (Modal.tsx:48-53).
THEOREM PageScrolls == Spec => []ScrollLock
<1>1. ScrollInv => ScrollLock
  BY DEF ScrollInv, ScrollLock
<1> QED
  BY <1>1, ScrollInvariance, PTL

-----------------------------------------------------------------------------
(* Calls, whatever the state they are made in. *)

\* A call that loses what it was made for, its caller or its truth still fits.
LEMMA FitsLess ==
  ASSUME NEW c, NEW n, NEW v, NEW r, NEW k, Fits(c, n, v, r, k)
  PROVE  /\ Fits([c EXCEPT !.mine = FALSE], n, v, r, k)
         /\ Fits([c EXCEPT !.to = "nobody", !.mine = FALSE], n, v, r, k)
         /\ Fits([c EXCEPT !.old = TRUE], n, v, r, k)
<1> DEFINE Alike(d) ==
      /\ d \in CallType(c.op)
      /\ d.op = c.op /\ d.arg = c.arg /\ d.cookie = c.cookie
      /\ d.status = c.status /\ d.view = c.view
<1>1. /\ Alike([c EXCEPT !.mine = FALSE])
      /\ [c EXCEPT !.mine = FALSE].to = c.to
      /\ [c EXCEPT !.mine = FALSE].old = c.old
      /\ ~[c EXCEPT !.mine = FALSE].mine
  BY DEF Fits, CallType
<1>2. /\ Alike([c EXCEPT !.to = "nobody", !.mine = FALSE])
      /\ [c EXCEPT !.to = "nobody", !.mine = FALSE].to = "nobody"
      /\ [c EXCEPT !.to = "nobody", !.mine = FALSE].old = c.old
      /\ ~[c EXCEPT !.to = "nobody", !.mine = FALSE].mine
  BY DEF Fits, CallType, Callers
<1>3. /\ Alike([c EXCEPT !.old = TRUE])
      /\ [c EXCEPT !.old = TRUE].to = c.to
      /\ [c EXCEPT !.old = TRUE].mine = c.mine
      /\ [c EXCEPT !.old = TRUE].old
  BY DEF Fits, CallType
<1>4. ASSUME NEW d, Alike(d), d.to \in {c.to, "nobody"}, d.mine => c.mine /\ d.to = c.to, c.old => d.old
      PROVE  Fits(d, n, v, r, k)
  BY <1>4 DEF Fits, Refused
<1> QED
  BY <1>1, <1>2, <1>3, <1>4

\* A call that fits is a call.
LEMMA FitsSome ==
  ASSUME NEW c, NEW n, NEW v, NEW r, NEW k, Fits(c, n, v, r, k)
  PROVE  c # None
BY NoneAssumption DEF Fits

LEMMA AllFitPut ==
  ASSUME NEW cs, NEW n, NEW v, NEW r, NEW k, AllFit(cs, n, v, r, k), NEW s \in Slots,
         NEW c, c # None => Fits(c, n, v, r, k)
  PROVE  AllFit([cs EXCEPT ![s] = c], n, v, r, k)
BY DEF AllFit

LEMMA AllFitDone ==
  ASSUME NEW cs, NEW n, NEW v, NEW r, NEW k, AllFit(cs, n, v, r, k), NEW s \in Slots
  PROVE  AllFit(Done(cs, s), n, v, r, k)
BY DEF AllFit, Done

LEMMA AllFitUpdated ==
  ASSUME NEW cs, NEW n, NEW v, NEW r, NEW k, AllFit(cs, n, v, r, k), NEW ops, NEW statuses, NEW to
  PROVE  /\ AllFit(Disowned(cs, ops), n, v, r, k)
         /\ AllFit(Outdated(cs, ops, statuses), n, v, r, k)
         /\ AllFit(Orphaned(cs, to), n, v, r, k)
<1>1. AllFit(Disowned(cs, ops), n, v, r, k)
  BY FitsLess DEF AllFit, Disowned, Update
<1>2. AllFit(Outdated(cs, ops, statuses), n, v, r, k)
  BY FitsLess DEF AllFit, Outdated, Update
<1>3. AllFit(Orphaned(cs, to), n, v, r, k)
  BY FitsLess DEF AllFit, Orphaned, Update
<1> QED
  BY <1>1, <1>2, <1>3

\* More sign-ins and fewer cookies make no difference to the calls.
LEMMA AllFitLater ==
  ASSUME NEW cs, NEW n \in Nat, NEW v, NEW r, NEW k, AllFit(cs, n, v, r, k),
         NEW m \in Nat, n <= m, NEW w, w \subseteq v \cup (n+1)..m
  PROVE  AllFit(cs, m, w, r, k)
<1>1. ASSUME NEW c, Fits(c, n, v, r, k) PROVE Fits(c, m, w, r, k)
  <2>1. c.cookie \in Nat
    BY <1>1 DEF Fits, CallType
  <2>2. c.op = "login" /\ c.status = "ok" => c.view \in Nat
    BY <1>1 DEF Fits, Views, Telling
  <2>3. Refused(c) => c.cookie \notin w
    BY <1>1, <2>1 DEF Fits
  <2>4. c.cookie <= m /\ (c.op = "login" /\ c.status = "ok" => c.view <= m)
    BY <1>1, <2>1, <2>2 DEF Fits
  <2> QED
    BY <1>1, <2>3, <2>4 DEF Fits
<1> QED
  BY <1>1 DEF AllFit

\* A call that is made fits.
LEMMA CallFits ==
  ASSUME NEW op \in Ops, NEW arg \in Args(op), NEW to \in Callers,
         op = "create" => to \in {"page", "nobody"},
         NEW n, cookie <= n, cookie \in 0..MaxSignIns, NEW v, NEW r, NEW k
  PROVE  Fits(Call(op, arg, to), n, v, r, k)
BY DEF Fits, CallType, Call, Statuses, Refused

LEMMA AllFitReplied ==
  ASSUME NEW cs, NEW n, NEW v, NEW r, NEW k, AllFit(cs, n, v, r, k),
         NEW s \in Slots, cs[s] # None,
         NEW status \in Statuses, NEW view \in Views(cs[s].op) \cup {None},
         status = "ok" /\ cs[s].op # "poll" => view \in Views(cs[s].op),
         status \in {"sent", "unauthorized"} => view = None,
         cs[s].op = "login" /\ status = "ok" => view <= n,
         cs[s].op = "overview" /\ status = "ok" => view = cs[s].arg,
         cs[s].op = "session" /\ status = "ok" /\ view = "out" => cs[s].cookie \notin v,
         cs[s].op \notin {"login", "password"} /\ status = "unauthorized" => cs[s].cookie \notin v,
         cs[s].op = "password" /\ status = "ok" => cs[s].cookie \notin v,
         cs[s].op \in Telling /\ status = "ok" /\ view # None /\ ~cs[s].old => view = r,
         cs[s].op = "keys" /\ status = "ok" /\ ~cs[s].old => view = k
  PROVE  AllFit(Replied(cs, s, status, view), n, v, r, k)
<1> DEFINE c == [cs[s] EXCEPT !.status = status, !.view = view]
<1>1. Fits(cs[s], n, v, r, k)
  BY DEF AllFit
<1>2. /\ c.op = cs[s].op /\ c.arg = cs[s].arg /\ c.to = cs[s].to /\ c.mine = cs[s].mine
      /\ c.cookie = cs[s].cookie /\ c.old = cs[s].old /\ c.status = status /\ c.view = view
      /\ c \in CallType(c.op)
  BY <1>1 DEF Fits, CallType
<1>3. Replied(cs, s, status, view) = [cs EXCEPT ![s] = c]
  BY DEF Replied, AllFit
<1> HIDE DEF c
<1>4. Fits(c, n, v, r, k)
  BY <1>1, <1>2 DEF Fits, Refused
<1>5. AllFit([cs EXCEPT ![s] = c], n, v, r, k)
  BY <1>4, AllFitPut
<1> QED
  BY <1>3, <1>5

\* When the account changes no earlier answer counts as true any more; and when
\* the keys do.
LEMMA AllFitOutdated ==
  ASSUME NEW cs, NEW n, NEW v, NEW r, NEW k, AllFit(cs, n, v, r, k), NEW other
  PROVE  /\ AllFit(Outdated(cs, Telling, {"ok"}), n, v, other, k)
         /\ AllFit(Outdated(cs, {"keys"}, {"ok"}), n, v, r, other)
<1>1. ASSUME NEW c, Fits(c, n, v, r, k)
      PROVE  /\ Fits([c EXCEPT !.old = TRUE], n, v, other, k)
             /\ Fits([c EXCEPT !.old = TRUE], n, v, r, other)
             /\ ~(c.op \in Telling /\ c.status = "ok") => Fits(c, n, v, other, k)
             /\ ~(c.op = "keys" /\ c.status = "ok") => Fits(c, n, v, r, other)
  BY <1>1 DEF Fits, CallType, Refused
<1>2. AllFit(Outdated(cs, Telling, {"ok"}), n, v, other, k)
  BY <1>1 DEF AllFit, Outdated, Update
<1>3. AllFit(Outdated(cs, {"keys"}, {"ok"}), n, v, r, other)
  BY <1>1 DEF AllFit, Outdated, Update
<1> QED
  BY <1>2, <1>3

\* What Outdated leaves of a call.
LEMMA OutdatedCall ==
  ASSUME NEW cs, NEW n, NEW v, NEW r, NEW k, AllFit(cs, n, v, r, k),
         NEW ops, NEW statuses, NEW s \in Slots
  PROVE  LET now == Outdated(cs, ops, statuses)[s] IN
         /\ now = None <=> cs[s] = None
         /\ cs[s] # None =>
              /\ now.op = cs[s].op /\ now.arg = cs[s].arg /\ now.to = cs[s].to
              /\ now.cookie = cs[s].cookie /\ now.mine = cs[s].mine
              /\ now.status = cs[s].status /\ now.view = cs[s].view
              /\ cs[s].old => now.old
              /\ cs[s].status \notin statuses => now.old = cs[s].old
              /\ cs[s].op \in ops /\ cs[s].status \in statuses => now.old
<1>1. CASE cs[s] = None
  BY <1>1 DEF AllFit, Outdated, Update
<1>2. CASE cs[s] # None
  <2>1. Fits(cs[s], n, v, r, k) /\ Fits([cs[s] EXCEPT !.old = TRUE], n, v, r, k)
    BY <1>2, FitsLess DEF AllFit
  <2>2. [cs[s] EXCEPT !.old = TRUE] # None
    BY <2>1, FitsSome
  <2> QED
    BY <1>2, <2>1, <2>2 DEF Fits, CallType, Outdated, Update
<1> QED
  BY <1>1, <1>2

\* The same of Disowned and Orphaned.
LEMMA DisownedCall ==
  ASSUME NEW cs, NEW n, NEW v, NEW r, NEW k, AllFit(cs, n, v, r, k),
         NEW ops, NEW s \in Slots
  PROVE  LET now == Disowned(cs, ops)[s] IN
         /\ now = None <=> cs[s] = None
         /\ cs[s] # None =>
              /\ now.op = cs[s].op /\ now.arg = cs[s].arg /\ now.to = cs[s].to
              /\ now.cookie = cs[s].cookie /\ now.old = cs[s].old
              /\ now.status = cs[s].status /\ now.view = cs[s].view
              /\ now.mine = (cs[s].mine /\ cs[s].op \notin ops)
<1>1. CASE cs[s] = None
  BY <1>1 DEF AllFit, Disowned, Update
<1>2. CASE cs[s] # None
  <2>1. Fits(cs[s], n, v, r, k) /\ Fits([cs[s] EXCEPT !.mine = FALSE], n, v, r, k)
    BY <1>2, FitsLess DEF AllFit
  <2>2. [cs[s] EXCEPT !.mine = FALSE] # None
    BY <2>1, FitsSome
  <2> QED
    BY <1>2, <2>1, <2>2 DEF Fits, CallType, Disowned, Update
<1> QED
  BY <1>1, <1>2

LEMMA OrphanedCall ==
  ASSUME NEW cs, NEW n, NEW v, NEW r, NEW k, AllFit(cs, n, v, r, k),
         NEW to, NEW s \in Slots
  PROVE  LET now == Orphaned(cs, to)[s] IN
         /\ now = None <=> cs[s] = None
         /\ cs[s] # None =>
              /\ now.op = cs[s].op /\ now.arg = cs[s].arg
              /\ now.cookie = cs[s].cookie /\ now.old = cs[s].old
              /\ now.status = cs[s].status /\ now.view = cs[s].view
              /\ now.to = (IF cs[s].to = to THEN "nobody" ELSE cs[s].to)
              /\ now.mine = (cs[s].mine /\ cs[s].to # to)
<1>1. CASE cs[s] = None
  BY <1>1 DEF AllFit, Orphaned, Update
<1>2. CASE cs[s] # None
  <2>1. Fits(cs[s], n, v, r, k) /\ Fits([cs[s] EXCEPT !.to = "nobody", !.mine = FALSE], n, v, r, k)
    BY <1>2, FitsLess DEF AllFit
  <2>2. [cs[s] EXCEPT !.to = "nobody", !.mine = FALSE] # None
    BY <2>1, FitsSome
  <2> QED
    BY <1>2, <2>1, <2>2 DEF Fits, CallType, Orphaned, Update
<1> QED
  BY <1>1, <1>2

-----------------------------------------------------------------------------
(* The calls under way, step by step. *)

LEMMA CallsMoved ==
  ASSUME CallsInv, AllFit(calls', signIns, valid, row, stored),
         UNCHANGED <<cookie, server, row, stored>>
  PROVE  CallsInv'
BY DEF CallsInv, server

\* A call made now fits.
LEMMA CallMade ==
  ASSUME CallsInv, NEW op \in Ops, NEW arg \in Args(op), NEW to \in Callers,
         op = "create" => to \in {"page", "nobody"}
  PROVE  Fits(Call(op, arg, to), signIns, valid, row, stored)
<1>1. cookie <= signIns /\ cookie \in 0..MaxSignIns
  BY SignInsAssumption DEF CallsInv
<1> QED
  BY <1>1, CallFits

LEMMA CallAsked ==
  ASSUME CallsInv, NEW op \in Ops, NEW arg \in Args(op), NEW to \in Callers,
         op = "create" => to \in {"page", "nobody"},
         NEW s \in Slots, Ask(s, Call(op, arg, to)), UNCHANGED <<cookie, server, row, stored>>
  PROVE  CallsInv'
<1>1. Fits(Call(op, arg, to), signIns, valid, row, stored)
  BY CallMade
<1>2. AllFit([calls EXCEPT ![s] = Call(op, arg, to)], signIns, valid, row, stored)
  BY <1>1, AllFitPut DEF CallsInv
<1> QED
  BY <1>2, CallsMoved DEF Ask

LEMMA FirstLoadFits ==
  ASSUME CallsInv, NEW p \in Pages
  PROVE  Fits(FirstLoad(p), signIns, valid, row, stored)
<1>1. Today \in Args("overview") /\ None \in Args("account") /\ None \in Args("keys")
  BY TodayAssumption DEF Args
<1>2. {"overview", "account", "keys"} \subseteq Ops /\ "page" \in Callers
  BY DEF Ops, Telling, Callers
<1>3. /\ Fits(Call("overview", Today, "page"), signIns, valid, row, stored)
      /\ Fits(Call("account", None, "page"), signIns, valid, row, stored)
      /\ Fits(Call("keys", None, "page"), signIns, valid, row, stored)
  BY <1>1, <1>2, CallMade
<1> QED
  BY <1>3 DEF FirstLoad, Pages, LoadAccount, LoadKeys

LEMMA MountFits ==
  ASSUME CallsInv, NEW cs, AllFit(cs, signIns, valid, row, stored), NEW s \in Slots, NEW p \in Pages
  PROVE  AllFit([Orphaned(Orphaned(cs, "page"), "login") EXCEPT ![s] = FirstLoad(p)],
                signIns, valid, row, stored)
<1>1. AllFit(Orphaned(Orphaned(cs, "page"), "login"), signIns, valid, row, stored)
  BY AllFitUpdated
<1> HIDE DEF CallsInv
<1> QED
  BY <1>1, FirstLoadFits, AllFitPut

LEMMA UserCalls ==
  ASSUME CallsInv, Types, NEW s \in Slots, UserStep(s)
  PROVE  CallsInv'
<1>0. /\ {"logout", "login", "overview", "poll", "create", "revoke"} \subseteq Ops
      /\ Buttons \subseteq Ops /\ DOMAIN FormOf \subseteq Ops
      /\ {"app", "login", "page"} \subseteq Callers
      /\ \A op \in Buttons \cup DOMAIN FormOf \cup {"logout", "login", "create"} : None \in Args(op)
      /\ Days = Args("overview") /\ Flows = Args("poll") /\ Keys = Args("revoke")
  BY DEF Ops, Buttons, FormOf, Telling, Callers, Args
<1>1. ASSUME NEW p \in Pages, Navigate(s, p) PROVE CallsInv'
  BY <1>1, MountFits, CallsMoved DEF Navigate, Mount, CallsInv, accountServer
<1>2. CASE Logout(s)
  BY <1>0, <1>2, CallAsked DEF Logout, accountServer
<1>3. CASE SignIn(s)
  BY <1>0, <1>3, CallAsked DEF SignIn, accountServer
<1>4. CASE OnOverview(OverviewUser(s))
  <2> SUFFICES ASSUME NEW date \in Days, LoadOverview(s, date) PROVE CallsInv'
    <3>1. overview.date \in Days
      BY DEF Types, OverviewType
    <3> QED
      BY <1>4, <3>1 DEF OnOverview, OverviewUser, PickDate, Refresh
  <2>1. Fits(OverviewCall(date), signIns, valid, row, stored)
    BY <1>0, CallMade DEF OverviewCall
  <2>2. AllFit(Outdated(calls, {"overview"}, Statuses), signIns, valid, row, stored)
    BY AllFitUpdated DEF CallsInv
  <2>3. AllFit(calls', signIns, valid, row, stored)
    BY <2>1, <2>2, AllFitPut DEF LoadOverview
  <2> QED
    BY <1>4, <2>3, CallsMoved DEF OnOverview, LoadOverview, accountServer
<1>5. CASE OnAccount(AccountUser(s))
  <2>1. ASSUME NEW op \in Buttons, Press(s, op) PROVE CallsInv'
    BY <1>0, <1>5, <2>1, CallAsked DEF OnAccount, Press, accountServer, Buttons
  <2>2. ASSUME NEW op \in DOMAIN FormOf, Submit(s, op) PROVE CallsInv'
    BY <1>0, <1>5, <2>2, CallAsked DEF OnAccount, Submit, accountServer, FormOf
  <2>3. CASE Poll(s)
    <3>1. account.device \in Flows
      BY <2>3 DEF Poll, Types, AccountType
    <3> QED
      BY <1>0, <1>5, <2>3, <3>1, CallAsked DEF OnAccount, Poll, accountServer
  <2> QED
    BY <1>5, <2>1, <2>2, <2>3 DEF OnAccount, AccountUser
<1>6. CASE OnKeys(SubmitCreate(s))
  BY <1>0, <1>6, CallAsked DEF OnKeys, SubmitCreate, accountServer
<1>7. CASE OnKeys(Revoke(s))
  BY <1>0, <1>7, CallAsked DEF OnKeys, Revoke, accountServer
<1> QED
  BY <1>1, <1>2, <1>3, <1>4, <1>5, <1>6, <1>7 DEF UserStep

LEMMA DialogCalls ==
  ASSUME CallsInv, DialogStep
  PROVE  CallsInv'
<1>1. \/ UNCHANGED calls
      \/ \E ops : calls' = Disowned(calls, ops)
  BY DEF DialogStep, OnOverview, OnAccount, OnKeys, Select, OpenForm, CloseForm, EndDevice,
         OpenCreate, CloseCreate, CloseSecret, browser
<1>2. AllFit(calls', signIns, valid, row, stored)
  BY <1>1, AllFitUpdated DEF CallsInv
<1>3. UNCHANGED <<cookie, server, row, stored>>
  BY DEF DialogStep, OnOverview, OnAccount, OnKeys, Select, OpenForm, CloseForm, EndDevice,
         OpenCreate, CloseCreate, CloseSecret, browser, accountServer
<1> QED
  BY <1>2, <1>3, CallsMoved

LEMMA CallsReplied ==
  ASSUME CallsInv, NEW s \in Slots, calls[s] # None,
         NEW status \in Statuses, NEW view \in Views(calls[s].op) \cup {None},
         calls' = Replied(calls, s, status, view),
         status = "ok" /\ calls[s].op # "poll" => view \in Views(calls[s].op),
         status \in {"sent", "unauthorized"} => view = None,
         calls[s].op # "login",
         calls[s].op = "overview" /\ status = "ok" => view = calls[s].arg,
         calls[s].op = "session" /\ status = "ok" /\ view = "out" => calls[s].cookie \notin valid,
         status = "unauthorized" => calls[s].op = "password" \/ calls[s].cookie \notin valid,
         calls[s].op # "password" \/ status # "ok",
         calls[s].op \in Telling /\ status = "ok" /\ view # None => view = row,
         calls[s].op = "keys" /\ status = "ok" => view = stored,
         UNCHANGED <<cookie, server, row, stored>>
  PROVE  CallsInv'
<1>1. AllFit(calls, signIns, valid, row, stored)
  BY DEF CallsInv
<1>2. AllFit(Replied(calls, s, status, view), signIns, valid, row, stored)
  BY <1>1, AllFitReplied
<1> QED
  BY <1>2, CallsMoved

LEMMA TypesOfCalls ==
  /\ {"ok", "sent", "unauthorized", "failed"} = Statuses
  /\ Views("session") = {"in", "out"} /\ Views("login") = 1..MaxSignIns /\ Views("overview") = Days
  /\ \A op \in Telling : Views(op) = Accounts \cup {NoAccount}
  /\ Views("device") = Flows /\ Views("keys") = [Keys -> KeyStates]
  /\ Views("create") = Keys /\ Views("revoke") = Keys
BY DEF Statuses, Views, Telling

LEMMA ServerCalls ==
  ASSUME CallsInv, Types, NEW s \in Slots, ServerStep(s)
  PROVE  CallsInv'
<1>0. /\ AllFit(calls, signIns, valid, row, stored)
      /\ signIns \in Nat /\ cookie \in 0..signIns /\ valid \subseteq 1..signIns
      /\ calls[s] # None => Fits(calls[s], signIns, valid, row, stored)
  BY SignInsAssumption DEF CallsInv, AllFit
<1>1. ASSUME ServeSession(s), UNCHANGED <<row, stored>> PROVE CallsInv'
  BY <1>0, <1>1, CallsReplied, TypesOfCalls, NoneAssumption
     DEF ServeSession, Sent, Reply, Accepted, Telling
<1>2. ASSUME ServeLogin(s), UNCHANGED <<row, stored>> PROVE CallsInv'
  <2>1. ASSUME signIns < MaxSignIns, signIns' = signIns + 1, valid' = valid \cup {signIns'},
               Reply(s, signIns')
        PROVE  CallsInv'
    <3>1. AllFit(calls, signIns', valid', row, stored)
      BY <1>0, <2>1, AllFitLater
    <3>2. signIns' \in 1..MaxSignIns
      BY <1>0, <2>1, SignInsAssumption
    <3>3. calls[s] # None /\ calls[s].op = "login" /\ calls[s].op \notin Telling
      BY <1>2 DEF ServeLogin, Sent, Telling
    <3>4. Views(calls[s].op) = 1..MaxSignIns
      BY <3>3 DEF Views
    <3>5. signIns' \in Views(calls[s].op) /\ signIns' <= signIns'
      BY <3>2, <3>4
    <3>6. AllFit(Replied(calls, s, "ok", signIns'), signIns', valid', row, stored)
      BY <3>1, <3>3, <3>5, AllFitReplied, TypesOfCalls
    <3>7. AllFit(calls', signIns', valid', row, stored)
      BY <2>1, <3>6 DEF Reply
    <3> QED
      BY <1>0, <1>2, <2>1, <3>2, <3>7 DEF CallsInv, ServeLogin
  <2>2. ASSUME calls' = Replied(calls, s, "unauthorized", None), UNCHANGED server
        PROVE  CallsInv'
    <3>1. AllFit(calls', signIns, valid, row, stored)
      BY <1>0, <1>2, <2>2, AllFitReplied, TypesOfCalls DEF ServeLogin, Sent, Telling
    <3> QED
      BY <1>2, <2>2, <3>1, CallsMoved DEF ServeLogin
  <2> QED
    BY <1>2, <2>1, <2>2 DEF ServeLogin
<1>3. ASSUME ServeLogout(s), UNCHANGED <<row, stored>> PROVE CallsInv'
  <2>1. AllFit(calls, signIns, valid', row, stored)
    BY <1>0, <1>3, AllFitLater DEF ServeLogout
  <2>2. None \in Views("logout")
    BY DEF Views, Telling
  <2>3. AllFit(calls', signIns, valid', row, stored)
    BY <1>0, <1>3, <2>1, <2>2, AllFitReplied, TypesOfCalls
       DEF ServeLogout, Admitted, Sent, Reply, Telling
  <2> QED
    BY <1>0, <1>3, <2>3 DEF CallsInv, ServeLogout
<1>4. ASSUME ServeOverview(s), UNCHANGED <<row, stored>> PROVE CallsInv'
  <2>1. calls[s] # None /\ calls[s].op = "overview" /\ calls[s].arg \in Days
    BY <1>0, <1>4 DEF ServeOverview, Admitted, Sent, Fits, CallType, Args
  <2> QED
    BY <1>4, <2>1, CallsReplied, TypesOfCalls DEF ServeOverview, Reply, Telling
<1>5. ASSUME Refuse(s), UNCHANGED <<row, stored>> PROVE CallsInv'
  BY <1>5, CallsReplied, TypesOfCalls DEF Refuse, Accepted
<1>6. ASSUME Fail(s), UNCHANGED <<row, stored>> PROVE CallsInv'
  <2> DEFINE c == [calls[s] EXCEPT !.status = "failed"]
  <2>1. /\ c \in CallType(c.op) /\ c.op = calls[s].op /\ c.arg = calls[s].arg
        /\ c.to = calls[s].to /\ c.mine = calls[s].mine /\ c.cookie = calls[s].cookie
        /\ c.old = calls[s].old /\ c.status = "failed" /\ c.view = calls[s].view
    BY <1>0, <1>6, TypesOfCalls DEF Fail, Fits, CallType
  <2>2. calls' = [calls EXCEPT ![s] = c]
    BY <1>6 DEF Fail
  <2> HIDE DEF c
  <2>3. Fits(c, signIns, valid, row, stored)
    BY <1>0, <1>6, <2>1 DEF Fail, Fits, Refused
  <2>4. AllFit([calls EXCEPT ![s] = c], signIns, valid, row, stored)
    BY <1>0, <2>3, AllFitPut
  <2> QED
    BY <1>6, <2>2, <2>4, CallsMoved DEF Fail
<1>7. ASSUME NEW now \in Accounts \cup {NoAccount}, Tell(s, now), calls[s] # None,
             calls[s].op \in {"callback", "import", "disconnect", "poll"},
             calls[s].status = "sent", UNCHANGED <<cookie, server, stored>>
      PROVE  CallsInv'
  <2> DEFINE cs == Outdated(calls, Telling, {"ok"})
  <2>1. AllFit(cs, signIns, valid, now, stored)
    BY <1>0, AllFitOutdated
  <2>2. cs[s] # None /\ cs[s].op = calls[s].op
    BY <1>0, <1>7, OutdatedCall
  <2>3. now \in Views(cs[s].op)
    BY <1>7, <2>2, TypesOfCalls DEF Telling
  <2> HIDE DEF cs
  <2>4. AllFit(Replied(cs, s, "ok", now), signIns, valid, now, stored)
    BY <1>7, <2>1, <2>2, <2>3, AllFitReplied, TypesOfCalls, NoneAssumption DEF Telling
  <2> QED
    BY <1>7, <2>4 DEF CallsInv, Tell, server, cs
<1>8. ASSUME AccountServes(s), UNCHANGED stored PROVE CallsInv'
  <2>1. CASE ServeAccount(s)
    BY <1>8, <2>1, CallsReplied, TypesOfCalls
       DEF ServeAccount, Admitted, Sent, Reply, Types, Telling, accountServer
  <2>2. CASE Replace(s)
    BY <1>7, <1>8, <2>2 DEF Replace, Admitted, Sent
  <2>3. CASE ServeDisconnect(s)
    BY <1>7, <1>8, <2>3 DEF ServeDisconnect, Admitted, Sent
  <2>4. CASE ServeQuota(s)
    BY <1>8, <2>4, CallsReplied, TypesOfCalls
       DEF ServeQuota, Admitted, Sent, Reply, Types, Telling, accountServer
  <2>5. CASE ServeBrowser(s)
    <3>1. Views("browser") = {None}
      BY DEF Views, Telling
    <3> QED
      BY <1>8, <2>5, <3>1, CallsReplied, TypesOfCalls
         DEF ServeBrowser, Admitted, Sent, Reply, Telling, accountServer
  <2>6. CASE ServeDevice(s)
    BY <1>8, <2>6, CallsReplied, TypesOfCalls DEF ServeDevice, Admitted, Sent, Reply, Telling
  <2>7. CASE PollPending(s)
    BY <1>8, <2>7, CallsReplied, TypesOfCalls
       DEF PollPending, Admitted, Sent, Reply, Telling, accountServer
  <2>8. CASE PollComplete(s)
    BY <1>7, <1>8, <2>8 DEF PollComplete, Admitted, Sent
  <2>9. CASE ServePassword(s)
    <3>1. AllFit(calls, signIns, valid', row, stored)
      BY <1>0, <2>9, AllFitLater DEF ServePassword
    <3>2. Views("password") = {None}
      BY DEF Views, Telling
    <3>3. AllFit(calls', signIns, valid', row, stored)
      BY <1>0, <2>9, <3>1, <3>2, AllFitReplied, TypesOfCalls
         DEF ServePassword, Admitted, Sent, Reply, Telling
    <3> QED
      BY <1>0, <1>8, <2>9, <3>3 DEF CallsInv, ServePassword, accountServer
  <2>10. CASE WrongPassword(s)
    BY <1>8, <2>10, CallsReplied, TypesOfCalls
       DEF WrongPassword, Admitted, Sent, Telling, accountServer
  <2> QED
    BY <1>8, <2>1, <2>2, <2>3, <2>4, <2>5, <2>6, <2>7, <2>8, <2>9, <2>10 DEF AccountServes
<1>9. ASSUME NEW k \in Keys, NEW state, StoreKey(s, k, state), calls[s] # None,
             calls[s].op \in {"create", "revoke"}, calls[s].status = "sent", UNCHANGED row
      PROVE  CallsInv'
  <2> DEFINE cs == Outdated(calls, {"keys"}, {"ok"})
  <2>1. AllFit(cs, signIns, valid, row, stored')
    BY <1>0, AllFitOutdated
  <2>2. cs[s] # None /\ cs[s].op = calls[s].op
    BY <1>0, <1>9, OutdatedCall
  <2>3. k \in Views(cs[s].op)
    BY <1>9, <2>2, TypesOfCalls
  <2> HIDE DEF cs
  <2>4. AllFit(Replied(cs, s, "ok", k), signIns, valid, row, stored')
    BY <1>9, <2>1, <2>2, <2>3, AllFitReplied, TypesOfCalls DEF Telling
  <2> QED
    BY <1>9, <2>4 DEF CallsInv, StoreKey, server, cs
<1>10. ASSUME KeysServes(s), UNCHANGED row PROVE CallsInv'
  <2>1. CASE ServeKeys(s)
    BY <1>10, <2>1, CallsReplied, TypesOfCalls
       DEF ServeKeys, Admitted, Sent, Reply, Types, Telling
  <2>2. CASE ServeCreate(s)
    BY <1>9, <1>10, <2>2 DEF ServeCreate, Admitted, Sent
  <2>3. CASE ServeRevoke(s)
    <3>1. calls[s].arg \in Keys
      BY <1>0, <2>3 DEF ServeRevoke, Admitted, Sent, Fits, CallType, Args
    <3> QED
      BY <1>9, <1>10, <2>3, <3>1 DEF ServeRevoke, Admitted, Sent
  <2> QED
    BY <1>10, <2>1, <2>2, <2>3 DEF KeysServes
<1> QED
  BY <1>1, <1>2, <1>3, <1>4, <1>5, <1>6, <1>8, <1>10 DEF ServerStep, accountServer

LEMMA SignedOutCalls ==
  ASSUME NEW cs, NEW n, NEW v, NEW r, NEW k, AllFit(cs, n, v, r, k), SignedOut(cs)
  PROVE  AllFit(calls', n, v, r, k)
<1>1. AllFit(Orphaned(cs, "page"), n, v, r, k)
  BY AllFitUpdated
<1> QED
  BY <1>1 DEF SignedOut, Unmount

LEMMA HeardCalls ==
  ASSUME CallsInv, Types, NEW s \in Slots, HeardStep(s)
  PROVE  CallsInv'
<1>0. /\ AllFit(calls, signIns, valid, row, stored)
      /\ AllFit(Done(calls, s), signIns, valid, row, stored)
      /\ signIns \in 0..MaxSignIns /\ valid \subseteq 1..signIns
      /\ calls[s] # None => Fits(calls[s], signIns, valid, row, stored)
  <2>1. /\ AllFit(calls, signIns, valid, row, stored)
        /\ signIns \in 0..MaxSignIns /\ valid \subseteq 1..signIns
    BY DEF CallsInv
  <2>2. AllFit(Done(calls, s), signIns, valid, row, stored)
    BY <2>1, AllFitDone
  <2>3. calls[s] # None => Fits(calls[s], signIns, valid, row, stored)
    BY <2>1 DEF AllFit
  <2> QED
    BY <2>1, <2>2, <2>3
<1>1. CASE SessionChecked(s)
  <2>1. AllFit(Orphaned(Done(calls, s), "page"), signIns, valid, row, stored)
    BY <1>0, AllFitUpdated
  <2>2. AllFit([Orphaned(Orphaned(calls, "page"), "login") EXCEPT ![s] = FirstLoad(page)],
               signIns, valid, row, stored)
    BY <1>0, MountFits DEF Types
  <2>3. AllFit(calls', signIns, valid, row, stored)
    BY <1>0, <1>1, <2>1, <2>2 DEF SessionChecked, Mount, Unmount
  <2> QED
    BY <1>1, <2>3, CallsMoved DEF SessionChecked, accountServer
<1>2. CASE UnauthorizedAnswered(s)
  BY <1>0, <1>2, SignedOutCalls, CallsMoved DEF UnauthorizedAnswered, accountServer
<1>3. CASE LogoutAnswered(s)
  <2>1. AllFit(calls', signIns, valid, row, stored)
    BY <1>0, <1>3, SignedOutCalls DEF LogoutAnswered
  <2>2. cookie' \in 0..signIns
    BY <1>0, <1>3, SignInsAssumption DEF LogoutAnswered, CallsInv
  <2> QED
    BY <1>0, <1>3, <2>1, <2>2 DEF LogoutAnswered, CallsInv, server, accountServer
<1>4. CASE PasswordAnswered(s)
  BY <1>0, <1>4, SignedOutCalls, CallsMoved DEF PasswordAnswered, accountServer
<1>5. CASE LoginAnswered(s)
  <2>1. CASE ~Ok(s)
    BY <1>0, <1>5, <2>1, CallsMoved DEF LoginAnswered, accountServer
  <2>2. CASE Ok(s)
    <3>1. cookie' \in 1..signIns /\ cookie' \in 0..MaxSignIns /\ cookie' <= signIns
      <4>1. calls[s].view \in Views("login") /\ calls[s].view <= signIns
        BY <1>0, <1>5, <2>2 DEF LoginAnswered, Answered, Ok, Fits
      <4>2. Views("login") = 1..MaxSignIns
        BY TypesOfCalls
      <4>3. cookie' = calls[s].view
        BY <1>5, <2>2 DEF LoginAnswered
      <4> QED
        BY <1>0, <4>1, <4>2, <4>3, SignInsAssumption
    <3> DEFINE c == [Call("session", None, "app") EXCEPT !.cookie = cookie']
    <3>2. /\ c \in CallType("session") /\ c.op = "session" /\ c.arg = None /\ c.to = "app"
          /\ c.mine = TRUE /\ c.cookie = cookie' /\ c.status = "sent" /\ c.view = None /\ c.old = FALSE
      BY <3>1 DEF Call, CallType, Args, Callers, Statuses
    <3> HIDE DEF c
    <3>3. Fits(c, signIns, valid, row, stored)
      BY <3>1, <3>2 DEF Fits, Refused, Ops
    <3>4. AllFit([calls EXCEPT ![s] = c], signIns, valid, row, stored)
      BY <1>0, <3>3, AllFitPut
    <3>5. AllFit(calls', signIns, valid, row, stored)
      BY <1>5, <2>2, <3>4 DEF LoginAnswered, c
    <3> QED
      BY <1>0, <1>5, <2>2, <3>1, <3>5, SignInsAssumption
         DEF LoginAnswered, CallsInv, server, accountServer
  <2> QED
    BY <2>1, <2>2
<1>6. CASE OnOverview(OverviewAnswered(s))
  BY <1>0, <1>6, CallsMoved DEF OnOverview, OverviewAnswered, accountServer
<1>7. CASE OnAccount(AccountHears(s))
  <2>1. \/ calls' = Done(calls, s)
        \/ \E ops : calls' = Done(Disowned(calls, ops), s)
    BY <1>7 DEF OnAccount, AccountHears, AccountAnswered, PressFailed, DeviceStarted, BrowserStarted,
                QuotaAnswered, Disconnected, FormAnswered, PasswordFailed, PollAnswered, Unheard
  <2>2. AllFit(calls', signIns, valid, row, stored)
    BY <1>0, <2>1, AllFitUpdated, AllFitDone
  <2>3. UNCHANGED <<cookie, server, row, stored>>
    BY <1>7 DEF OnAccount, AccountHears, AccountAnswered, PressFailed, DeviceStarted, BrowserStarted,
                QuotaAnswered, Disconnected, FormAnswered, PasswordFailed, PollAnswered, accountServer
  <2> QED
    BY <2>2, <2>3, CallsMoved
<1>8. ASSUME NEW to \in {"page", "nobody"}
      PROVE  Fits(LoadKeys(to), signIns, valid, row, stored)
  <2>1. "keys" \in Ops /\ None \in Args("keys") /\ to \in Callers
    BY DEF Ops, Args, Callers
  <2> QED
    BY <2>1, CallMade DEF LoadKeys
<1>9. ASSUME NEW to \in {"page", "nobody"}, NEW ops
      PROVE  /\ AllFit(ThenLoad(calls, s, to), signIns, valid, row, stored)
             /\ AllFit(ThenLoad(Disowned(calls, ops), s, to), signIns, valid, row, stored)
  <2>1. AllFit(Disowned(calls, ops), signIns, valid, row, stored)
    BY <1>0, AllFitUpdated
  <2> QED
    BY <1>0, <1>8, <2>1, AllFitPut DEF ThenLoad
<1>10. CASE OnKeys(KeysHears(s))
  <2>1. AllFit(calls', signIns, valid, row, stored)
    BY <1>0, <1>9, <1>10
       DEF OnKeys, KeysHears, KeysAnswered, CreateAnswered, CreateFailed, RevokeAnswered
  <2>2. UNCHANGED <<cookie, server, row, stored>>
    BY <1>10
       DEF OnKeys, KeysHears, KeysAnswered, CreateAnswered, CreateFailed, RevokeAnswered, accountServer
  <2> QED
    BY <2>1, <2>2, CallsMoved
<1>11. CASE NobodyAnswered(s)
  <2>1. AllFit(calls', signIns, valid, row, stored)
    BY <1>0, <1>9, <1>11 DEF NobodyAnswered
  <2> QED
    BY <1>11, <2>1, CallsMoved DEF NobodyAnswered, accountServer
<1> QED
  BY <1>1, <1>2, <1>3, <1>4, <1>5, <1>6, <1>7, <1>10, <1>11 DEF HeardStep

LEMMA CallsStep == CallsInv /\ Types /\ [Next]_vars => CallsInv'
<1>0. SUFFICES ASSUME CallsInv, Types, [Next]_vars PROVE CallsInv'
  OBVIOUS
<1>1. ASSUME NEW s \in Slots, UserStep(s) \/ ServerStep(s) \/ HeardStep(s)
      PROVE  CallsInv'
  BY <1>0, <1>1, UserCalls, ServerCalls, HeardCalls
<1>2. CASE DialogStep
  BY <1>0, <1>2, DialogCalls
<1>3. CASE Elsewhere
  <2>1. valid' \subseteq valid /\ UNCHANGED <<calls, cookie, signIns, row, stored>>
    BY <1>3 DEF Elsewhere, EndSession, browser, accountServer
  <2>2. signIns \in Nat /\ signIns <= signIns /\ valid' \subseteq valid \cup (signIns+1)..signIns
    BY <1>0, <2>1, SignInsAssumption DEF CallsInv
  <2>3. AllFit(calls, signIns, valid', row, stored)
    BY <1>0, <2>1, <2>2, AllFitLater DEF CallsInv
  <2> QED
    BY <1>0, <2>1, <2>3 DEF CallsInv
<1>4. CASE UNCHANGED vars
  BY <1>0, <1>4 DEF CallsInv, vars, server, accountServer
<1> QED
  BY <1>0, <1>1, <1>2, <1>3, <1>4 DEF Next

-----------------------------------------------------------------------------
(* The types of what the console and the server keep. *)

\* The answer to a call that succeeded.
LEMMA AnswerTyped ==
  ASSUME CallsInv, NEW s \in Slots, calls[s] # None, Ok(s)
  PROVE  /\ calls[s].op \in Telling \ {"poll"} => calls[s].view \in Accounts \cup {NoAccount}
         /\ calls[s].op = "poll" => calls[s].view \in Accounts \cup {NoAccount, None}
         /\ calls[s].op = "overview" => calls[s].view \in Days /\ calls[s].view = calls[s].arg
         /\ calls[s].op = "device" => calls[s].view \in Flows
         /\ calls[s].op = "keys" => calls[s].view \in [Keys -> KeyStates]
         /\ calls[s].op = "create" => calls[s].view \in Keys
<1>1. Fits(calls[s], signIns, valid, row, stored)
  BY DEF CallsInv, AllFit
<1>2. calls[s].op = "poll" => calls[s].view \in Accounts \cup {NoAccount, None}
  BY <1>1, TypesOfCalls DEF Fits, CallType, Telling
<1> QED
  BY <1>1, <1>2, TypesOfCalls DEF Fits, Ok, Telling

LEMMA InitTypes ==
  /\ OverviewInit \in OverviewType /\ AccountInit \in AccountType /\ KeysInit \in KeysType
BY TodayAssumption
   DEF OverviewInit, OverviewType, AccountInit, AccountType, FormStates, Buttons, KeysInit, KeysType, KeyStates

\* A page that comes or goes.
LEMMA NewTyped ==
  ASSUME Types, NewPages
  PROVE  /\ overview' \in OverviewType /\ account' \in AccountType /\ keyPage' \in KeysType
         /\ given' \subseteq Keys /\ heard' \in [late : BOOLEAN, missed : BOOLEAN]
BY InitTypes DEF Types, NewPages, Abandoned

LEMMA HeardTyped ==
  ASSUME Types, NEW s,
         \/ Learn(s) \/ Miss(s)
         \/ heard' = [heard EXCEPT !.late = @ \/ calls[s].old]
         \/ heard' = [heard EXCEPT !.missed = TRUE]
  PROVE  heard' \in [late : BOOLEAN, missed : BOOLEAN]
<1> DEFINE missed == heard.missed \/ calls[s].view # None
           late == heard.late \/ calls[s].old
<1>1. missed \in BOOLEAN /\ late \in BOOLEAN
  OBVIOUS
<1>2. ASSUME Miss(s) PROVE heard' = [heard EXCEPT !.missed = missed]
  BY <1>2 DEF Miss
<1>3. ASSUME heard' = [heard EXCEPT !.late = @ \/ calls[s].old]
      PROVE  heard' = [heard EXCEPT !.late = late]
  BY <1>3
<1> HIDE DEF missed, late
<1>4. /\ [heard EXCEPT !.missed = missed] \in [late : BOOLEAN, missed : BOOLEAN]
      /\ [heard EXCEPT !.late = late] \in [late : BOOLEAN, missed : BOOLEAN]
      /\ [heard EXCEPT !.missed = TRUE] \in [late : BOOLEAN, missed : BOOLEAN]
  BY <1>1 DEF Types
<1>5. ASSUME Learn(s) PROVE heard' \in [late : BOOLEAN, missed : BOOLEAN]
  BY <1>5 DEF Types, Learn
<1> QED
  BY <1>2, <1>3, <1>4, <1>5

LEMMA OverviewTyped ==
  ASSUME CallsInv, Types, NEW s \in Slots,
         OverviewUser(s) \/ Select \/ OverviewAnswered(s)
  PROVE  overview' \in OverviewType /\ heard' \in [late : BOOLEAN, missed : BOOLEAN]
<1>0. overview \in OverviewType /\ heard \in [late : BOOLEAN, missed : BOOLEAN]
  BY DEF Types
<1>1. CASE OverviewUser(s)
  BY <1>0, <1>1 DEF OverviewUser, PickDate, Refresh, LoadOverview, OverviewType
<1>2. CASE Select
  BY <1>0, <1>2 DEF Select, OverviewType
<1>3. CASE OverviewAnswered(s)
  <2>1. Ok(s) => calls[s].view \in Days
    BY <1>3, AnswerTyped DEF OverviewAnswered, Answered
  <2>2. ASSUME NEW entry \in Found(overview.selected, calls[s].view)
        PROVE  entry \in Days \cup {None}
    BY <1>0, <2>2 DEF Found, OverviewType
  <2>3. overview' \in OverviewType
    BY <1>0, <1>3, <2>1, <2>2 DEF OverviewAnswered, OverviewType
  <2> QED
    BY <1>3, <2>3, HeardTyped DEF OverviewAnswered
<1> QED
  BY <1>1, <1>2, <1>3

\* The operators the account page is built from.
LEMMA AccountMade ==
  ASSUME NEW a \in AccountType
  PROVE  /\ StopPolling(a) \in AccountType /\ Idle(a) \in AccountType
         /\ \A now \in Accounts \cup {NoAccount} : SetAccount(a, now) \in AccountType
         /\ \A f \in Flows : [a EXCEPT !.browser = "closed", !.device = f, !.failures = 0] \in AccountType
         /\ \A form \in Forms, state \in FormStates : [a EXCEPT ![form] = state] \in AccountType
         /\ \A n \in 0..2 : [a EXCEPT !.failures = n] \in AccountType
<1>1. /\ [a EXCEPT !.device = None] \in AccountType
      /\ \A f \in Flows : [a EXCEPT !.device = f] \in AccountType
  BY DEF AccountType
<1>2. \A b \in AccountType : \A n \in 0..2 : [b EXCEPT !.failures = n] \in AccountType
  BY DEF AccountType
<1>3. StopPolling(a) \in AccountType
  <2>1. 0 \in 0..2
    OBVIOUS
  <2> QED
    BY <1>1, <1>2, <2>1 DEF StopPolling
<1>4. Idle(a) \in AccountType
  BY DEF Idle, AccountType
<1>5. ASSUME NEW now \in Accounts \cup {NoAccount} PROVE SetAccount(a, now) \in AccountType
  BY DEF SetAccount, AccountType
<1>6. \A form \in Forms, state \in FormStates : [a EXCEPT ![form] = state] \in AccountType
  BY DEF AccountType, Forms
<1>7. ASSUME NEW f \in Flows
      PROVE  [a EXCEPT !.browser = "closed", !.device = f, !.failures = 0] \in AccountType
  <2> DEFINE b == [a EXCEPT !.browser = "closed"]
             d == [b EXCEPT !.device = f]
  <2>1. b \in AccountType
    BY DEF AccountType, FormStates
  <2> HIDE DEF b
  <2>2. d \in AccountType
    BY <2>1 DEF AccountType
  <2> HIDE DEF d
  <2>3. 0 \in 0..2
    OBVIOUS
  <2>4. [d EXCEPT !.failures = 0] \in AccountType
    BY <1>2, <2>2, <2>3
  <2> QED
    BY <2>4 DEF b, d
<1> QED
  BY <1>2, <1>3, <1>4, <1>5, <1>6, <1>7

LEMMA AccountUserTyped ==
  ASSUME Types, NEW s,
         \/ AccountUser(s) \/ EndDevice
         \/ \E form \in Forms : OpenForm(form) \/ CloseForm(form)
  PROVE  account' \in AccountType /\ UNCHANGED heard
<1>0. account \in AccountType
  BY DEF Types
<1>1. ASSUME NEW op \in Buttons, Press(s, op) PROVE account' \in AccountType /\ UNCHANGED heard
  BY <1>0, <1>1 DEF Press, AccountType
<1>2. ASSUME NEW op \in DOMAIN FormOf, Submit(s, op) PROVE account' \in AccountType /\ UNCHANGED heard
  BY <1>0, <1>2 DEF Submit, AccountType, FormOf, FormStates
<1>3. CASE Poll(s)
  BY <1>0, <1>3 DEF Poll
<1>4. CASE EndDevice
  BY <1>0, <1>4, AccountMade DEF EndDevice
<1>5. ASSUME NEW form \in Forms, OpenForm(form) \/ CloseForm(form)
      PROVE  account' \in AccountType /\ UNCHANGED heard
  BY <1>0, <1>5 DEF OpenForm, CloseForm, AccountType, Forms, FormStates
<1> QED
  BY <1>1, <1>2, <1>3, <1>4, <1>5 DEF AccountUser

LEMMA AccountHeardTyped ==
  ASSUME CallsInv, Types, NEW s \in Slots, AccountHears(s)
  PROVE  account' \in AccountType /\ heard' \in [late : BOOLEAN, missed : BOOLEAN]
<1>0. account \in AccountType /\ heard \in [late : BOOLEAN, missed : BOOLEAN]
  BY DEF Types
<1>1. CASE AccountAnswered(s)
  <2>1. Ok(s) => calls[s].view \in Accounts \cup {NoAccount}
    BY <1>1, AnswerTyped DEF AccountAnswered, FromPage, Answered, Telling
  <2>2. account' \in AccountType
    BY <1>0, <1>1, <2>1 DEF AccountAnswered, SetAccount, AccountType
  <2> QED
    BY <1>1, <2>2, HeardTyped DEF AccountAnswered
<1>2. CASE PressFailed(s)
  BY <1>0, <1>2, HeardTyped DEF PressFailed, Idle, Unheard, AccountType
<1>3. CASE DeviceStarted(s)
  <2>1. calls[s].view \in Flows
    BY <1>3, AnswerTyped DEF DeviceStarted, FromPage, Answered
  <2> QED
    BY <1>0, <1>3, <2>1, AccountMade DEF DeviceStarted
<1>4. CASE BrowserStarted(s)
  <2> DEFINE a == StopPolling(Idle(account))
  <2>1. a \in AccountType
    BY <1>0, AccountMade
  <2> HIDE DEF a
  <2>2. account' = [a EXCEPT !.browser = IF @ = "closed" THEN "open" ELSE @]
    BY <1>4 DEF BrowserStarted, a
  <2>3. account' \in AccountType
    BY <2>1, <2>2 DEF AccountType, FormStates
  <2> QED
    BY <1>0, <1>4, <2>3 DEF BrowserStarted
<1>5. CASE QuotaAnswered(s)
  <2>1. calls[s].view \in Accounts \cup {NoAccount}
    BY <1>5, AnswerTyped DEF QuotaAnswered, FromPage, Answered, Telling
  <2>2. account' \in AccountType
    BY <1>0, <1>5, <2>1 DEF QuotaAnswered, Idle, AccountType
  <2> QED
    BY <1>5, <2>2, HeardTyped DEF QuotaAnswered
<1>6. CASE Disconnected(s)
  <2>1. calls[s].view \in Accounts \cup {NoAccount}
    BY <1>6, AnswerTyped DEF Disconnected, FromPage, Answered, Telling
  <2>2. account' \in AccountType
    BY <1>0, <1>6, <2>1 DEF Disconnected, SetAccount, Idle, AccountType
  <2> QED
    BY <1>6, <2>2, HeardTyped DEF Disconnected
<1>7. ASSUME NEW op \in {"callback", "import"}, FromPage(s, op),
             \/ /\ Ok(s)
                /\ account' = [SetAccount(account, calls[s].view) EXCEPT ![FormOf[op]] = "closed"]
                /\ Learn(s)
             \/ /\ account' = [account EXCEPT ![FormOf[op]] = IF calls[s].mine THEN "open" ELSE @]
                /\ Unheard(s)
      PROVE  account' \in AccountType /\ heard' \in [late : BOOLEAN, missed : BOOLEAN]
  <2>1. Ok(s) => calls[s].view \in Accounts \cup {NoAccount}
    BY <1>7, AnswerTyped DEF FromPage, Answered, Telling
  <2>2. account' \in AccountType
    <3>1. FormOf[op] \in Forms /\ account[FormOf[op]] \in FormStates
      BY <1>0 DEF FormOf, Forms, AccountType
    <3>2. {"open", "closed"} \subseteq FormStates
      BY DEF FormStates
    <3>3. Ok(s) => SetAccount(account, calls[s].view) \in AccountType
      BY <1>0, <2>1, AccountMade
    <3>4. CASE account' = [SetAccount(account, calls[s].view) EXCEPT ![FormOf[op]] = "closed"] /\ Ok(s)
      <4> DEFINE a == SetAccount(account, calls[s].view)
      <4>1. a \in AccountType
        BY <3>3, <3>4
      <4> HIDE DEF a
      <4>2. [a EXCEPT ![FormOf[op]] = "closed"] \in AccountType
        BY <3>1, <3>2, <4>1, AccountMade
      <4> QED
        BY <3>4, <4>2 DEF a
    <3>5. CASE account' = [account EXCEPT ![FormOf[op]] = IF calls[s].mine THEN "open" ELSE @]
      <4>1. /\ [account EXCEPT ![FormOf[op]] = "open"] \in AccountType
            /\ [account EXCEPT ![FormOf[op]] = account[FormOf[op]]] \in AccountType
        BY <1>0, <3>1, <3>2, AccountMade
      <4> QED
        BY <3>5, <4>1
    <3> QED
      BY <1>7, <3>4, <3>5
  <2> QED
    BY <1>7, <2>2, HeardTyped DEF Unheard
<1>8. CASE PasswordFailed(s)
  BY <1>0, <1>8 DEF PasswordFailed, AccountType, FormStates
<1>9. CASE PollAnswered(s)
  <2>1. Ok(s) /\ calls[s].view # None => calls[s].view \in Accounts \cup {NoAccount}
    BY <1>9, AnswerTyped DEF PollAnswered, FromPage, Answered
  <2>2. account' \in AccountType
    <3>1. account.failures \in 0..2 /\ StopPolling(account) \in AccountType
      BY <1>0, AccountMade DEF AccountType
    <3>2. account.failures < 2 => account.failures + 1 \in 0..2
      BY <3>1
    <3>3. calls[s].mine /\ Ok(s) /\ calls[s].view # None
            => SetAccount(StopPolling(account), calls[s].view) \in AccountType
      BY <2>1, <3>1, AccountMade
    <3>4. 0 \in 0..2
      OBVIOUS
    <3> QED
      BY <1>0, <1>9, <3>1, <3>2, <3>3, <3>4, AccountMade DEF PollAnswered
  <2> QED
    BY <1>0, <1>9, <2>2, HeardTyped DEF PollAnswered, Unheard
<1> QED
  BY <1>1, <1>2, <1>3, <1>4, <1>5, <1>6, <1>7, <1>8, <1>9 DEF AccountHears, FormAnswered

LEMMA KeysUserTyped ==
  ASSUME Types, NEW s,
         SubmitCreate(s) \/ Revoke(s) \/ OpenCreate \/ CloseCreate \/ CloseSecret
  PROVE  keyPage' \in KeysType /\ UNCHANGED heard /\ given' \subseteq Keys
<1>0. keyPage \in KeysType /\ given \subseteq Keys
  BY DEF Types
<1>1. CASE SubmitCreate(s) \/ Revoke(s)
  BY <1>0, <1>1 DEF SubmitCreate, Revoke, KeysType
<1>2. CASE OpenCreate \/ CloseCreate \/ CloseSecret
  BY <1>0, <1>2 DEF OpenCreate, CloseCreate, CloseSecret, KeysType
<1> QED
  BY <1>1, <1>2

LEMMA KeysHeardTyped ==
  ASSUME CallsInv, Types, NEW s \in Slots, KeysHears(s)
  PROVE  /\ keyPage' \in KeysType /\ heard' \in [late : BOOLEAN, missed : BOOLEAN]
         /\ given' \subseteq Keys
<1>0. keyPage \in KeysType /\ heard \in [late : BOOLEAN, missed : BOOLEAN] /\ given \subseteq Keys
  BY DEF Types
<1>1. CASE KeysAnswered(s)
  <2>1. Ok(s) => calls[s].view \in [Keys -> KeyStates]
    BY <1>1, AnswerTyped DEF KeysAnswered, Answered
  <2>2. keyPage' \in KeysType /\ given' \subseteq Keys
    BY <1>0, <1>1, <2>1 DEF KeysAnswered, KeysType
  <2> QED
    BY <1>1, <2>2, HeardTyped DEF KeysAnswered
<1>2. CASE CreateAnswered(s)
  <2>1. calls[s].view \in Keys
    BY <1>2, AnswerTyped DEF CreateAnswered, Answered
  <2> QED
    BY <1>0, <1>2, <2>1 DEF CreateAnswered, Created, Overwritten, KeysType
<1>3. CASE CreateFailed(s)
  <2>1. keyPage' \in KeysType /\ given' \subseteq Keys
    BY <1>0, <1>3 DEF CreateFailed, NeverShown, KeysType
  <2> QED
    BY <1>3, <2>1, HeardTyped DEF CreateFailed
<1>4. CASE RevokeAnswered(s)
  <2>1. keyPage' \in KeysType /\ given' \subseteq Keys
    BY <1>0, <1>4 DEF RevokeAnswered
  <2> QED
    BY <1>0, <1>4, <2>1, HeardTyped DEF RevokeAnswered
<1> QED
  BY <1>1, <1>2, <1>3, <1>4 DEF KeysHears

\* The server has no part in what the console keeps.
LEMMA ServerAlone ==
  ASSUME NEW s, ServerStep(s)
  PROVE  UNCHANGED <<app, pages, given, heard>>
BY DEF ServerStep, ServeSession, ServeLogin, ServeLogout, ServeOverview, Refuse, Fail,
       AccountServes, ServeAccount, Replace, ServeDisconnect, ServeQuota, ServeBrowser,
       ServeDevice, PollPending, PollComplete, ServePassword, WrongPassword,
       KeysServes, ServeKeys, ServeCreate, ServeRevoke, StoreKey

LEMMA ServerTyped ==
  ASSUME CallsInv, Types, NEW s \in Slots, ServerStep(s)
  PROVE  Types'
<1>1. /\ row' \in Accounts \cup {NoAccount} /\ live' \subseteq Flows
      /\ stored' \in [Keys -> KeyStates]
  <2>1. ASSUME AccountServes(s)
        PROVE  row' \in Accounts \cup {NoAccount} /\ live' \subseteq Flows
    BY <2>1 DEF Types, AccountServes, ServeAccount, Replace, ServeDisconnect, ServeQuota, ServeBrowser,
                ServeDevice, PollPending, PollComplete, ServePassword, WrongPassword, Tell, accountServer
  <2>2. ASSUME KeysServes(s) PROVE stored' \in [Keys -> KeyStates]
    BY <2>2 DEF Types, KeysServes, ServeKeys, ServeCreate, ServeRevoke, StoreKey, KeyStates
  <2> QED
    BY <2>1, <2>2 DEF Types, ServerStep, accountServer
<1>2. UNCHANGED <<app, pages, given, heard>>
  BY ServerAlone
<1> QED
  BY <1>1, <1>2 DEF Types, app, pages

LEMMA TypesStep == CallsInv /\ Types /\ [Next]_vars => Types'
<1>0. SUFFICES ASSUME CallsInv, Types, [Next]_vars PROVE Types'
  OBVIOUS
<1>1. ASSUME NEW s \in Slots, UserStep(s) PROVE Types'
  <2>1. ASSUME NEW p \in Pages, Navigate(s, p) PROVE Types'
    BY <1>0, <2>1, NewTyped DEF Types, Navigate, Mount, accountServer
  <2>2. CASE Logout(s) \/ SignIn(s)
    BY <1>0, <2>2 DEF Types, Logout, SignIn, Staying, app, pages, accountServer
  <2>3. CASE OnOverview(OverviewUser(s))
    BY <1>0, <2>3, OverviewTyped DEF Types, OnOverview, app, accountServer
  <2>4. CASE OnAccount(AccountUser(s))
    BY <1>0, <2>4, AccountUserTyped DEF Types, OnAccount, app, accountServer
  <2>5. CASE OnKeys(SubmitCreate(s)) \/ OnKeys(Revoke(s))
    BY <1>0, <2>5, KeysUserTyped DEF Types, OnKeys, app, accountServer
  <2> QED
    BY <1>1, <2>1, <2>2, <2>3, <2>4, <2>5 DEF UserStep
<1>2. ASSUME NEW s \in Slots, HeardStep(s) PROVE Types'
  <2>1. CASE SessionChecked(s)
    BY <1>0, <2>1, NewTyped
       DEF Types, SessionChecked, Mount, Unmount, Staying, pages, accountServer
  <2>2. ASSUME NEW cs, SignedOut(cs), signing' \in BOOLEAN, UNCHANGED <<page, row, live, stored>>
        PROVE  Types'
    BY <1>0, <2>2, NewTyped DEF Types, SignedOut, Unmount, Staying, pages
  <2>3. CASE UnauthorizedAnswered(s)
    <3>1. signing' \in BOOLEAN
      BY <1>0, <2>3 DEF Types, UnauthorizedAnswered
    <3> QED
      BY <2>2, <2>3, <3>1 DEF UnauthorizedAnswered, accountServer
  <2>4. CASE LogoutAnswered(s) \/ PasswordAnswered(s)
    <3>1. signing' \in BOOLEAN
      BY <1>0, <2>4 DEF Types, LogoutAnswered, PasswordAnswered
    <3> QED
      BY <1>0, <2>2, <2>4, <3>1
         DEF LogoutAnswered, PasswordAnswered, accountServer, Types, Staying, pages
  <2>5. CASE LoginAnswered(s)
    <3>1. signing' \in BOOLEAN
      BY <1>0, <2>5 DEF Types, LoginAnswered
    <3> QED
      BY <1>0, <2>5, <3>1 DEF LoginAnswered, accountServer, Types, Staying, pages
  <2>6. CASE OnOverview(OverviewAnswered(s))
    BY <1>0, <2>6, OverviewTyped DEF Types, OnOverview, app, accountServer
  <2>7. CASE OnAccount(AccountHears(s))
    BY <1>0, <2>7, AccountHeardTyped DEF Types, OnAccount, app, accountServer
  <2>8. CASE OnKeys(KeysHears(s))
    BY <1>0, <2>8, KeysHeardTyped DEF Types, OnKeys, app, accountServer
  <2>9. CASE NobodyAnswered(s)
    BY <1>0, <2>9, HeardTyped DEF Types, NobodyAnswered, NeverShown, app, pages, accountServer
  <2> QED
    BY <1>2, <2>1, <2>3, <2>4, <2>5, <2>6, <2>7, <2>8, <2>9 DEF HeardStep
<1>3. ASSUME NEW s \in Slots, ServerStep(s) PROVE Types'
  BY <1>0, <1>3, ServerTyped
<1>4. CASE DialogStep
  <2>1. CASE OnOverview(Select)
    BY <1>0, <2>1 DEF Types, OnOverview, Select, OverviewType, app, accountServer
  <2>2. CASE OnAccount(EndDevice)
    BY <1>0, <2>2, AccountUserTyped DEF Types, OnAccount, app, accountServer
  <2>3. ASSUME NEW form \in Forms, OnAccount(OpenForm(form)) \/ OnAccount(CloseForm(form))
        PROVE  Types'
    BY <1>0, <2>3, AccountUserTyped DEF Types, OnAccount, app, accountServer
  <2>4. CASE OnKeys(OpenCreate) \/ OnKeys(CloseCreate) \/ OnKeys(CloseSecret)
    BY <1>0, <2>4, KeysUserTyped DEF Types, OnKeys, app, accountServer
  <2> QED
    BY <1>4, <2>1, <2>2, <2>3, <2>4 DEF DialogStep
<1>5. CASE Elsewhere
  BY <1>0, <1>5 DEF Types, Elsewhere, EndSession, app, pages, accountServer
<1>6. CASE UNCHANGED vars
  BY <1>0, <1>6 DEF Types, vars, app, pages, accountServer
<1> QED
  BY <1>0, <1>1, <1>2, <1>3, <1>4, <1>5, <1>6 DEF Next

-----------------------------------------------------------------------------
(* Components come and go. *)

LEMMA PlacedPut ==
  ASSUME NEW cs, NEW n, NEW v, NEW r, NEW k, AllFit(cs, n, v, r, k),
         NEW state, Placed(cs, state), NEW s \in Slots, NEW c,
         c # None => (c.to = "page" => state = "in") /\ (c.to = "login" => state = "out")
  PROVE  Placed([cs EXCEPT ![s] = c], state) /\ Placed(Done(cs, s), state)
BY DEF AllFit, Placed, Done

LEMMA PlacedUpdated ==
  ASSUME NEW cs, NEW n, NEW v, NEW r, NEW k, AllFit(cs, n, v, r, k),
         NEW state, NEW ops, NEW statuses
  PROVE  /\ Placed(cs, state) => Placed(Disowned(cs, ops), state)
         /\ Placed(cs, state) => Placed(Outdated(cs, ops, statuses), state)
         /\ Placed(Orphaned(cs, "page"), "out")
         /\ Placed(Orphaned(Orphaned(cs, "page"), "login"), state)
<1>1. Placed(cs, state) => Placed(Disowned(cs, ops), state)
  BY DisownedCall DEF Placed
<1>2. Placed(cs, state) => Placed(Outdated(cs, ops, statuses), state)
  BY OutdatedCall DEF Placed
<1>3. \A s \in Slots : Orphaned(cs, "page")[s] # None => Orphaned(cs, "page")[s].to # "page"
  BY OrphanedCall
<1>4. AllFit(Orphaned(cs, "page"), n, v, r, k)
  BY AllFitUpdated
<1>5. ASSUME NEW s \in Slots, Orphaned(Orphaned(cs, "page"), "login")[s] # None
      PROVE  Orphaned(Orphaned(cs, "page"), "login")[s].to \notin {"page", "login"}
  BY <1>3, <1>4, <1>5, OrphanedCall
<1> QED
  BY <1>1, <1>2, <1>3, <1>5 DEF Placed

\* A reply does not change who waits for it.
LEMMA RepliedCall ==
  ASSUME NEW cs, NEW n, NEW v, NEW r, NEW k, AllFit(cs, n, v, r, k),
         NEW s \in Slots, cs[s] # None, NEW status, NEW view, NEW x \in Slots
  PROVE  LET now == Replied(cs, s, status, view)[x] IN
         /\ x # s => now = cs[x]
         /\ x = s => /\ now.op = cs[s].op /\ now.arg = cs[s].arg /\ now.to = cs[s].to
                     /\ now.mine = cs[s].mine /\ now.cookie = cs[s].cookie /\ now.old = cs[s].old
                     /\ now.status = status /\ now.view = view
<1>1. Fits(cs[s], n, v, r, k)
  BY DEF AllFit
<1> QED
  BY <1>1 DEF AllFit, Replied, Fits, CallType

LEMMA FailedCall ==
  ASSUME CallsInv, NEW s \in Slots, Fail(s), NEW x \in Slots
  PROVE  /\ x # s => calls'[x] = calls[x]
         /\ x = s => /\ calls[s] # None
                     /\ calls'[s].op = calls[s].op /\ calls'[s].to = calls[s].to
                     /\ calls'[s].arg = calls[s].arg /\ calls'[s].mine = calls[s].mine
                     /\ calls'[s].cookie = calls[s].cookie /\ calls'[s].old = calls[s].old
                     /\ calls'[s].status = "failed" /\ calls'[s].view = calls[s].view
<1>1. Fits(calls[s], signIns, valid, row, stored)
  BY DEF CallsInv, AllFit, Fail
<1> QED
  BY <1>1 DEF CallsInv, AllFit, Fail, Fits, CallType

LEMMA MountedPlaced ==
  ASSUME NEW cs, AllFit(cs, signIns, valid, row, stored), NEW s \in Slots, NEW p \in Pages
  PROVE  Placed([Orphaned(Orphaned(cs, "page"), "login") EXCEPT ![s] = FirstLoad(p)], "in")
<1>1. /\ AllFit(Orphaned(Orphaned(cs, "page"), "login"), signIns, valid, row, stored)
      /\ Placed(Orphaned(Orphaned(cs, "page"), "login"), "in")
  BY AllFitUpdated, PlacedUpdated
<1>2. FirstLoad(p).to = "page"
  BY DEF FirstLoad, Pages, Call, LoadAccount, LoadKeys
<1> QED
  BY <1>1, <1>2, PlacedPut

\* Whatever is done to a page, it is the page that is up.
LEMMA BlankStep == Blank /\ [Next]_vars => Blank'
<1>0. SUFFICES ASSUME Blank, [Next]_vars PROVE Blank'
  OBVIOUS
<1>1. ASSUME NewPages PROVE Blank'
  BY <1>1 DEF Blank, NewPages
<1>2. ASSUME UNCHANGED <<app, pages>> PROVE Blank'
  BY <1>0, <1>2 DEF Blank, Mounted, app, pages
<1>3. ASSUME UNCHANGED <<session, page, pages>> PROVE Blank'
  BY <1>0, <1>3 DEF Blank, Mounted, pages
<1>4. ASSUME Mounted("overview"), UNCHANGED <<app, account, keyPage>> PROVE Blank'
  BY <1>0, <1>4 DEF Blank, Mounted, app
<1>5. ASSUME Mounted("account"), UNCHANGED <<app, overview, keyPage>> PROVE Blank'
  BY <1>0, <1>5 DEF Blank, Mounted, app
<1>6. ASSUME Mounted("keys"), UNCHANGED <<app, overview, account>> PROVE Blank'
  BY <1>0, <1>6 DEF Blank, Mounted, app
<1>7. ASSUME NEW cs, SignedOut(cs), UNCHANGED page PROVE Blank'
  BY <1>0, <1>1, <1>7 DEF Blank, Mounted, SignedOut, Unmount, Staying, pages
<1>8. ASSUME NEW s \in Slots, UserStep(s) PROVE Blank'
  BY <1>1, <1>2, <1>3, <1>4, <1>5, <1>6, <1>8
     DEF UserStep, Navigate, Mount, Logout, SignIn, Staying, OnOverview, OnAccount, OnKeys
<1>9. ASSUME NEW s \in Slots, HeardStep(s) PROVE Blank'
  <2>1. CASE SessionChecked(s)
    BY <1>1, <1>3, <2>1 DEF SessionChecked, Mount, Unmount, Staying
  <2>2. CASE UnauthorizedAnswered(s) \/ LogoutAnswered(s) \/ PasswordAnswered(s)
    BY <1>3, <1>7, <2>2 DEF UnauthorizedAnswered, LogoutAnswered, PasswordAnswered, Staying
  <2>3. CASE LoginAnswered(s)
    BY <1>3, <2>3 DEF LoginAnswered, Staying
  <2>4. CASE OnOverview(OverviewAnswered(s)) \/ OnAccount(AccountHears(s)) \/ OnKeys(KeysHears(s))
    BY <1>4, <1>5, <1>6, <2>4 DEF OnOverview, OnAccount, OnKeys
  <2>5. CASE NobodyAnswered(s)
    BY <1>2, <2>5 DEF NobodyAnswered
  <2> QED
    BY <1>9, <2>1, <2>2, <2>3, <2>4, <2>5 DEF HeardStep
<1>10. CASE DialogStep
  BY <1>4, <1>5, <1>6, <1>10 DEF DialogStep, OnOverview, OnAccount, OnKeys
<1>11. ASSUME NEW s \in Slots, ServerStep(s) PROVE Blank'
  BY <1>2, <1>11 DEF ServerStep
<1>12. CASE Elsewhere
  BY <1>2, <1>12 DEF Elsewhere
<1>13. CASE UNCHANGED vars
  BY <1>2, <1>13 DEF vars
<1> QED
  BY <1>0, <1>8, <1>9, <1>10, <1>11, <1>12, <1>13 DEF Next

LEMMA CallPlaced ==
  ASSUME CallsInv, Placed(calls, session), NEW s \in Slots, NEW op, NEW arg, NEW to,
         Ask(s, Call(op, arg, to)), UNCHANGED session,
         to = "page" => session = "in", to = "login" => session = "out"
  PROVE  Placed(calls', session')
<1>1. Call(op, arg, to).to = to
  BY DEF Call
<1> QED
  BY <1>1, PlacedPut DEF Ask, CallsInv

LEMMA UserPlaced ==
  ASSUME CallsInv, Types, Placed(calls, session), NEW s \in Slots, UserStep(s)
  PROVE  Placed(calls', session')
<1>1. ASSUME NEW p \in Pages, Navigate(s, p) PROVE Placed(calls', session')
  BY <1>1, MountedPlaced DEF Navigate, Mount, CallsInv
<1>2. CASE Logout(s)
  BY <1>2, CallPlaced DEF Logout, app
<1>3. CASE SignIn(s)
  BY <1>3, CallPlaced DEF SignIn
<1>4. CASE OnOverview(OverviewUser(s))
  <2>1. PICK date : LoadOverview(s, date)
    BY <1>4 DEF OnOverview, OverviewUser, PickDate, Refresh
  <2>2. OverviewCall(date).to = "page"
    BY DEF OverviewCall, Call
  <2>3. /\ AllFit(Outdated(calls, {"overview"}, Statuses), signIns, valid, row, stored)
        /\ Placed(Outdated(calls, {"overview"}, Statuses), session)
    BY AllFitUpdated, PlacedUpdated DEF CallsInv
  <2> QED
    BY <1>4, <2>1, <2>2, <2>3, PlacedPut DEF OnOverview, Mounted, LoadOverview, app
<1>5. CASE OnAccount(AccountUser(s))
  BY <1>5, CallPlaced DEF OnAccount, AccountUser, Mounted, Press, Submit, Poll, app
<1>6. CASE OnKeys(SubmitCreate(s)) \/ OnKeys(Revoke(s))
  BY <1>6, CallPlaced DEF OnKeys, Mounted, SubmitCreate, Revoke, app
<1> QED
  BY <1>1, <1>2, <1>3, <1>4, <1>5, <1>6 DEF UserStep

\* What a step leaves of a call that stays under way.
Kept(x) ==
  /\ calls[x] # None /\ calls'[x] # None
  /\ calls'[x].op = calls[x].op /\ calls'[x].arg = calls[x].arg /\ calls'[x].to = calls[x].to
  /\ calls'[x].mine => calls[x].mine
  /\ calls[x].old => calls'[x].old

Unanswered(x) == Kept(x) /\ calls'[x].status = calls[x].status /\ calls'[x].view = calls[x].view

\* What the server does to the calls: it answers one, and may outdate others.
Served(s) ==
  /\ \A x \in Slots : calls[x] = None => calls'[x] = None
  /\ \A x \in UnderWay : Kept(x) /\ (x # s => Unanswered(x)) /\ calls'[x].mine = calls[x].mine
  /\ calls[s] # None
  /\ \/ calls[s].status = "sent"
     \/ calls'[s].status = "failed" /\ calls'[s].view = calls[s].view

LEMMA RepliedServes ==
  ASSUME CallsInv, NEW s \in Slots, calls[s] # None, calls[s].status = "sent",
         NEW cs, NEW status \in Statuses, NEW view \in Views(calls[s].op) \cup {None},
         calls' = Replied(cs, s, status, view),
         cs = calls \/ \E ops, statuses : cs = Outdated(calls, ops, statuses)
  PROVE  Served(s) /\ calls'[s].status = status /\ calls'[s].view = view
<1>1. AllFit(calls, signIns, valid, row, stored)
  BY DEF CallsInv
<1>2. AllFit(cs, signIns, valid, row, stored)
  BY <1>1, AllFitUpdated
<1>3. ASSUME NEW x \in Slots
      PROVE  /\ cs[x] = None <=> calls[x] = None
             /\ calls[x] # None =>
                  /\ cs[x].op = calls[x].op /\ cs[x].arg = calls[x].arg /\ cs[x].to = calls[x].to
                  /\ cs[x].mine = calls[x].mine /\ (calls[x].old => cs[x].old)
                  /\ cs[x].status = calls[x].status /\ cs[x].view = calls[x].view
  BY <1>1, OutdatedCall
<1>4. AllFit(cs, signIns, valid, row, stored) /\ cs[s] # None
  BY <1>2, <1>3
<1>5. ASSUME NEW x \in Slots
      PROVE  /\ x # s => calls'[x] = cs[x]
             /\ x = s => /\ calls'[x].op = cs[s].op /\ calls'[x].arg = cs[s].arg /\ calls'[x].to = cs[s].to
                         /\ calls'[x].mine = cs[s].mine /\ calls'[x].old = cs[s].old
                         /\ calls'[x].status = status /\ calls'[x].view = view
  BY <1>4, RepliedCall
<1>6. calls'[s] # None
  <2> DEFINE c == [cs[s] EXCEPT !.status = status, !.view = view]
  <2>1. Fits(cs[s], signIns, valid, row, stored) /\ cs[s].op = calls[s].op
    BY <1>3, <1>4 DEF AllFit
  <2>2. c \in CallType(cs[s].op) /\ cs[s].op \in Ops
    BY <2>1 DEF Fits, CallType
  <2>3. calls'[s] = c
    BY <1>4 DEF Replied, AllFit
  <2> QED
    BY <2>2, <2>3, NoneAssumption
<1> QED
  BY <1>3, <1>5, <1>6 DEF Served, Kept, Unanswered, UnderWay

\* A call that changes the account, or a key, is answered with it.
LEMMA ServerServes ==
  ASSUME CallsInv, Types, NEW s \in Slots, ServerStep(s)
  PROVE  /\ Served(s)
         /\ row' # row => /\ calls'[s].op \in Changing /\ calls'[s].view = row'
                          /\ row' \in Accounts \cup {NoAccount}
         /\ stored' # stored =>
              /\ calls'[s].op \in {"create", "revoke"} /\ calls'[s].view \in Keys
              /\ \A k \in Keys : stored[k] = "unused" /\ stored'[k] # "unused" =>
                   calls'[s].op = "create" /\ calls'[s].view = k /\ calls'[s].status = "ok"
<1>0. /\ "ok" \in Statuses /\ "unauthorized" \in Statuses
      /\ calls[s] # None => Fits(calls[s], signIns, valid, row, stored)
  BY DEF Statuses, CallsInv, AllFit
<1>1. ASSUME NEW status \in {"ok", "unauthorized"}, NEW view \in Views(calls[s].op) \cup {None},
             calls[s] # None, calls[s].status = "sent", calls' = Replied(calls, s, status, view)
      PROVE  Served(s)
  BY <1>0, <1>1, RepliedServes
<1>2. ASSUME ServeSession(s) PROVE Served(s)
  BY <1>1, <1>2, TypesOfCalls DEF ServeSession, Sent, Reply
<1>3. ASSUME ServeLogin(s) PROVE Served(s)
  <2>1. ASSUME signIns < MaxSignIns, signIns' = signIns + 1 PROVE signIns' \in 1..MaxSignIns
    BY <2>1, SignInsAssumption DEF CallsInv
  <2> QED
    BY <1>1, <1>3, <2>1, TypesOfCalls DEF ServeLogin, Sent, Reply
<1>4. ASSUME ServeLogout(s) \/ ServeOverview(s) PROVE Served(s)
  <2>1. calls[s].op = "overview" /\ calls[s] # None => calls[s].arg \in Views("overview")
    BY <1>0, TypesOfCalls DEF Fits, CallType, Args
  <2> QED
    BY <1>1, <1>4, <2>1 DEF ServeLogout, ServeOverview, Admitted, Sent, Reply
<1>5. ASSUME Refuse(s) PROVE Served(s)
  BY <1>1, <1>5 DEF Refuse
<1>6. ASSUME Fail(s) PROVE Served(s)
  <2>1. calls[s] # None
    BY <1>6 DEF Fail
  <2>2. [calls[s] EXCEPT !.status = "failed"] \in CallType(calls[s].op) /\ calls[s].op \in Ops
    BY <1>0, <2>1 DEF Fits, CallType, Statuses
  <2>3. calls'[s] # None
    BY <1>6, <2>2, NoneAssumption DEF Fail, CallsInv, AllFit
  <2> QED
    BY <1>6, <2>1, <2>3, FailedCall DEF Served, Kept, Unanswered, UnderWay
<1>7. ASSUME NEW now \in Accounts \cup {NoAccount}, Tell(s, now), calls[s] # None,
             calls[s].status = "sent", calls[s].op \in Telling
      PROVE  Served(s) /\ calls'[s].view = now /\ calls'[s].op = calls[s].op
  <2>1. now \in Views(calls[s].op)
    BY <1>7, TypesOfCalls
  <2>2. Served(s) /\ calls'[s].view = now
    BY <1>0, <1>7, <2>1, RepliedServes DEF Tell
  <2> QED
    BY <1>7, <2>2 DEF Served, Kept, UnderWay
<1>8. ASSUME AccountServes(s)
      PROVE  /\ Served(s)
             /\ row' # row => /\ calls'[s].op \in Changing /\ calls'[s].view = row'
                              /\ row' \in Accounts \cup {NoAccount}
  <2>0. {"account", "quota", "poll", "callback", "import", "disconnect"} = Telling
    BY DEF Telling
  <2>1. CASE ServeAccount(s) \/ ServeQuota(s)
    BY <1>1, <2>0, <2>1, TypesOfCalls
       DEF ServeAccount, ServeQuota, Admitted, Sent, Reply, Types, accountServer
  <2>2. CASE Replace(s)
    BY <1>7, <2>0, <2>2 DEF Replace, Admitted, Sent, Tell, Changing
  <2>3. CASE ServeDisconnect(s)
    BY <1>7, <2>0, <2>3 DEF ServeDisconnect, Admitted, Sent, Tell, Changing
  <2>4. CASE ServeBrowser(s) \/ PollPending(s) \/ ServePassword(s) \/ WrongPassword(s)
    BY <1>1, <2>4 DEF ServeBrowser, PollPending, ServePassword, WrongPassword, Admitted, Sent, Reply,
                      accountServer
  <2>5. CASE ServeDevice(s)
    BY <1>1, <2>5, TypesOfCalls DEF ServeDevice, Admitted, Sent, Reply
  <2>6. CASE PollComplete(s)
    BY <1>7, <2>0, <2>6 DEF PollComplete, Admitted, Sent, Tell, Changing
  <2> QED
    BY <1>8, <2>1, <2>2, <2>3, <2>4, <2>5, <2>6 DEF AccountServes
<1>9. ASSUME NEW k \in Keys, NEW state, StoreKey(s, k, state), calls[s] # None,
             calls[s].status = "sent", calls[s].op \in {"create", "revoke"}
      PROVE  /\ Served(s) /\ calls'[s].view = k /\ calls'[s].status = "ok"
             /\ calls'[s].op = calls[s].op /\ \A j \in Keys \ {k} : stored'[j] = stored[j]
  <2>1. k \in Views(calls[s].op)
    BY <1>9, TypesOfCalls
  <2>2. Served(s) /\ calls'[s].view = k /\ calls'[s].status = "ok"
    BY <1>0, <1>9, <2>1, RepliedServes DEF StoreKey
  <2> QED
    BY <1>9, <2>2 DEF Served, Kept, UnderWay, StoreKey, Types
<1>10. ASSUME KeysServes(s)
       PROVE  /\ Served(s)
              /\ stored' # stored =>
                   /\ calls'[s].op \in {"create", "revoke"} /\ calls'[s].view \in Keys
                   /\ \A k \in Keys : stored[k] = "unused" /\ stored'[k] # "unused" =>
                        calls'[s].op = "create" /\ calls'[s].view = k /\ calls'[s].status = "ok"
  <2>1. CASE ServeKeys(s)
    BY <1>1, <2>1, TypesOfCalls DEF ServeKeys, Admitted, Sent, Reply, Types
  <2>2. CASE ServeCreate(s)
    BY <1>9, <2>2 DEF ServeCreate, Admitted, Sent
  <2>3. CASE ServeRevoke(s)
    <3>1. calls[s].arg \in Keys
      BY <1>0, <2>3 DEF ServeRevoke, Admitted, Sent, Fits, CallType, Args
    <3> QED
      BY <1>9, <2>3, <3>1 DEF ServeRevoke, Admitted, Sent
  <2> QED
    BY <1>10, <2>1, <2>2, <2>3 DEF KeysServes
<1> QED
  BY <1>2, <1>3, <1>4, <1>5, <1>6, <1>8, <1>10 DEF ServerStep, accountServer

\* What is done to a page takes no call from the others.
LEMMA DialogKeeps ==
  ASSUME CallsInv, DialogStep, NEW x \in Slots
  PROVE  /\ calls'[x] = None <=> calls[x] = None
         /\ calls[x] # None => Unanswered(x) /\ calls'[x].old = calls[x].old
<1>1. \/ UNCHANGED calls
      \/ \E ops : calls' = Disowned(calls, ops)
  BY DEF DialogStep, OnOverview, OnAccount, OnKeys, Select, OpenForm, CloseForm, EndDevice,
         OpenCreate, CloseCreate, CloseSecret, browser
<1>2. CASE UNCHANGED calls
  BY <1>2 DEF Unanswered, Kept
<1>3. ASSUME NEW ops, calls' = Disowned(calls, ops)
      PROVE  /\ calls'[x] = None <=> calls[x] = None
             /\ calls[x] # None => Unanswered(x) /\ calls'[x].old = calls[x].old
  <2>1. AllFit(calls, signIns, valid, row, stored)
    BY DEF CallsInv
  <2>2. LET now == Disowned(calls, ops)[x] IN
        /\ now = None <=> calls[x] = None
        /\ calls[x] # None =>
             /\ now.op = calls[x].op /\ now.arg = calls[x].arg /\ now.to = calls[x].to
             /\ now.old = calls[x].old
             /\ now.status = calls[x].status /\ now.view = calls[x].view
             /\ now.mine = (calls[x].mine /\ calls[x].op \notin ops)
    BY <2>1, DisownedCall
  <2> QED
    BY <1>3, <2>2 DEF Unanswered, Kept
<1> QED
  BY <1>1, <1>2, <1>3

LEMMA HeardKeeps ==
  ASSUME CallsInv, NEW s \in Slots,
         \/ calls' = Done(calls, s)
         \/ \E ops : calls' = Done(Disowned(calls, ops), s)
         \/ \E c : calls' = [calls EXCEPT ![s] = c]
         \/ \E ops, c : calls' = [Disowned(calls, ops) EXCEPT ![s] = c],
         NEW x \in Slots \ {s}
  PROVE  /\ calls'[x] = None <=> calls[x] = None
         /\ calls[x] # None => Unanswered(x) /\ calls'[x].old = calls[x].old
<1>1. ASSUME NEW ops
      PROVE  LET now == Disowned(calls, ops)[x] IN
        /\ now = None <=> calls[x] = None
        /\ calls[x] # None =>
             /\ now.op = calls[x].op /\ now.arg = calls[x].arg /\ now.to = calls[x].to
             /\ now.old = calls[x].old
             /\ now.status = calls[x].status /\ now.view = calls[x].view
             /\ now.mine = (calls[x].mine /\ calls[x].op \notin ops)
  BY DisownedCall DEF CallsInv
<1>2. \/ calls'[x] = calls[x]
      \/ \E ops : calls'[x] = Disowned(calls, ops)[x]
  BY DEF Done, CallsInv, AllFit, Disowned, Update
<1> QED
  BY <1>1, <1>2 DEF Unanswered, Kept

LEMMA OnAccountHeard ==
  ASSUME CallsInv, NEW s \in Slots, OnAccount(AccountHears(s)), NEW x \in Slots
  PROVE  /\ calls'[s] = None /\ calls[s] # None
         /\ x # s => /\ calls'[x] = None <=> calls[x] = None
                     /\ calls[x] # None => Unanswered(x) /\ calls'[x].old = calls[x].old
<1>1. /\ calls[s] # None
      /\ \/ calls' = Done(calls, s)
         \/ \E ops : calls' = Done(Disowned(calls, ops), s)
  BY DEF OnAccount, AccountHears, AccountAnswered, PressFailed, DeviceStarted, BrowserStarted,
         QuotaAnswered, Disconnected, FormAnswered, PasswordFailed, PollAnswered, Unheard,
         FromPage, Answered
<1>2. calls'[s] = None
  BY <1>1 DEF Done, CallsInv, AllFit, Disowned, Update
<1> QED
  BY <1>1, <1>2, HeardKeeps

LEMMA OnKeysHeard ==
  ASSUME CallsInv, NEW s \in Slots, OnKeys(KeysHears(s)), NEW x \in Slots
  PROVE  /\ calls[s] # None
         /\ calls'[s] \in {None, LoadKeys("page")}
         /\ x # s => /\ calls'[x] = None <=> calls[x] = None
                     /\ calls[x] # None => Unanswered(x) /\ calls'[x].old = calls[x].old
<1>1. /\ calls[s] # None
      /\ \/ calls' = Done(calls, s)
         \/ calls' = [calls EXCEPT ![s] = LoadKeys("page")]
         \/ calls' = [Disowned(calls, {"create"}) EXCEPT ![s] = LoadKeys("page")]
  BY DEF OnKeys, KeysHears, KeysAnswered, CreateAnswered, CreateFailed, RevokeAnswered,
         ThenLoad, Answered
<1>2. calls'[s] \in {None, LoadKeys("page")}
  BY <1>1 DEF Done, CallsInv, AllFit, Disowned, Update
<1> QED
  BY <1>1, <1>2, HeardKeeps

LEMMA HeardPlaced ==
  ASSUME CallsInv, Types, Placed(calls, session), NEW s \in Slots, HeardStep(s)
  PROVE  Placed(calls', session')
<1>0. /\ AllFit(calls, signIns, valid, row, stored)
      /\ AllFit(Done(calls, s), signIns, valid, row, stored)
      /\ Placed(Done(calls, s), session)
  BY AllFitDone, PlacedPut DEF CallsInv
<1>1. CASE SessionChecked(s)
  <2>1. Placed(Orphaned(Done(calls, s), "page"), "out")
    BY <1>0, PlacedUpdated
  <2>2. Placed([Orphaned(Orphaned(calls, "page"), "login") EXCEPT ![s] = FirstLoad(page)], "in")
    BY <1>0, MountedPlaced DEF Types
  <2> QED
    BY <1>0, <1>1, <2>1, <2>2 DEF SessionChecked, Mount, Unmount
<1>2. ASSUME SignedOut(Done(calls, s)) PROVE Placed(calls', session')
  <2>1. Placed(Orphaned(Done(calls, s), "page"), "out")
    BY <1>0, PlacedUpdated
  <2> QED
    BY <1>0, <1>2, <2>1 DEF SignedOut, Unmount, Types
<1>3. CASE UnauthorizedAnswered(s) \/ LogoutAnswered(s) \/ PasswordAnswered(s)
  BY <1>0, <1>2, <1>3 DEF UnauthorizedAnswered, LogoutAnswered, PasswordAnswered
<1>4. CASE LoginAnswered(s)
  <2>1. [Call("session", None, "app") EXCEPT !.cookie = cookie'].to = "app"
    BY DEF Call
  <2>2. Placed([calls EXCEPT ![s] = [Call("session", None, "app") EXCEPT !.cookie = cookie']], session)
    BY <1>0, <2>1, PlacedPut
  <2> QED
    BY <1>0, <1>4, <2>2 DEF LoginAnswered
<1>5. CASE OnOverview(OverviewAnswered(s))
  BY <1>0, <1>5 DEF OnOverview, OverviewAnswered, app
<1>6. CASE OnAccount(AccountHears(s))
  BY <1>6, OnAccountHeard DEF OnAccount, app, Placed, Unanswered, Kept
<1>7. CASE OnKeys(KeysHears(s))
  <2>1. LoadKeys("page").to = "page"
    BY DEF LoadKeys, Call
  <2> QED
    BY <1>7, <2>1, OnKeysHeard DEF OnKeys, Mounted, app, Placed, Unanswered, Kept
<1>8. CASE NobodyAnswered(s)
  <2>1. LoadKeys("nobody").to = "nobody"
    BY DEF LoadKeys, Call
  <2>2. Placed(ThenLoad(calls, s, "nobody"), session)
    BY <1>0, <2>1, PlacedPut DEF ThenLoad
  <2> QED
    BY <1>0, <1>8, <2>2 DEF NobodyAnswered, app
<1> QED
  BY <1>1, <1>3, <1>4, <1>5, <1>6, <1>7, <1>8 DEF HeardStep

LEMMA MountStep == CallsInv /\ Types /\ MountInv /\ [Next]_vars => MountInv'
<1>0. SUFFICES ASSUME CallsInv, Types, Placed(calls, session), Blank, [Next]_vars
               PROVE  Placed(calls', session')
  BY BlankStep DEF MountInv, Placed
<1>1. ASSUME NEW s \in Slots, UserStep(s) \/ HeardStep(s) PROVE Placed(calls', session')
  BY <1>0, <1>1, UserPlaced, HeardPlaced
<1>2. ASSUME NEW s \in Slots, ServerStep(s) PROVE Placed(calls', session')
  <2>1. Served(s) /\ UNCHANGED session
    BY <1>0, <1>2, ServerServes DEF ServerStep, app
  <2> QED
    BY <1>0, <2>1 DEF Served, Kept, UnderWay, Placed
<1>3. CASE DialogStep
  <2>1. UNCHANGED session
    BY <1>3 DEF DialogStep, OnOverview, OnAccount, OnKeys, app
  <2> QED
    BY <1>0, <1>3, <2>1, DialogKeeps DEF Placed, Unanswered, Kept
<1>4. CASE Elsewhere \/ UNCHANGED vars
  BY <1>0, <1>4 DEF Elsewhere, EndSession, browser, app, vars
<1> QED
  BY <1>0, <1>1, <1>2, <1>3, <1>4 DEF Next

-----------------------------------------------------------------------------
(* The invariant, and what nobody is signed out for. *)

LEMMA InitInv == Init => CallsInv /\ Types /\ MountInv
<1> SUFFICES ASSUME Init PROVE CallsInv /\ Types /\ MountInv
  OBVIOUS
<1>1. /\ signIns = cookie /\ cookie \in 0..MaxSignIns /\ cookie \in Nat
      /\ valid \subseteq 1..signIns /\ cookie \in 0..signIns
  BY SignInsAssumption DEF Init, CallsInit
<1>2. PICK s \in Slots : calls = [x \in Slots |-> IF x = s THEN Call("session", None, "app") ELSE None]
  BY DEF Init, CallsInit
<1>3. Fits(Call("session", None, "app"), signIns, valid, row, stored)
  <2>1. "session" \in Ops /\ None \in Args("session") /\ "app" \in Callers
    BY DEF Ops, Args, Callers
  <2> QED
    BY <1>1, <2>1, CallFits
<1>4. CallsInv
  BY <1>1, <1>2, <1>3 DEF CallsInv, AllFit
<1>5. Types
  BY InitTypes DEF Init, CallsInit, Types, Pages, KeyStates
<1>6. MountInv
  <2>1. Call("session", None, "app").to = "app"
    BY DEF Call
  <2> QED
    BY <1>2, <2>1 DEF Init, MountInv, Placed, Blank
<1> QED
  BY <1>4, <1>5, <1>6

LEMMA Invariance == Spec => [](CallsInv /\ Types /\ MountInv)
<1>1. CallsInv /\ Types /\ MountInv /\ [Next]_vars => (CallsInv /\ Types /\ MountInv)'
  BY CallsStep, TypesStep, MountStep
<1> QED
  BY <1>1, InitInv, PTL DEF Spec

\* What the console keeps is of its kind, whatever is answered and in whichever
\* order, and only what is mounted has calls of its own (App.tsx, Account.tsx,
\* Keys.tsx, Overview.tsx).
THEOREM TypeCorrect == Spec => []TypeOK
<1>1. CallsInv /\ Types /\ MountInv /\ ScrollInv => TypeOK
  <2> SUFFICES ASSUME CallsInv, Types, MountInv, ScrollInv PROVE TypeOK
    OBVIOUS
  <2>1. cookie \in 0..MaxSignIns /\ valid \subseteq 1..signIns /\ signIns \in 0..MaxSignIns
    BY SignInsAssumption DEF CallsInv
  <2>2. ASSUME NEW s \in UnderWay
        PROVE  /\ calls[s].op \in Ops /\ calls[s] \in CallType(calls[s].op)
               /\ calls[s].mine => calls[s].to # "nobody"
               /\ calls[s].to = "page" => session = "in"
               /\ calls[s].to = "login" => session = "out"
    BY DEF CallsInv, AllFit, Fits, MountInv, Placed, UnderWay
  <2> QED
    BY <2>1, <2>2 DEF Types, ScrollInv, TypeOK
<1> QED
  BY <1>1, Invariance, ScrollInvariance, PTL

\* A tab that is signed in is signed out only when the server does not accept its
\* cookie any more, or for the answer to a call that went with another cookie,
\* to a session check that failed or to a wrong password: no other answer,
\* however late, ends a session that is good (App.tsx:26-36, 55-58, api.ts:29).
THEOREM SignsOutRightly == Spec => SignedOutRightly
<1> DEFINE Rightly ==
      \/ cookie' \notin valid'
      \/ \E s \in UnderWay :
           /\ calls'[s] = None
           /\ \/ calls[s].cookie # cookie
              \/ calls[s].op = "session" /\ calls[s].status = "failed"
              \/ calls[s].op \in {"login", "password"} /\ calls[s].status = "unauthorized"
<1>1. ASSUME CallsInv, Types, Next, session = "in", session' = "out" PROVE Rightly
  <2>1. PICK s \in Slots : HeardStep(s)
    <3>1. ASSUME NEW s \in Slots, UserStep(s) PROVE session' = session
      BY <3>1 DEF UserStep, Navigate, Logout, SignIn, OnOverview, OnAccount, OnKeys, app
    <3>2. ASSUME NEW s \in Slots, ServerStep(s) PROVE session' = session
      BY <3>2 DEF ServerStep, app
    <3>3. ASSUME DialogStep \/ Elsewhere PROVE session' = session
      BY <3>3 DEF DialogStep, OnOverview, OnAccount, OnKeys, Elsewhere, app
    <3> QED
      BY <1>1, <3>1, <3>2, <3>3 DEF Next
  <2>2. calls[s] # None => Fits(calls[s], signIns, valid, row, stored)
    BY <1>1 DEF CallsInv, AllFit
  <2>3. ASSUME calls[s] # None, calls' = Orphaned(Done(calls, s), "page") PROVE calls'[s] = None
    BY <2>3, <1>1 DEF Orphaned, Update, Done, CallsInv, AllFit
  <2>4. CASE SessionChecked(s)
    BY <1>1, <2>2, <2>3, <2>4, TypesOfCalls
       DEF SessionChecked, Answered, Unmount, Ok, server, Fits, Refused, UnderWay
  <2>5. CASE UnauthorizedAnswered(s)
    BY <1>1, <2>2, <2>3, <2>5
       DEF UnauthorizedAnswered, Unauthorized, SignedOut, Unmount, server, Fits, Refused, UnderWay
  <2>6. CASE LogoutAnswered(s)
    <3>1. cookie' = 0 /\ UNCHANGED valid
      BY <1>1, <2>6 DEF LogoutAnswered, server
    <3> QED
      BY <1>1, <3>1, SignInsAssumption DEF CallsInv
  <2>7. CASE PasswordAnswered(s)
    BY <1>1, <2>2, <2>3, <2>7
       DEF PasswordAnswered, Answered, Ok, SignedOut, Unmount, server, Fits, Refused, UnderWay
  <2>8. CASE OnOverview(OverviewAnswered(s)) \/ OnAccount(AccountHears(s)) \/ OnKeys(KeysHears(s))
    BY <1>1, <2>8 DEF OnOverview, OnAccount, OnKeys, app
  <2>9. CASE LoginAnswered(s) \/ NobodyAnswered(s)
    BY <1>1, <2>9 DEF LoginAnswered, NobodyAnswered, app
  <2> QED
    BY <2>1, <2>4, <2>5, <2>6, <2>7, <2>8, <2>9 DEF HeardStep
<1>2. CallsInv /\ Types /\ [Next]_vars
        => [session = "in" /\ session' = "out" => Rightly]_vars
  BY <1>1 DEF vars
<1> QED
  BY <1>2, Invariance, PTL DEF Spec, SignedOutRightly

-----------------------------------------------------------------------------
(* What the page that is up shows. *)

\* A page comes, by a call that loads it.
Comes ==
  \E s \in Slots, p \in Pages :
    /\ Mount(calls, s, p) /\ session' = "in" /\ page' = p
    /\ calls[s] # None => calls[s].op = "session"
    /\ UNCHANGED <<row, stored>>

\* The page that was up goes, and the console is signed out.
Goes ==
  \E s \in Slots :
    /\ Unmount(Done(calls, s)) /\ session' = "out"
    /\ calls[s].op \in {"session", "logout", "password"} \/ calls[s].status = "unauthorized"
    /\ UNCHANGED <<row, stored>>

\* Nothing happens to the page that is up, if one is, and it misses what the
\* calls of earlier pages bring.
Aside ==
  /\ UNCHANGED <<session, page, pages, row, stored>>
  /\ given \subseteq given' /\ (heard.late => heard'.late) /\ (heard.missed => heard'.missed)
  /\ \A x \in UnderWay :
       \/ Unanswered(x)
       \/ calls[x].op \in {"session", "login", "logout", "password"}
       \/ calls[x].status = "unauthorized" /\ session # "in"
       \/ /\ calls[x].to = "nobody"
          /\ calls[x].view # None => heard'.missed
          /\ calls[x].op = "create" => {calls[x].view} \cap Keys \subseteq given'
  /\ \A x \in Slots : calls'[x] # None =>
       \/ calls[x] # None /\ Unanswered(x)
       \/ calls'[x].to # "page" /\ calls'[x].op # "create"

LEMMA AsideOne ==
  ASSUME CallsInv, Types, NEW s \in Slots, NEW c,
         calls' = [calls EXCEPT ![s] = c], UNCHANGED <<session, page, pages, row, stored>>,
         given \subseteq given', heard.late => heard'.late, heard.missed => heard'.missed,
         c # None => c.to # "page" /\ c.op # "create",
         calls[s] # None =>
           \/ calls[s].op \in {"session", "login", "logout", "password"}
           \/ calls[s].status = "unauthorized" /\ session # "in"
           \/ /\ calls[s].to = "nobody"
              /\ calls[s].view # None => heard'.missed
              /\ calls[s].op = "create" => {calls[s].view} \cap Keys \subseteq given'
  PROVE  Aside
<1>1. /\ calls'[s] = c
      /\ \A x \in Slots \ {s} : calls'[x] = calls[x]
  BY DEF CallsInv, AllFit
<1>2. \A x \in Slots \ {s} : calls[x] # None => Unanswered(x)
  BY <1>1 DEF Unanswered, Kept
<1> QED
  BY <1>1, <1>2 DEF Aside, UnderWay

LEMMA StepKinds ==
  ASSUME CallsInv, Types, [Next]_vars
  PROVE  \/ Comes
         \/ Goes
         \/ Aside
         \/ \E s \in Slots : ServerStep(s)
         \/ \E s \in Slots : OnOverview(OverviewUser(s)) \/ OnOverview(OverviewAnswered(s))
         \/ \E s \in Slots : OnAccount(AccountUser(s)) \/ OnAccount(AccountHears(s))
         \/ \E s \in Slots : \/ OnKeys(SubmitCreate(s)) \/ OnKeys(Revoke(s)) \/ OnKeys(KeysHears(s))
         \/ DialogStep
<1> DEFINE Kinds ==
         \/ Comes
         \/ Goes
         \/ Aside
         \/ \E s \in Slots : ServerStep(s)
         \/ \E s \in Slots : OnOverview(OverviewUser(s)) \/ OnOverview(OverviewAnswered(s))
         \/ \E s \in Slots : OnAccount(AccountUser(s)) \/ OnAccount(AccountHears(s))
         \/ \E s \in Slots : \/ OnKeys(SubmitCreate(s)) \/ OnKeys(Revoke(s)) \/ OnKeys(KeysHears(s))
         \/ DialogStep
<1>1. ASSUME NEW s \in Slots, UserStep(s) PROVE Kinds
  <2>1. ASSUME NEW p \in Pages, Navigate(s, p) PROVE Comes
    BY <2>1 DEF Navigate, Comes, accountServer
  <2>2. CASE Logout(s)
    <3>1. Call("logout", None, "app").to = "app" /\ Call("logout", None, "app").op = "logout"
      BY DEF Call
    <3> QED
      BY <2>2, <3>1, AsideOne DEF Logout, Ask, Staying, app, accountServer
  <2>3. CASE SignIn(s)
    <3>1. Call("login", None, "login").to = "login" /\ Call("login", None, "login").op = "login"
      BY DEF Call
    <3> QED
      BY <2>3, <3>1, AsideOne DEF SignIn, Ask, Staying, accountServer
  <2> QED
    BY <1>1, <2>1, <2>2, <2>3 DEF UserStep
<1>2. ASSUME NEW s \in Slots, HeardStep(s) PROVE Kinds
  <2>1. ASSUME SignedOut(Done(calls, s)), UNCHANGED <<page, row, stored>>, calls[s] # None,
               calls[s].op \in {"session", "logout", "password"} \/ calls[s].status = "unauthorized"
        PROVE  Goes \/ Aside
    <3>1. CASE session = "in"
      BY <2>1, <3>1 DEF SignedOut, Goes
    <3>2. CASE session # "in"
      BY <2>1, <3>2, AsideOne DEF SignedOut, Staying, Done, Types
    <3> QED
      BY <3>1, <3>2
  <2>2. CASE SessionChecked(s)
    <3>1. CASE session' = session
      BY <2>2, <3>1, AsideOne DEF SessionChecked, Answered, Staying, Done, accountServer
    <3>2. CASE session' # session /\ session' = "in"
      BY <2>2, <3>2 DEF SessionChecked, Answered, Comes, Types, accountServer
    <3>3. CASE session' # session /\ session' = "out"
      BY <2>2, <3>3 DEF SessionChecked, Answered, Goes, accountServer
    <3> QED
      BY <2>2, <3>1, <3>2, <3>3 DEF SessionChecked
  <2>3. CASE UnauthorizedAnswered(s)
    BY <2>1, <2>3 DEF UnauthorizedAnswered, Unauthorized, accountServer
  <2>4. CASE LogoutAnswered(s)
    <3>1. CASE Ok(s)
      BY <2>1, <2>4, <3>1 DEF LogoutAnswered, Answered, accountServer
    <3>2. CASE ~Ok(s)
      BY <2>4, <3>2, AsideOne DEF LogoutAnswered, Answered, Staying, Done, accountServer
    <3> QED
      BY <3>1, <3>2
  <2>5. CASE PasswordAnswered(s)
    BY <2>1, <2>5 DEF PasswordAnswered, Answered, accountServer
  <2>6. CASE LoginAnswered(s)
    <3>1. /\ [Call("session", None, "app") EXCEPT !.cookie = cookie'].to = "app"
          /\ [Call("session", None, "app") EXCEPT !.cookie = cookie'].op = "session"
      BY DEF Call
    <3> QED
      BY <2>6, <3>1, AsideOne DEF LoginAnswered, Answered, Staying, Done, accountServer
  <2>7. CASE NobodyAnswered(s)
    <3>1. LoadKeys("nobody").to = "nobody" /\ LoadKeys("nobody").op = "keys"
      BY DEF LoadKeys, Call
    <3>2. /\ heard.late => heard'.late
          /\ heard.missed => heard'.missed
          /\ calls[s].view # None => heard'.missed
      <4> DEFINE missed == heard.missed \/ calls[s].view # None
      <4>1. heard' = [heard EXCEPT !.missed = missed]
        BY <2>7 DEF NobodyAnswered, Miss
      <4> QED
        BY <4>1 DEF Types
    <3>3. calls[s].op = "create" => {calls[s].view} \cap Keys \subseteq given'
      BY <2>7 DEF NobodyAnswered, NeverShown
    <3>4. \E c : calls' = [calls EXCEPT ![s] = c] /\ (c # None => c.to # "page" /\ c.op # "create")
      BY <2>7, <3>1 DEF NobodyAnswered, ThenLoad, Done
    <3> QED
      BY <2>7, <3>2, <3>3, <3>4, AsideOne DEF NobodyAnswered, app, accountServer
  <2> QED
    BY <1>2, <2>2, <2>3, <2>4, <2>5, <2>6, <2>7 DEF HeardStep
<1>3. CASE Elsewhere \/ UNCHANGED vars
  <2>1. UNCHANGED <<calls, session, page, pages, row, stored, given, heard>>
    BY <1>3 DEF Elsewhere, EndSession, browser, app, accountServer, vars
  <2>2. \A x \in Slots : calls[x] # None => Unanswered(x)
    BY <2>1 DEF Unanswered, Kept
  <2>3. Aside
    BY <2>1, <2>2 DEF Aside, UnderWay
  <2> QED
    BY <2>3
<1> QED
  BY <1>1, <1>2, <1>3 DEF Next

LEMMA ComesCalls ==
  ASSUME CallsInv, NEW s \in Slots, NEW p \in Pages, Mount(calls, s, p)
  PROVE  /\ calls'[s] = FirstLoad(p) /\ calls'[s] # None
         /\ \A x \in Slots \ {s} :
              /\ calls'[x] = None <=> calls[x] = None
              /\ calls[x] # None =>
                   /\ calls'[x].to \notin {"page", "login"}
                   /\ calls'[x].op = calls[x].op
                   /\ calls'[x].mine => calls[x].mine /\ calls[x].to # "page"
                   /\ calls'[x].status = calls[x].status /\ calls'[x].view = calls[x].view
<1> DEFINE cs == Orphaned(calls, "page")
           ds == Orphaned(cs, "login")
<1>1. AllFit(calls, signIns, valid, row, stored) /\ AllFit(cs, signIns, valid, row, stored)
  BY AllFitUpdated DEF CallsInv
<1>2. AllFit(ds, signIns, valid, row, stored)
  BY <1>1, AllFitUpdated
<1>3. \A x \in Slots :
        /\ cs[x] = None <=> calls[x] = None
        /\ calls[x] # None =>
             /\ cs[x].op = calls[x].op
             /\ cs[x].status = calls[x].status /\ cs[x].view = calls[x].view
             /\ cs[x].to = (IF calls[x].to = "page" THEN "nobody" ELSE calls[x].to)
             /\ cs[x].mine = (calls[x].mine /\ calls[x].to # "page")
  BY <1>1, OrphanedCall
<1>4. \A x \in Slots :
        /\ ds[x] = None <=> cs[x] = None
        /\ cs[x] # None =>
             /\ ds[x].op = cs[x].op
             /\ ds[x].status = cs[x].status /\ ds[x].view = cs[x].view
             /\ ds[x].to = (IF cs[x].to = "login" THEN "nobody" ELSE cs[x].to)
             /\ ds[x].mine = (cs[x].mine /\ cs[x].to # "login")
  BY <1>1, OrphanedCall
<1>5. calls' = [ds EXCEPT ![s] = FirstLoad(p)]
  BY DEF Mount
<1> HIDE DEF cs, ds
<1>6. /\ calls'[s] = FirstLoad(p)
      /\ \A x \in Slots \ {s} : calls'[x] = ds[x]
  BY <1>2, <1>5 DEF AllFit
<1>7. FirstLoad(p) # None
  BY FirstLoadFits, FitsSome
<1>8. ASSUME NEW x \in Slots \ {s}
      PROVE  /\ calls'[x] = None <=> calls[x] = None
             /\ calls[x] # None =>
                  /\ calls'[x].to \notin {"page", "login"}
                  /\ calls'[x].op = calls[x].op
                  /\ calls'[x].mine => calls[x].mine /\ calls[x].to # "page"
                  /\ calls'[x].status = calls[x].status /\ calls'[x].view = calls[x].view
  <2>1. calls'[x] = None <=> calls[x] = None
    BY <1>3, <1>4, <1>6
  <2>2. CASE calls[x] # None
    <3>1. calls'[x].op = calls[x].op /\ calls'[x].status = calls[x].status /\ calls'[x].view = calls[x].view
      BY <1>3, <1>4, <1>6, <2>2
    <3>2. calls'[x].to \notin {"page", "login"}
      BY <1>3, <1>4, <1>6, <2>2
    <3>3. calls'[x].mine => cs[x].mine
      BY <1>3, <1>4, <1>6, <2>2
    <3>4. cs[x].mine => calls[x].mine /\ calls[x].to # "page"
      BY <1>3, <2>2
    <3> QED
      BY <2>1, <3>1, <3>2, <3>3, <3>4
  <2> QED
    BY <2>1, <2>2
<1> QED
  BY <1>6, <1>7, <1>8

LEMMA GoesCalls ==
  ASSUME CallsInv, NEW s \in Slots, Unmount(Done(calls, s))
  PROVE  /\ calls'[s] = None
         /\ \A x \in Slots \ {s} :
              /\ calls'[x] = None <=> calls[x] = None
              /\ calls[x] # None =>
                   /\ calls'[x].op = calls[x].op
                   /\ calls'[x].mine => calls[x].mine /\ calls[x].to # "page"
                   /\ calls'[x].status = calls[x].status /\ calls'[x].view = calls[x].view
<1> DEFINE cs == Done(calls, s)
<1>1. AllFit(cs, signIns, valid, row, stored)
  BY AllFitDone DEF CallsInv
<1>2. cs[s] = None /\ \A x \in Slots \ {s} : cs[x] = calls[x]
  BY DEF Done, CallsInv, AllFit
<1> HIDE DEF cs
<1>3. \A x \in Slots :
        LET now == Orphaned(cs, "page")[x] IN
        /\ now = None <=> cs[x] = None
        /\ cs[x] # None =>
             /\ now.op = cs[x].op
             /\ now.status = cs[x].status /\ now.view = cs[x].view
             /\ now.mine = (cs[x].mine /\ cs[x].to # "page")
  BY <1>1, OrphanedCall
<1>4. calls' = Orphaned(cs, "page")
  BY DEF Unmount, cs
<1> QED
  BY <1>2, <1>3, <1>4

LEMMA FirstLoads ==
  /\ FirstLoad("overview") = Call("overview", Today, "page")
  /\ FirstLoad("account") = Call("account", None, "page")
  /\ FirstLoad("keys") = Call("keys", None, "page")
  /\ \A op, arg, to : /\ Call(op, arg, to).op = op /\ Call(op, arg, to).to = to
                      /\ Call(op, arg, to).arg = arg
BY DEF FirstLoad, LoadAccount, LoadKeys, Call

\* Steps that leave the overview alone, or start it anew.
LEMMA DayElsewhere ==
  ASSUME CallsInv, Types, DayInv,
         \/ Comes
         \/ Goes
         \/ Aside
         \/ \E s \in Slots : ServerStep(s)
         \/ Mounted("account") /\ UNCHANGED <<app, overview>>
         \/ Mounted("keys") /\ UNCHANGED <<app, overview>>
  PROVE  DayInv'
<1>1. CASE Comes
  <2>1. PICK s \in Slots, p \in Pages : Mount(calls, s, p) /\ session' = "in" /\ page' = p
    BY <1>1 DEF Comes
  <2>2. overview' = OverviewInit
    BY <2>1 DEF Mount, NewPages
  <2>3. CASE p = "overview"
    BY <2>1, <2>2, <2>3, ComesCalls, FirstLoads DEF DayInv, UnderWay, OverviewInit
  <2>4. CASE p # "overview"
    BY <2>1, <2>2, <2>4 DEF DayInv, Mounted, OverviewInit
  <2> QED
    BY <2>3, <2>4
<1>2. CASE Goes
  BY <1>2 DEF Goes, Unmount, NewPages, DayInv, Mounted, OverviewInit
<1>3. CASE Aside
  BY <1>3 DEF Aside, DayInv, Mounted, UnderWay, Unanswered, Kept, pages
<1>4. ASSUME NEW s \in Slots, ServerStep(s) PROVE DayInv'
  <2>1. Served(s) /\ UNCHANGED <<app, pages, heard>>
    BY <1>4, ServerServes, ServerAlone
  <2> QED
    BY <2>1 DEF DayInv, Served, Kept, UnderWay, Mounted, app, pages
<1>5. CASE Mounted("account") /\ UNCHANGED <<app, overview>>
  BY <1>5 DEF DayInv, Mounted, app
<1>6. CASE Mounted("keys") /\ UNCHANGED <<app, overview>>
  BY <1>6 DEF DayInv, Mounted, app
<1> QED
  BY <1>1, <1>2, <1>3, <1>4, <1>5, <1>6

\* A load puts the earlier ones out of date.
LEMMA DayLoads ==
  ASSUME CallsInv, Types, DayInv, NEW s \in Slots, OnOverview(OverviewUser(s))
  PROVE  DayInv'
<1> DEFINE cs == Outdated(calls, {"overview"}, Statuses)
<1>1. PICK date \in Days :
        /\ calls[s] = None /\ calls' = [cs EXCEPT ![s] = OverviewCall(date)]
        /\ overview'.date = date /\ overview'.data = overview.data
        /\ overview'.selected = overview.selected
  BY DEF OnOverview, OverviewUser, PickDate, Refresh, LoadOverview, Types, OverviewType
<1>2. \A x \in Slots : cs[x] # None => (cs[x].op = "overview" => cs[x].old)
  <2>1. AllFit(calls, signIns, valid, row, stored)
    BY DEF CallsInv
  <2>2. \A x \in Slots : calls[x] # None => calls[x].status \in Statuses
    BY <2>1 DEF AllFit, Fits, CallType
  <2> QED
    BY <2>1, <2>2, OutdatedCall
<1>3. AllFit(cs, signIns, valid, row, stored)
  BY AllFitUpdated DEF CallsInv
<1> HIDE DEF cs
<1>4. /\ calls'[s] = OverviewCall(date)
      /\ \A x \in Slots \ {s} : calls'[x] = cs[x]
  BY <1>1, <1>3 DEF AllFit
<1>5. OverviewCall(date) # None
  <2>1. "overview" \in Ops /\ date \in Args("overview") /\ "page" \in Callers
    BY DEF Ops, Args, Callers
  <2> QED
    BY <2>1, CallMade, FitsSome DEF OverviewCall
<1>6. OverviewCall(date).op = "overview" /\ OverviewCall(date).to = "page" /\ OverviewCall(date).arg = date
  BY FirstLoads DEF OverviewCall
<1> QED
  BY <1>1, <1>2, <1>4, <1>5, <1>6 DEF DayInv, UnderWay, OnOverview, Mounted, app

\* An answer that is not out of date is the picked day's.
LEMMA DayHeard ==
  ASSUME CallsInv, Types, DayInv, NEW s \in Slots, OnOverview(OverviewAnswered(s))
  PROVE  DayInv'
<1>1. /\ Mounted("overview") /\ UNCHANGED <<session, page>>
      /\ s \in UnderWay /\ calls[s].op = "overview" /\ calls[s].to = "page"
  BY DEF OnOverview, OverviewAnswered, Answered, app, UnderWay
<1>2. calls'[s] = None /\ \A x \in Slots \ {s} : calls'[x] = calls[x]
  BY DEF OnOverview, OverviewAnswered, Done, CallsInv, AllFit
<1>3. CASE Ok(s)
  <2>1. calls[s].view = calls[s].arg /\ (~calls[s].old => calls[s].arg = overview.date)
    BY <1>1, <1>3, AnswerTyped DEF DayInv, UnderWay
  <2>2. PICK entry \in Found(overview.selected, calls[s].view) :
          overview' = [overview EXCEPT !.data = calls[s].view, !.selected = entry, !.loading = FALSE]
    BY <1>3 DEF OnOverview, OverviewAnswered
  <2>3. /\ overview'.data = calls[s].view /\ overview'.date = overview.date
        /\ overview'.selected \in {calls[s].view, None}
    BY <2>2 DEF Types, OverviewType, Found
  <2>4. calls[s].old => heard'.late
    BY <1>3 DEF OnOverview, OverviewAnswered, Learn, Types
  <2> QED
    BY <1>1, <1>2, <2>1, <2>3, <2>4 DEF DayInv, UnderWay
<1>4. CASE ~Ok(s)
  <2>1. /\ overview'.data = overview.data /\ overview'.date = overview.date
        /\ overview'.selected = overview.selected /\ heard'.missed
    BY <1>4 DEF OnOverview, OverviewAnswered, Types, OverviewType
  <2> QED
    BY <1>1, <1>2, <2>1 DEF DayInv, UnderWay
<1> QED
  BY <1>3, <1>4

LEMMA DayStep == CallsInv /\ Types /\ DayInv /\ [Next]_vars => DayInv'
<1>0. SUFFICES ASSUME CallsInv, Types, DayInv, [Next]_vars PROVE DayInv'
  OBVIOUS
<1>1. ASSUME Mounted("account") \/ Mounted("keys"), UNCHANGED <<app, overview>> PROVE DayInv'
  BY <1>0, <1>1, DayElsewhere
<1>2. CASE DialogStep
  <2>1. CASE OnOverview(Select)
    <3>1. /\ UNCHANGED <<session, page, calls, heard>>
          /\ overview'.data = overview.data /\ overview'.date = overview.date
          /\ overview'.selected = overview.data
      BY <1>0, <2>1 DEF OnOverview, Select, Types, OverviewType, app, browser
    <3> QED
      BY <1>0, <3>1 DEF DayInv, UnderWay, Mounted
  <2> QED
    BY <1>1, <1>2, <2>1 DEF DialogStep, OnAccount, OnKeys
<1>3. CASE Comes \/ Goes \/ Aside \/ \E s \in Slots : ServerStep(s)
  BY <1>0, <1>3, DayElsewhere
<1>4. ASSUME NEW s \in Slots, OnOverview(OverviewUser(s)) \/ OnOverview(OverviewAnswered(s))
      PROVE  DayInv'
  BY <1>0, <1>4, DayLoads, DayHeard
<1>5. ASSUME NEW s \in Slots,
             \/ OnAccount(AccountUser(s)) \/ OnAccount(AccountHears(s))
             \/ OnKeys(SubmitCreate(s)) \/ OnKeys(Revoke(s)) \/ OnKeys(KeysHears(s))
      PROVE  DayInv'
  BY <1>1, <1>5 DEF OnAccount, OnKeys
<1> QED
  BY <1>0, <1>2, <1>3, <1>4, <1>5, StepKinds

\* The same for the account.
LEMMA AccountElsewhere ==
  ASSUME CallsInv, Types, AccountInv,
         \/ Comes
         \/ Goes
         \/ Aside
         \/ \E s \in Slots : ServerStep(s)
         \/ Mounted("overview") /\ UNCHANGED app
         \/ Mounted("keys") /\ UNCHANGED app
  PROVE  AccountInv'
<1>1. CASE Comes
  <2>1. PICK s \in Slots, p \in Pages : Mount(calls, s, p) /\ session' = "in" /\ page' = p
    BY <1>1 DEF Comes
  <2>2. CASE p = "account"
    BY <2>1, <2>2, ComesCalls, FirstLoads DEF AccountInv, UnderWay
  <2>3. CASE p # "account"
    BY <2>1, <2>3 DEF AccountInv, Mounted
  <2> QED
    BY <2>2, <2>3
<1>2. CASE Goes
  BY <1>2 DEF Goes, AccountInv, Mounted
<1>3. CASE Aside
  <2>1. SUFFICES ASSUME Mounted("account") PROVE AccountInv'
    BY <1>3 DEF Aside, AccountInv, Mounted
  <2>2. ASSUME NEW x \in UnderWay,
               \/ calls[x].op = "account" /\ calls[x].to = "page"
               \/ calls[x].op \in Changing /\ calls[x].view # None
        PROVE  Unanswered(x) \/ heard'.missed
    BY <1>3, <2>1, <2>2 DEF Aside, Mounted, Changing
  <2> QED
    BY <1>3, <2>1, <2>2 DEF Aside, AccountInv, UnderWay, Unanswered, Kept, pages
<1>4. ASSUME NEW s \in Slots, ServerStep(s) PROVE AccountInv'
  <2>1. Served(s) /\ UNCHANGED <<app, pages, heard>>
    BY <1>4, ServerServes, ServerAlone
  <2>2. CASE row' # row
    <3>1. calls'[s].op \in Changing /\ calls'[s].view # None
      BY <1>4, <2>2, ServerServes, NoneAssumption
    <3>2. calls'[s] # None
      BY <2>1 DEF Served, Kept, UnderWay
    <3> QED
      BY <3>1, <3>2 DEF AccountInv, UnderWay
  <2>3. CASE row' = row
    <3>1. calls[s].status = "sent" => calls[s].view = None
      BY <2>1 DEF Served, CallsInv, AllFit, Fits
    <3>2. ASSUME NEW x \in UnderWay PROVE Kept(x) /\ (calls[x].view # None => calls'[x].view = calls[x].view)
      BY <2>1, <3>1 DEF Served, Unanswered
    <3> QED
      BY <2>1, <2>3, <3>2 DEF AccountInv, Kept, UnderWay, Mounted, app, pages
  <2> QED
    BY <2>2, <2>3
<1>5. CASE (Mounted("overview") \/ Mounted("keys")) /\ UNCHANGED app
  BY <1>5 DEF AccountInv, Mounted, app
<1> QED
  BY <1>1, <1>2, <1>3, <1>4, <1>5

\* Steps of the page that show no other account, and lose no answer that matters.
LEMMA AccountStays ==
  ASSUME AccountInv, Mounted("account"), UNCHANGED <<app, row>>,
         account'.of = account.of, account'.quota = account.quota,
         heard.late => heard'.late, heard.missed => heard'.missed,
         \A x \in UnderWay :
           \/ Unanswered(x)
           \/ calls[x].op \notin {"account"} \cup Changing
           \/ calls[x].op \in Changing /\ calls[x].view = None
           \/ heard'.missed
  PROVE  AccountInv'
BY DEF AccountInv, UnderWay, Unanswered, Kept, Changing, Mounted, app

\* The page is given an account: the server's, unless the answer is out of date.
LEMMA AccountLearnt ==
  ASSUME CallsInv, Types, NEW s \in Slots, calls[s] # None, Ok(s), Learn(s), UNCHANGED row,
         calls[s].op \in Telling, calls[s].view # None,
         account'.of = calls[s].view, account'.quota = calls[s].view
  PROVE  AccountInv'
<1>1. ~calls[s].old => calls[s].view = row
  BY DEF CallsInv, AllFit, Fits, Ok
<1>2. calls[s].old => heard'.late
  BY DEF Learn, Types
<1> QED
  BY <1>1, <1>2 DEF AccountInv

LEMMA AccountUses ==
  ASSUME CallsInv, Types, AccountInv, NEW s \in Slots, OnAccount(AccountUser(s))
  PROVE  AccountInv'
<1>1. account'.of = account.of /\ account'.quota = account.quota
  BY DEF OnAccount, AccountUser, Press, Submit, Poll, FormOf, Types, AccountType
<1>2. calls[s] = None /\ \A x \in Slots \ {s} : calls'[x] = calls[x]
  BY DEF OnAccount, AccountUser, Press, Submit, Poll, Ask, CallsInv, AllFit
<1>3. UNCHANGED heard
  BY DEF OnAccount, AccountUser, Press, Submit, Poll
<1> QED
  BY <1>1, <1>2, <1>3, AccountStays DEF OnAccount, Unanswered, Kept, UnderWay, accountServer

LEMMA AccountDialog ==
  ASSUME CallsInv, Types, AccountInv, DialogStep, Mounted("account")
  PROVE  AccountInv'
<1>1. /\ account'.of = account.of /\ account'.quota = account.quota
      /\ UNCHANGED <<heard, app, row>>
  BY DEF DialogStep, OnAccount, OnOverview, OnKeys, Mounted, OpenForm, CloseForm, EndDevice, StopPolling, Forms,
         Types, AccountType, browser, accountServer
<1> QED
  BY <1>1, DialogKeeps, AccountStays DEF UnderWay

LEMMA AccountHeard ==
  ASSUME CallsInv, Types, AccountInv, NEW s \in Slots, OnAccount(AccountHears(s))
  PROVE  AccountInv'
<1>0. /\ Mounted("account") /\ UNCHANGED <<app, row>> /\ s \in UnderWay
      /\ \A x \in UnderWay \ {s} : Unanswered(x)
  BY OnAccountHeard DEF OnAccount, accountServer, UnderWay
<1>1. /\ calls[s].op \in Telling \ {"poll"} /\ Ok(s) => calls[s].view # None
      /\ {"account", "quota", "poll", "callback", "import", "disconnect"} = Telling
  BY <1>0, AnswerTyped, NoneAssumption DEF UnderWay, Telling
<1>2. ASSUME account'.of = account.of, account'.quota = account.quota,
             heard.late => heard'.late, heard.missed => heard'.missed,
             \/ calls[s].op \notin {"account"} \cup Changing
             \/ calls[s].op \in Changing /\ calls[s].view = None
             \/ heard'.missed
      PROVE  AccountInv'
  BY <1>0, <1>2, AccountStays
<1>3. ASSUME Miss(s)
      PROVE  /\ heard.late => heard'.late
             /\ heard.missed => heard'.missed
             /\ calls[s].view # None => heard'.missed
  <2> DEFINE missed == heard.missed \/ calls[s].view # None
  <2>1. heard' = [heard EXCEPT !.missed = missed]
    BY <1>3 DEF Miss
  <2> QED
    BY <2>1 DEF Types
<1>4. CASE AccountAnswered(s)
  <2>1. CASE Ok(s)
    <3>1. account'.of = calls[s].view /\ account'.quota = calls[s].view
      BY <1>4, <2>1 DEF AccountAnswered, SetAccount, Types, AccountType
    <3> QED
      BY <1>0, <1>1, <1>4, <2>1, <3>1, AccountLearnt DEF AccountAnswered, FromPage, Answered, UnderWay
  <2>2. CASE ~Ok(s)
    <3>1. heard'.missed
      BY <1>4, <2>2 DEF AccountAnswered, Types
    <3> QED
      BY <3>1 DEF AccountInv
  <2> QED
    BY <2>1, <2>2
<1>5. CASE PressFailed(s)
  <2>1. account'.of = account.of /\ account'.quota = account.quota
    BY <1>5 DEF PressFailed, Idle, Types, AccountType
  <2>2. calls[s].op # "account" /\ Miss(s)
    BY <1>5 DEF PressFailed, FromPage, Answered, Buttons, Unheard
  <2> QED
    BY <1>2, <1>3, <2>1, <2>2
<1>6. CASE DeviceStarted(s) \/ BrowserStarted(s)
  <2>1. account'.of = account.of /\ account'.quota = account.quota
    BY <1>6 DEF DeviceStarted, BrowserStarted, StopPolling, Idle, Types, AccountType
  <2>2. calls[s].op \in {"device", "browser"} /\ UNCHANGED heard
    BY <1>6 DEF DeviceStarted, BrowserStarted, FromPage, Answered
  <2> QED
    BY <1>2, <2>1, <2>2 DEF Changing
<1>7. CASE QuotaAnswered(s)
  <2>1. /\ account'.of = account.of
        /\ account'.quota = IF account.of = None THEN account.quota ELSE calls[s].view
    BY <1>7 DEF QuotaAnswered, Idle, Types, AccountType
  <2>2. calls[s].op = "quota" /\ Ok(s)
    BY <1>7 DEF QuotaAnswered, FromPage, Answered
  <2>3. /\ heard.late => heard'.late
        /\ calls[s].old => heard'.late
        /\ heard.missed => heard'.missed
    <3> DEFINE late == heard.late \/ calls[s].old
    <3>1. heard' = [heard EXCEPT !.late = late]
      BY <1>7 DEF QuotaAnswered
    <3> QED
      BY <3>1 DEF Types
  <2>4. ~calls[s].old => calls[s].view = row
    BY <1>0, <1>1, <2>2 DEF CallsInv, AllFit, Fits, Ok, UnderWay
  <2>5. row # None
    BY NoneAssumption DEF Types
  <2> QED
    BY <1>0, <2>1, <2>2, <2>3, <2>4, <2>5 DEF AccountInv, Changing, Unanswered, Kept, UnderWay
<1>8. CASE Disconnected(s)
  <2>1. account'.of = calls[s].view /\ account'.quota = calls[s].view
    BY <1>8 DEF Disconnected, SetAccount, Idle, Types, AccountType
  <2> QED
    BY <1>0, <1>1, <1>8, <2>1, AccountLearnt DEF Disconnected, FromPage, Answered, UnderWay
<1>9. CASE FormAnswered(s)
  <2>1. PICK op \in {"callback", "import"} :
          /\ calls[s].op = op /\ FormOf[op] \in {"browser", "import"}
          /\ IF Ok(s)
             THEN /\ account' = [SetAccount(account, calls[s].view) EXCEPT ![FormOf[op]] = "closed"]
                  /\ Learn(s)
             ELSE /\ account' = [account EXCEPT ![FormOf[op]] = IF calls[s].mine THEN "open" ELSE @]
                  /\ Miss(s)
    BY <1>9 DEF FormAnswered, FromPage, Answered, FormOf, Unheard
  <2>2. CASE Ok(s)
    <3>1. account'.of = calls[s].view /\ account'.quota = calls[s].view
      BY <2>1, <2>2 DEF SetAccount, Types, AccountType
    <3> QED
      BY <1>0, <1>1, <2>1, <2>2, <3>1, AccountLearnt DEF UnderWay
  <2>3. CASE ~Ok(s)
    <3>1. account'.of = account.of /\ account'.quota = account.quota
      BY <2>1, <2>3 DEF Types, AccountType
    <3> QED
      BY <1>2, <1>3, <2>1, <2>3, <3>1 DEF Changing
  <2> QED
    BY <2>2, <2>3
<1>10. CASE PasswordFailed(s)
  <2>1. account'.of = account.of /\ account'.quota = account.quota
    BY <1>10 DEF PasswordFailed, Types, AccountType
  <2>2. calls[s].op = "password" /\ UNCHANGED heard
    BY <1>10 DEF PasswordFailed, FromPage, Answered
  <2> QED
    BY <1>2, <2>1, <2>2 DEF Changing
<1>11. CASE PollAnswered(s)
  <2>0. calls[s].op = "poll"
    BY <1>11 DEF PollAnswered, FromPage, Answered
  <2>1. CASE /\ Ok(s) /\ calls[s].view # None /\ Learn(s)
             /\ account' = SetAccount(StopPolling(account), calls[s].view)
    <3>1. account'.of = calls[s].view /\ account'.quota = calls[s].view
      BY <2>1 DEF SetAccount, StopPolling, Types, AccountType
    <3> QED
      BY <1>0, <1>1, <2>0, <2>1, <3>1, AccountLearnt DEF UnderWay
  <2>2. CASE calls[s].view = None /\ UNCHANGED heard /\ account' = [account EXCEPT !.failures = 0]
    <3>1. account'.of = account.of /\ account'.quota = account.quota
      BY <2>2 DEF Types, AccountType
    <3> QED
      BY <1>2, <2>0, <2>2, <3>1 DEF Changing
  <2>3. CASE Miss(s) /\ (account' = account \/ account' = StopPolling(account)
                            \/ \E n : account' = [account EXCEPT !.failures = n])
    <3>1. account'.of = account.of /\ account'.quota = account.quota
      BY <2>3 DEF StopPolling, Types, AccountType
    <3> QED
      BY <1>2, <1>3, <2>0, <2>3, <3>1 DEF Changing
  <2> QED
    BY <1>11, <2>1, <2>2, <2>3 DEF PollAnswered, Unheard
<1> QED
  BY <1>4, <1>5, <1>6, <1>7, <1>8, <1>9, <1>10, <1>11 DEF OnAccount, AccountHears

LEMMA AccountStep == CallsInv /\ Types /\ AccountInv /\ [Next]_vars => AccountInv'
<1>0. SUFFICES ASSUME CallsInv, Types, AccountInv, [Next]_vars PROVE AccountInv'
  OBVIOUS
<1>1. ASSUME Mounted("overview") \/ Mounted("keys"), UNCHANGED app PROVE AccountInv'
  BY <1>0, <1>1, AccountElsewhere
<1>2. CASE DialogStep
  BY <1>0, <1>1, <1>2, AccountDialog DEF DialogStep, OnOverview, OnKeys, OnAccount
<1>3. CASE Comes \/ Goes \/ Aside \/ \E s \in Slots : ServerStep(s)
  BY <1>0, <1>3, AccountElsewhere
<1>4. ASSUME NEW s \in Slots, OnAccount(AccountUser(s)) \/ OnAccount(AccountHears(s))
      PROVE  AccountInv'
  BY <1>0, <1>4, AccountUses, AccountHeard
<1>5. ASSUME NEW s \in Slots,
             \/ OnOverview(OverviewUser(s)) \/ OnOverview(OverviewAnswered(s))
             \/ OnKeys(SubmitCreate(s)) \/ OnKeys(Revoke(s)) \/ OnKeys(KeysHears(s))
      PROVE  AccountInv'
  BY <1>1, <1>5 DEF OnOverview, OnKeys
<1> QED
  BY <1>0, <1>2, <1>3, <1>4, <1>5, StepKinds

\* The same for the list of keys.
LEMMA KeysElsewhere ==
  ASSUME CallsInv, Types, KeysInv,
         \/ Comes
         \/ Goes
         \/ Aside
         \/ \E s \in Slots : ServerStep(s)
         \/ Mounted("overview") /\ UNCHANGED app
         \/ Mounted("account") /\ UNCHANGED app
  PROVE  KeysInv'
<1>1. CASE Comes
  <2>1. PICK s \in Slots, p \in Pages : Mount(calls, s, p) /\ session' = "in" /\ page' = p
    BY <1>1 DEF Comes
  <2>2. CASE p = "keys"
    BY <2>1, <2>2, ComesCalls, FirstLoads DEF KeysInv, UnderWay
  <2>3. CASE p # "keys"
    BY <2>1, <2>3 DEF KeysInv, Mounted
  <2> QED
    BY <2>2, <2>3
<1>2. CASE Goes
  BY <1>2 DEF Goes, KeysInv, Mounted
<1>3. CASE Aside
  <2>1. SUFFICES ASSUME Mounted("keys") PROVE KeysInv'
    BY <1>3 DEF Aside, KeysInv, Mounted
  <2>2. ASSUME NEW x \in UnderWay,
               \/ calls[x].op = "keys" /\ calls[x].to = "page"
               \/ calls[x].op \in {"create", "revoke"} /\ calls[x].view # None
        PROVE  Unanswered(x) \/ heard'.missed
    BY <1>3, <2>1, <2>2 DEF Aside, Mounted
  <2> QED
    BY <1>3, <2>1, <2>2 DEF Aside, KeysInv, UnderWay, Unanswered, Kept, pages
<1>4. ASSUME NEW s \in Slots, ServerStep(s) PROVE KeysInv'
  <2>1. Served(s) /\ UNCHANGED <<app, pages, heard>>
    BY <1>4, ServerServes, ServerAlone
  <2>2. CASE stored' # stored
    <3>1. calls'[s].op \in {"create", "revoke"} /\ calls'[s].view # None
      BY <1>4, <2>2, ServerServes, NoneAssumption
    <3>2. calls'[s] # None
      BY <2>1 DEF Served, Kept, UnderWay
    <3> QED
      BY <3>1, <3>2 DEF KeysInv, UnderWay
  <2>3. CASE stored' = stored
    <3>1. calls[s].status = "sent" => calls[s].view = None
      BY <2>1 DEF Served, CallsInv, AllFit, Fits
    <3>2. ASSUME NEW x \in UnderWay PROVE Kept(x) /\ (calls[x].view # None => calls'[x].view = calls[x].view)
      BY <2>1, <3>1 DEF Served, Unanswered
    <3> QED
      BY <2>1, <2>3, <3>2 DEF KeysInv, Kept, UnderWay, Mounted, app, pages
  <2> QED
    BY <2>2, <2>3
<1>5. CASE (Mounted("overview") \/ Mounted("account")) /\ UNCHANGED app
  BY <1>5 DEF KeysInv, Mounted, app
<1> QED
  BY <1>1, <1>2, <1>3, <1>4, <1>5

LEMMA KeysUses ==
  ASSUME CallsInv, Types, KeysInv, Mounted("keys"),
         DialogStep \/ \E s \in Slots : OnKeys(SubmitCreate(s)) \/ OnKeys(Revoke(s))
  PROVE  KeysInv'
<1>1. keyPage'.shown = keyPage.shown /\ UNCHANGED <<heard, app, stored>>
  BY DEF DialogStep, OnOverview, OnAccount, OnKeys, Mounted, OpenCreate, CloseCreate, CloseSecret,
         SubmitCreate, Revoke, Types, KeysType
<1>2. \A x \in UnderWay : Unanswered(x)
  <2>1. CASE DialogStep
    BY <2>1, DialogKeeps DEF UnderWay
  <2>2. ASSUME NEW s \in Slots, OnKeys(SubmitCreate(s)) \/ OnKeys(Revoke(s))
        PROVE  \A x \in UnderWay : Unanswered(x)
    BY <2>2 DEF OnKeys, SubmitCreate, Revoke, Ask, CallsInv, AllFit, UnderWay, Unanswered, Kept
  <2> QED
    BY <2>1, <2>2
<1> QED
  BY <1>1, <1>2 DEF KeysInv, UnderWay, Unanswered, Kept, Mounted, app

LEMMA KeysHeard ==
  ASSUME CallsInv, Types, KeysInv, NEW s \in Slots, OnKeys(KeysHears(s))
  PROVE  KeysInv'
<1>0. /\ Mounted("keys") /\ UNCHANGED <<app, stored>> /\ s \in UnderWay
      /\ \A x \in UnderWay \ {s} : Unanswered(x)
  BY OnKeysHeard DEF OnKeys, UnderWay
<1>1. LoadKeys("page") # None /\ LoadKeys("page").op = "keys" /\ LoadKeys("page").to = "page"
  <2>1. "keys" \in Ops /\ None \in Args("keys") /\ "page" \in Callers
    BY DEF Ops, Args, Callers
  <2> QED
    BY <2>1, CallMade, FitsSome, FirstLoads DEF LoadKeys
<1>2. CASE calls'[s] = LoadKeys("page")
  BY <1>1, <1>2 DEF KeysInv, UnderWay
<1>3. CASE KeysAnswered(s)
  <2>1. CASE Ok(s)
    <3>1. keyPage'.shown = calls[s].view
      BY <1>3, <2>1 DEF KeysAnswered, Types, KeysType
    <3>2. ~calls[s].old => calls[s].view = stored
      BY <1>0, <1>3, <2>1 DEF KeysAnswered, Answered, CallsInv, AllFit, Fits, Ok, UnderWay
    <3>3. calls[s].old => heard'.late
      BY <1>3, <2>1 DEF KeysAnswered, Learn, Types
    <3> QED
      BY <1>0, <3>1, <3>2, <3>3 DEF KeysInv
  <2>2. CASE ~Ok(s)
    <3>1. heard'.missed
      BY <1>3, <2>2 DEF KeysAnswered, Types
    <3> QED
      BY <3>1 DEF KeysInv
  <2> QED
    BY <2>1, <2>2
<1>4. ASSUME Miss(s), keyPage'.shown = keyPage.shown, calls[s].op # "keys" PROVE KeysInv'
  <2> DEFINE missed == heard.missed \/ calls[s].view # None
  <2>1. heard' = [heard EXCEPT !.missed = missed]
    BY <1>4 DEF Miss
  <2>2. /\ heard.late => heard'.late
        /\ heard.missed => heard'.missed
        /\ calls[s].view # None => heard'.missed
    BY <2>1 DEF Types
  <2> QED
    BY <1>0, <1>4, <2>2 DEF KeysInv, UnderWay, Unanswered, Kept
<1>5. CASE CreateAnswered(s)
  <2>1. calls'[s] = LoadKeys("page")
    BY <1>5 DEF CreateAnswered, ThenLoad, Disowned, Update
  <2> QED
    BY <1>2, <2>1
<1>6. CASE CreateFailed(s)
  BY <1>4, <1>6 DEF CreateFailed, Answered, Types, KeysType
<1>7. CASE RevokeAnswered(s)
  <2>1. Ok(s) => calls'[s] = LoadKeys("page")
    BY <1>7 DEF RevokeAnswered, ThenLoad, CallsInv, AllFit
  <2> QED
    BY <1>2, <1>4, <1>7, <2>1 DEF RevokeAnswered, Answered
<1> QED
  BY <1>3, <1>5, <1>6, <1>7 DEF OnKeys, KeysHears

LEMMA KeysStep == CallsInv /\ Types /\ KeysInv /\ [Next]_vars => KeysInv'
<1>0. SUFFICES ASSUME CallsInv, Types, KeysInv, [Next]_vars PROVE KeysInv'
  OBVIOUS
<1>1. ASSUME Mounted("overview") \/ Mounted("account"), UNCHANGED app PROVE KeysInv'
  BY <1>0, <1>1, KeysElsewhere
<1>2. CASE DialogStep
  BY <1>0, <1>1, <1>2, KeysUses DEF DialogStep, OnOverview, OnKeys, OnAccount
<1>3. CASE Comes \/ Goes \/ Aside \/ \E s \in Slots : ServerStep(s)
  BY <1>0, <1>3, KeysElsewhere
<1>4. ASSUME NEW s \in Slots, OnKeys(SubmitCreate(s)) \/ OnKeys(Revoke(s)) \/ OnKeys(KeysHears(s))
      PROVE  KeysInv'
  <2>1. Mounted("keys")
    BY <1>4 DEF OnKeys
  <2> QED
    BY <1>0, <1>4, <2>1, KeysUses, KeysHeard
<1>5. ASSUME NEW s \in Slots,
             \/ OnOverview(OverviewUser(s)) \/ OnOverview(OverviewAnswered(s))
             \/ OnAccount(AccountUser(s)) \/ OnAccount(AccountHears(s))
      PROVE  KeysInv'
  BY <1>1, <1>5 DEF OnOverview, OnAccount
<1> QED
  BY <1>0, <1>2, <1>3, <1>4, <1>5, StepKinds

\* Once nothing is under way the page that is up shows what the server has,
\* whichever calls overlapped, failed or outlived their page, unless an answer
\* that was out of date has come last or one that mattered was not heard
\* (Account.tsx:17-102, Keys.tsx:13-19, Overview.tsx:14-33).
THEOREM ShowsCurrent == Spec => []Current
<1> DEFINE Inv == CallsInv /\ Types /\ MountInv /\ DayInv /\ AccountInv /\ KeysInv
<1>1. Init => Inv
  <2> SUFFICES ASSUME Init PROVE DayInv /\ AccountInv /\ KeysInv
    BY InitInv
  <2> QED
    BY DEF Init, DayInv, AccountInv, KeysInv, Mounted, OverviewInit
<1>2. Inv /\ [Next]_vars => Inv'
  BY CallsStep, TypesStep, MountStep, DayStep, AccountStep, KeysStep
<1>3. Inv => Current
  <2> SUFFICES ASSUME Inv PROVE ShownAccount /\ ShownKeys /\ ShownDay
    BY DEF Current
  <2>1. ShownDay
    BY DEF ShownDay, Quiet, DayInv, MountInv, Blank, OverviewInit
  <2>2. ShownAccount
    BY DEF ShownAccount, Quiet, AccountInv, MountInv, Blank, AccountInit
  <2>3. ShownKeys
    BY DEF ShownKeys, Quiet, KeysInv, MountInv, Blank, KeysInit
  <2> QED
    BY <2>1, <2>2, <2>3
<1> QED
  BY <1>1, <1>2, <1>3, PTL DEF Spec

-----------------------------------------------------------------------------
(* The secret of a new key. *)

\* Steps that leave the page's form and secret as they are: what is on its way
\* stays on its way, or is too late to show.
LEMMA SecretStays ==
  ASSUME SecretInv, UNCHANGED stored, given \subseteq given',
         keyPage'.create = keyPage.create, keyPage'.secret = keyPage.secret,
         \A x \in UnderWay : calls[x].op = "create" =>
           \/ Unanswered(x)
           \/ calls[x].status \notin {"ok", "failed"}
           \/ {calls[x].view} \cap Keys \subseteq given',
         \A x \in Slots : calls'[x] # None /\ calls'[x].op = "create" =>
           calls[x] # None /\ Unanswered(x)
  PROVE  SecretInv'
<1>1. \A x \in Creating' : x \in Creating
  BY DEF Creating, UnderWay, Unanswered, Kept
<1>2. SecretKept'
  <2> SUFFICES ASSUME NEW k \in Keys, stored[k] # "unused", k \notin given', keyPage'.secret # k
               PROVE  \E s \in UnderWay' : /\ calls'[s].op = "create" /\ calls'[s].view = k
                                           /\ calls'[s].status \in {"ok", "failed"}
    BY DEF SecretKept
  <2>1. PICK s \in UnderWay : calls[s].op = "create" /\ calls[s].view = k /\ calls[s].status \in {"ok", "failed"}
    BY DEF SecretInv, SecretKept
  <2>2. Unanswered(s)
    BY <2>1
  <2> QED
    BY <2>1, <2>2 DEF Unanswered, Kept, UnderWay
<1> QED
  BY <1>1, <1>2 DEF SecretInv

\* A page that comes or goes puts away the secret it shows, and has no form.
LEMMA SecretLeaves ==
  ASSUME CallsInv, SecretInv, NewPages, UNCHANGED stored, NEW s \in Slots,
         calls[s] # None => calls[s].op # "create" \/ calls[s].status = "unauthorized",
         calls'[s] # None => calls'[s].op # "create",
         \A x \in Slots \ {s} :
           /\ calls'[x] = None <=> calls[x] = None
           /\ calls[x] # None =>
                /\ calls'[x].op = calls[x].op
                /\ calls'[x].mine => calls[x].mine /\ calls[x].to # "page"
                /\ calls'[x].status = calls[x].status /\ calls'[x].view = calls[x].view
  PROVE  SecretInv'
<1>1. keyPage'.create = "closed" /\ keyPage'.secret = None /\ given' = given \cup ({keyPage.secret} \cap Keys)
  BY DEF NewPages, KeysInit, Abandoned
<1>2. Creating' = {}
  <2> SUFFICES ASSUME NEW x \in Slots, calls'[x] # None, calls'[x].op = "create", calls'[x].mine
               PROVE  FALSE
    BY DEF Creating, UnderWay
  <2>1. calls[x] # None /\ calls[x].op = "create" /\ calls[x].mine /\ calls[x].to # "page"
    OBVIOUS
  <2> QED
    BY <2>1 DEF CallsInv, AllFit, Fits
<1>3. SecretKept'
  <2> SUFFICES ASSUME NEW k \in Keys, stored[k] # "unused", k \notin given'
               PROVE  \E x \in UnderWay' : /\ calls'[x].op = "create" /\ calls'[x].view = k
                                           /\ calls'[x].status \in {"ok", "failed"}
    BY DEF SecretKept
  <2>1. PICK x \in UnderWay : calls[x].op = "create" /\ calls[x].view = k /\ calls[x].status \in {"ok", "failed"}
    BY <1>1 DEF SecretInv, SecretKept
  <2>2. x # s
    BY <2>1 DEF UnderWay
  <2> QED
    BY <2>1, <2>2 DEF UnderWay
<1> QED
  BY <1>1, <1>2, <1>3 DEF SecretInv

LEMMA SecretElsewhere ==
  ASSUME CallsInv, Types, SecretInv,
         \/ Comes
         \/ Goes
         \/ Aside
         \/ \E s \in Slots : ServerStep(s)
  PROVE  SecretInv'
<1>1. CASE Comes
  <2>1. PICK s \in Slots, p \in Pages :
          Mount(calls, s, p) /\ (calls[s] # None => calls[s].op = "session") /\ UNCHANGED stored
    BY <1>1 DEF Comes
  <2>2. FirstLoad(p).op # "create"
    BY FirstLoads DEF Pages
  <2> QED
    BY <2>1, <2>2, ComesCalls, SecretLeaves DEF Mount
<1>2. CASE Goes
  BY <1>2, GoesCalls, SecretLeaves DEF Goes, Unmount
<1>3. CASE Aside
  BY <1>3, SecretStays DEF Aside, UnderWay, pages
<1>4. ASSUME NEW s \in Slots, ServerStep(s) PROVE SecretInv'
  <2>1. Served(s) /\ UNCHANGED <<keyPage, given>>
    BY <1>4, ServerServes, ServerAlone DEF pages
  <2>2. Creating' = Creating
    BY <2>1 DEF Served, Creating, UnderWay, Kept
  <2>3. SecretKept'
    <3> SUFFICES ASSUME NEW k \in Keys, stored'[k] # "unused", k \notin given, keyPage.secret # k
                 PROVE  \E x \in UnderWay' : /\ calls'[x].op = "create" /\ calls'[x].view = k
                                             /\ calls'[x].status \in {"ok", "failed"}
      BY <2>1 DEF SecretKept
    <3>1. CASE stored[k] = "unused"
      <4>1. calls'[s].op = "create" /\ calls'[s].view = k /\ calls'[s].status = "ok"
        BY <1>4, <3>1, ServerServes
      <4> QED
        BY <2>1, <4>1 DEF Served, Kept, UnderWay
    <3>2. CASE stored[k] # "unused"
      <4>1. PICK x \in UnderWay :
              calls[x].op = "create" /\ calls[x].view = k /\ calls[x].status \in {"ok", "failed"}
        BY <3>2 DEF SecretInv, SecretKept
      <4> QED
        BY <2>1, <4>1 DEF Served, Unanswered, Kept, UnderWay
    <3> QED
      BY <3>1, <3>2
  <2> QED
    BY <2>1, <2>2, <2>3 DEF SecretInv
<1> QED
  BY <1>1, <1>2, <1>3, <1>4

\* The other pages have no form for keys, and the calls of this one are not theirs.
LEMMA SecretOtherPage ==
  ASSUME CallsInv, Types, SecretInv, NEW s \in Slots,
         \/ OnOverview(OverviewUser(s)) \/ OnOverview(OverviewAnswered(s))
         \/ OnAccount(AccountUser(s)) \/ OnAccount(AccountHears(s))
  PROVE  SecretInv'
<1>0. UNCHANGED <<keyPage, stored, given>>
  BY DEF OnOverview, OnAccount
<1>1. ASSUME \A x \in Slots \ {s} : /\ calls'[x] = None <=> calls[x] = None
                                    /\ calls[x] # None => Unanswered(x),
             calls[s] # None => calls[s].op # "create",
             calls'[s] # None => calls'[s].op # "create"
      PROVE  SecretInv'
  BY <1>0, <1>1, SecretStays DEF UnderWay
<1>2. CASE OnOverview(OverviewUser(s))
  <2>1. PICK date : /\ calls[s] = None
                    /\ calls' = [Outdated(calls, {"overview"}, Statuses) EXCEPT ![s] = OverviewCall(date)]
    BY <1>2 DEF OnOverview, OverviewUser, PickDate, Refresh, LoadOverview
  <2> DEFINE cs == Outdated(calls, {"overview"}, Statuses)
  <2>2. AllFit(calls, signIns, valid, row, stored) /\ AllFit(cs, signIns, valid, row, stored)
    BY AllFitUpdated DEF CallsInv
  <2>3. \A x \in Slots :
          /\ cs[x] = None <=> calls[x] = None
          /\ calls[x] # None =>
               /\ cs[x].op = calls[x].op /\ cs[x].arg = calls[x].arg /\ cs[x].to = calls[x].to
               /\ cs[x].mine = calls[x].mine /\ (calls[x].old => cs[x].old)
               /\ cs[x].status = calls[x].status /\ cs[x].view = calls[x].view
    BY <2>2, OutdatedCall
  <2> HIDE DEF cs
  <2>4. /\ calls'[s] = OverviewCall(date)
        /\ \A x \in Slots \ {s} : calls'[x] = cs[x]
    BY <2>1, <2>2 DEF AllFit, cs
  <2>5. OverviewCall(date).op = "overview"
    BY FirstLoads DEF OverviewCall
  <2>6. \A x \in Slots \ {s} : /\ calls'[x] = None <=> calls[x] = None
                               /\ calls[x] # None => Unanswered(x)
    BY <2>3, <2>4 DEF Unanswered, Kept
  <2> QED
    BY <1>1, <2>1, <2>4, <2>5, <2>6
<1>3. CASE OnOverview(OverviewAnswered(s))
  <2>1. calls[s].op = "overview" /\ calls'[s] = None /\ \A x \in Slots \ {s} : calls'[x] = calls[x]
    BY <1>3 DEF OnOverview, OverviewAnswered, Answered, Done, CallsInv, AllFit
  <2>2. \A x \in Slots \ {s} : calls[x] # None => Unanswered(x)
    BY <2>1 DEF Unanswered, Kept
  <2> QED
    BY <1>1, <2>1, <2>2
<1>4. CASE OnAccount(AccountUser(s))
  <2>1. PICK op \in Buttons \cup {"callback", "import", "password", "poll"} :
          \E arg : Ask(s, Call(op, arg, "page"))
    BY <1>4 DEF OnAccount, AccountUser, Press, Submit, Poll, FormOf
  <2>2. calls'[s].op # "create"
    BY <2>1, FirstLoads DEF Ask, Buttons, CallsInv, AllFit
  <2>3. calls[s] = None /\ \A x \in Slots \ {s} : calls'[x] = calls[x]
    BY <2>1 DEF Ask, CallsInv, AllFit
  <2>4. \A x \in Slots \ {s} : calls[x] # None => Unanswered(x)
    BY <2>3 DEF Unanswered, Kept
  <2> QED
    BY <1>1, <2>2, <2>3, <2>4
<1>5. CASE OnAccount(AccountHears(s))
  <2>1. calls[s].op # "create"
    BY <1>5 DEF OnAccount, AccountHears, AccountAnswered, PressFailed, DeviceStarted, BrowserStarted,
         QuotaAnswered, Disconnected, FormAnswered, PasswordFailed, PollAnswered, FromPage, Answered, Buttons
  <2> QED
    BY <1>1, <1>5, <2>1, OnAccountHeard
<1> QED
  BY <1>2, <1>3, <1>4, <1>5

\* One dialog at a time: the form, or the secret.
LEMMA SecretDialog ==
  ASSUME CallsInv, Types, SecretInv, DialogStep
  PROVE  SecretInv'
<1>0. /\ UNCHANGED stored
      /\ \A x \in Slots : /\ calls'[x] = None <=> calls[x] = None
                          /\ calls[x] # None => Unanswered(x)
  BY DialogKeeps DEF DialogStep, OnOverview, OnAccount, OnKeys, OpenCreate, CloseCreate, CloseSecret
<1>1. \A x \in Creating' : x \in Creating
  BY <1>0 DEF Creating, UnderWay, Unanswered, Kept
<1>2. ASSUME given \subseteq given', keyPage'.secret = keyPage.secret \/ {keyPage.secret} \cap Keys \subseteq given'
      PROVE  SecretKept'
  BY <1>0, <1>2 DEF SecretInv, SecretKept, UnderWay, Unanswered, Kept
<1>3. CASE UNCHANGED <<keyPage, given>>
  BY <1>0, <1>3, SecretStays DEF UnderWay
<1>4. CASE OnKeys(OpenCreate)
  <2>1. keyPage.create = "closed" /\ keyPage.secret = None
    BY <1>4 DEF OnKeys, OpenCreate, KeyDialogs
  <2>2. keyPage'.create = "open" /\ keyPage'.secret = None /\ UNCHANGED given
    BY <1>4, <2>1 DEF OnKeys, OpenCreate, Types, KeysType
  <2> QED
    BY <1>1, <1>2, <2>1, <2>2 DEF SecretInv
<1>5. CASE OnKeys(CloseCreate)
  <2>1. keyPage'.create = "closed" /\ keyPage'.secret = keyPage.secret /\ UNCHANGED given
    BY <1>5 DEF OnKeys, CloseCreate, Types, KeysType
  <2>2. Creating' = {}
    <3>1. calls' = Disowned(calls, {"create"})
      BY <1>5 DEF OnKeys, CloseCreate
    <3>2. \A x \in Slots : calls[x] # None =>
            calls'[x].op = calls[x].op /\ calls'[x].mine = (calls[x].mine /\ calls[x].op \notin {"create"})
      BY <3>1, DisownedCall DEF CallsInv
    <3> QED
      BY <1>0, <3>2 DEF Creating, UnderWay
  <2> QED
    BY <1>2, <2>1, <2>2 DEF SecretInv
<1>6. CASE OnKeys(CloseSecret)
  <2>1. /\ keyPage'.create = keyPage.create /\ keyPage'.secret = None
        /\ given' = given \cup {keyPage.secret}
    BY <1>6 DEF OnKeys, CloseSecret, Types, KeysType
  <2> QED
    BY <1>1, <1>2, <2>1 DEF SecretInv
<1> QED
  BY <1>3, <1>4, <1>5, <1>6 DEF DialogStep, OnOverview, OnAccount

LEMMA SecretUser ==
  ASSUME CallsInv, Types, SecretInv, NEW s \in Slots, OnKeys(SubmitCreate(s)) \/ OnKeys(Revoke(s))
  PROVE  SecretInv'
<1>1. CASE OnKeys(SubmitCreate(s))
  <2>1. /\ keyPage.create = "open" /\ keyPage'.create = "sent" /\ keyPage'.secret = keyPage.secret
        /\ UNCHANGED <<stored, given>>
        /\ calls[s] = None /\ \A x \in Slots \ {s} : calls'[x] = calls[x]
    BY <1>1 DEF OnKeys, SubmitCreate, Ask, Types, KeysType, CallsInv, AllFit
  <2>2. Creating = {} /\ keyPage.secret = None
    BY <2>1 DEF SecretInv
  <2>3. \A x \in Creating' : x = s
    BY <2>1, <2>2 DEF Creating, UnderWay
  <2>4. SecretKept'
    BY <2>1, <2>2 DEF SecretInv, SecretKept, UnderWay
  <2> QED
    BY <2>1, <2>2, <2>3, <2>4 DEF SecretInv
<1>2. CASE OnKeys(Revoke(s))
  <2>1. PICK k : calls[s] = None /\ calls' = [calls EXCEPT ![s] = Call("revoke", k, "page")]
    BY <1>2 DEF OnKeys, Revoke, Ask
  <2>2. calls'[s].op = "revoke" /\ \A x \in Slots \ {s} : calls'[x] = calls[x]
    BY <2>1, FirstLoads DEF CallsInv, AllFit
  <2>3. \A x \in Slots \ {s} : calls[x] # None => Unanswered(x)
    BY <2>2 DEF Unanswered, Kept
  <2> QED
    BY <1>2, <2>1, <2>2, <2>3, SecretStays DEF OnKeys, Revoke, UnderWay
<1> QED
  BY <1>1, <1>2

LEMMA SecretHeard ==
  ASSUME CallsInv, Types, SecretInv, NEW s \in Slots, OnKeys(KeysHears(s))
  PROVE  SecretInv'
<1>0. /\ UNCHANGED stored /\ s \in UnderWay
      /\ calls'[s] \in {None, LoadKeys("page")}
      /\ \A x \in Slots \ {s} : /\ calls'[x] = None <=> calls[x] = None
                                /\ calls[x] # None => Unanswered(x)
  BY OnKeysHeard DEF OnKeys, UnderWay
<1>1. calls'[s] # None => calls'[s].op = "keys"
  BY <1>0, FirstLoads DEF LoadKeys
<1>2. \A x \in Creating' : x \in Creating \ {s}
  BY <1>0, <1>1 DEF Creating, UnderWay, Unanswered, Kept
<1>3. ASSUME NEW k \in Keys, stored[k] # "unused", k \notin given, keyPage.secret # k
      PROVE  \/ \E x \in UnderWay' : /\ calls'[x].op = "create" /\ calls'[x].view = k
                                     /\ calls'[x].status \in {"ok", "failed"}
             \/ calls[s].op = "create" /\ calls[s].view = k
  <2>1. PICK x \in UnderWay :
          calls[x].op = "create" /\ calls[x].view = k /\ calls[x].status \in {"ok", "failed"}
    BY <1>3 DEF SecretInv, SecretKept
  <2> QED
    BY <1>0, <2>1 DEF UnderWay, Unanswered, Kept
<1>4. CASE KeysAnswered(s) \/ RevokeAnswered(s)
  <2>1. /\ keyPage'.create = keyPage.create /\ keyPage'.secret = keyPage.secret
        /\ UNCHANGED given /\ calls[s].op # "create"
    BY <1>4 DEF KeysAnswered, RevokeAnswered, Answered, Types, KeysType
  <2> QED
    BY <1>0, <1>1, <2>1, SecretStays DEF UnderWay
<1>5. CASE CreateAnswered(s)
  <2>1. /\ keyPage'.create = "closed" /\ keyPage'.secret = calls[s].view
        /\ given' = given \cup Overwritten(s)
    BY <1>5 DEF CreateAnswered, Created, Types, KeysType
  <2>2. Creating' = {}
    <3>1. calls' = [Disowned(calls, {"create"}) EXCEPT ![s] = LoadKeys("page")]
      BY <1>5 DEF CreateAnswered, ThenLoad
    <3>2. \A x \in Slots \ {s} : calls[x] # None =>
            calls'[x].op = calls[x].op /\ calls'[x].mine = (calls[x].mine /\ calls[x].op \notin {"create"})
      BY <3>1, DisownedCall DEF CallsInv
    <3> QED
      BY <1>0, <1>1, <3>2 DEF Creating, UnderWay
  <2>3. SecretKept'
    <3>1. keyPage.secret = None \/ keyPage.secret \in given'
      <4>1. CASE calls[s].mine
        BY <1>0, <1>5, <4>1 DEF CreateAnswered, Answered, SecretInv, Creating
      <4>2. CASE ~calls[s].mine
        BY <2>1, <4>2 DEF Overwritten
      <4> QED
        BY <4>1, <4>2
    <3>2. given \subseteq given' /\ \A k \in Keys : k # None
      BY <2>1, NoneAssumption
    <3> QED
      BY <1>0, <1>3, <2>1, <3>1, <3>2 DEF SecretKept
  <2> QED
    BY <2>1, <2>2, <2>3 DEF SecretInv
<1>6. CASE CreateFailed(s)
  <2>1. /\ keyPage'.create = (IF calls[s].mine THEN "open" ELSE keyPage.create)
        /\ keyPage'.secret = keyPage.secret
        /\ given' = given \cup ({calls[s].view} \cap Keys) /\ calls[s].op = "create"
    BY <1>6 DEF CreateFailed, Answered, NeverShown, Types, KeysType
  <2>2. SecretKept'
    BY <1>0, <1>3, <2>1 DEF SecretKept
  <2>3. CASE calls[s].mine
    <3>1. s \in Creating /\ keyPage.secret = None
      BY <1>0, <2>1, <2>3 DEF Creating, SecretInv
    <3>2. Creating' = {}
      BY <1>2, <3>1 DEF SecretInv
    <3> QED
      BY <2>1, <2>2, <3>1, <3>2 DEF SecretInv
  <2>4. CASE ~calls[s].mine
    BY <1>2, <2>1, <2>2, <2>4 DEF SecretInv
  <2> QED
    BY <2>3, <2>4
<1> QED
  BY <1>4, <1>5, <1>6 DEF OnKeys, KeysHears

LEMMA SecretStep == CallsInv /\ Types /\ SecretInv /\ [Next]_vars => SecretInv'
<1>0. SUFFICES ASSUME CallsInv, Types, SecretInv, [Next]_vars PROVE SecretInv'
  OBVIOUS
<1>1. CASE DialogStep
  BY <1>0, <1>1, SecretDialog
<1>2. CASE Comes \/ Goes \/ Aside \/ \E s \in Slots : ServerStep(s)
  BY <1>0, <1>2, SecretElsewhere
<1>3. ASSUME NEW s \in Slots,
             \/ OnOverview(OverviewUser(s)) \/ OnOverview(OverviewAnswered(s))
             \/ OnAccount(AccountUser(s)) \/ OnAccount(AccountHears(s))
      PROVE  SecretInv'
  BY <1>0, <1>3, SecretOtherPage
<1>4. ASSUME NEW s \in Slots, OnKeys(SubmitCreate(s)) \/ OnKeys(Revoke(s)) \/ OnKeys(KeysHears(s))
      PROVE  SecretInv'
  BY <1>0, <1>4, SecretUser, SecretHeard
<1> QED
  BY <1>0, <1>1, <1>2, <1>3, <1>4, StepKinds

\* Until the administrator has closed the dialog that shows it, the secret of a
\* key that the server has stored is shown or on its way, unless no answer or a
\* page or form that has gone has lost it: whatever is pressed, closed, opened
\* again and answered in between (Keys.tsx:38-39, 46).
THEOREM KeepsSecret == Spec => []SecretKept
<1> DEFINE Inv == CallsInv /\ Types /\ MountInv /\ SecretInv
<1>1. Init => Inv
  <2> SUFFICES ASSUME Init PROVE SecretInv
    BY InitInv
  <2>1. Creating = {}
    <3>1. Call("session", None, "app").op = "session"
      BY DEF Call
    <3> QED
      BY <3>1 DEF Init, CallsInit, Creating, UnderWay
  <2> QED
    BY <2>1 DEF Init, SecretInv, SecretKept, KeysInit
<1>2. Inv /\ [Next]_vars => Inv'
  BY CallsStep, TypesStep, MountStep, SecretStep
<1>3. Inv => SecretKept
  BY DEF SecretInv
<1> QED
  BY <1>1, <1>2, <1>3, PTL DEF Spec

=============================================================================
