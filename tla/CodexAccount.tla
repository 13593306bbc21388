---------------------------- MODULE CodexAccount ----------------------------
(***************************************************************************)
(* The single ChatGPT account of the gateway: internal/codex/auth.go       *)
(* (Manager) over the codex_account and quota_snapshot rows of             *)
(* internal/store/store.go.  A process of Procs is one goroutine serving   *)
(* an HTTP request; it runs at most one Manager call at a time.  A call is *)
(* cut where it leaves the process (an HTTP round trip to OpenAI) and      *)
(* where it takes credentialMu: between two cuts no other writer of the    *)
(* account row can run.                                                    *)
(*                                                                         *)
(* A grant is what one answer of OpenAI's token endpoint hands out: an     *)
(* access token and, unless the answer omits it, a refresh token, both     *)
(* named by the grant.  The endpoint is external: it may rotate the        *)
(* refresh token it is shown, and refuses one it has rotated away.         *)
(***************************************************************************)
EXTENDS FiniteSets

CONSTANTS Procs,     \* request goroutines
          Accounts,  \* ChatGPT account ids
          Grants,    \* answers the token endpoint may give, each used once
          Owner,     \* the account a grant belongs to
          Flows,     \* ids of pending device and browser logins
          None       \* absent row, lock holder, token or flow

Credential == [account : Accounts, access : Grants,
               refresh : Grants \cup {None}, login : Grants]

Quota == [account : Accounts, late : BOOLEAN]

ASSUME OwnerAssumption == Owner \in [Grants -> Accounts]
ASSUME NoneAssumption ==
  None \notin Procs \cup Grants \cup Flows \cup Credential \cup Quota

VARIABLES
  row,      \* codex_account, or None
  quota,    \* quota_snapshot, or None
  flow,     \* session entries of device and browser logins alike
  lock,     \* holder of credentialMu, or None
  pc,       \* where each process is
  job,      \* the call that asked for a fresh credential
  cred,     \* the local variable credential
  flowOf,   \* the login flow a process is completing
  stale,    \* grants whose access token expires within two minutes
  issued,   \* grants given out                          (token endpoint)
  rotated,  \* grants whose refresh token is used up     (token endpoint)
  excused,  \* history: rotated tokens the row may still hold, see below
  current,  \* history: the grant of the last login, None after a disconnect
  redeemed  \* history: flows whose login has returned to the browser

vars == <<row, quota, flow, lock, pc, job, cred, flowOf, stale, issued,
          rotated, excused, current, redeemed>>

TypeOK ==
  /\ row \in Credential \cup {None}
  /\ quota \in Quota \cup {None}
  /\ flow \in [Flows -> {"unused", "pending", "gone"}]
  /\ lock \in Procs \cup {None}
  /\ pc \in [Procs -> {"idle", "relock", "refreshing", "refreshed", "fetching",
                       "exchanging", "replacing", "finishing"}]
  /\ job \in [Procs -> {"request", "quota", None}]
  /\ cred \in [Procs -> Credential \cup {None}]
  /\ flowOf \in [Procs -> Flows \cup {None}]
  /\ stale \subseteq Grants
  /\ issued \subseteq Grants
  /\ rotated \subseteq Grants
  /\ excused \subseteq Grants
  /\ current \in Grants \cup {None}
  /\ redeemed \subseteq Flows

Init ==
  /\ row = None
  /\ quota = None
  /\ flow = [f \in Flows |-> "unused"]
  /\ lock = None
  /\ pc = [p \in Procs |-> "idle"]
  /\ job = [p \in Procs |-> None]
  /\ cred = [p \in Procs |-> None]
  /\ flowOf = [p \in Procs |-> None]
  /\ stale = {}
  /\ issued = {}
  /\ rotated = {}
  /\ excused = {}
  /\ current = None
  /\ redeemed = {}

-----------------------------------------------------------------------------
\* The store and the small steps the calls share.

\* SaveAccount: one transaction writes the row and drops the quota of a
\* different previous account.
SaveAccountKeepsQuota(c) == row' = c /\ UNCHANGED quota

SaveAccount(c) ==
  /\ row' = c
  /\ quota' = IF row # None /\ row.account # c.account THEN None ELSE quota

\* An access token is good while it has more than two minutes to live.
Fresh(c) == c.access \notin stale

\* FreshCredential returns c: FetchQuota goes on with it, a proxied request is
\* on its way and out of this module.
Return(p, c) ==
  /\ pc' = [pc EXCEPT ![p] = IF job[p] = "quota" THEN "fetching" ELSE "idle"]
  /\ job' = [job EXCEPT ![p] = None]
  /\ cred' = [cred EXCEPT ![p] = IF job[p] = "quota" THEN c ELSE None]

\* A call returns with an error or with nothing more to do.
Quit(p) ==
  /\ pc' = [pc EXCEPT ![p] = "idle"]
  /\ job' = [job EXCEPT ![p] = None]
  /\ cred' = [cred EXCEPT ![p] = None]

\* Fields the token endpoint leaves empty are taken from the old credential.
InheritNothing(old, reply) == [reply EXCEPT !.login = old.login]

Inherit(old, reply) ==
  [reply EXCEPT !.refresh = IF @ = None THEN old.refresh ELSE @,
                !.login = old.login]

-----------------------------------------------------------------------------
\* FreshCredential, called for a proxied request or by FetchQuota.

CallFresh(p, why) ==
  /\ pc[p] = "idle"
  /\ row # None
  /\ IF Fresh(row)
     THEN /\ why = "quota"
          /\ pc' = [pc EXCEPT ![p] = "fetching"]
          /\ UNCHANGED job
     ELSE /\ pc' = [pc EXCEPT ![p] = "relock"]
          /\ job' = [job EXCEPT ![p] = why]
  /\ cred' = [cred EXCEPT ![p] = row]
  /\ UNCHANGED <<row, quota, flow, lock, flowOf, stale, issued, rotated,
                 excused, current, redeemed>>

\* The lock is taken and the credential found in the row is put to use.
Recheck(p, found) ==
  /\ pc[p] = "relock"
  /\ lock = None
  /\ \/ /\ found # None => ~Fresh(found) /\ found.refresh = None
        /\ Quit(p)
        /\ UNCHANGED lock
     \/ /\ found # None
        /\ Fresh(found)
        /\ Return(p, found)
        /\ UNCHANGED lock
     \/ /\ found # None
        /\ ~Fresh(found)
        /\ found.refresh # None
        /\ lock' = p
        /\ cred' = [cred EXCEPT ![p] = found]
        /\ pc' = [pc EXCEPT ![p] = "refreshing"]
        /\ UNCHANGED job
  /\ UNCHANGED <<row, quota, flow, flowOf, stale, issued, rotated,
                 excused, current, redeemed>>

RecheckWithoutReading(p) == row # None /\ Recheck(p, cred[p])

RelockAnyToken(p) ==
  /\ pc[p] = "relock"
  /\ lock = None
  /\ row # None
  /\ lock' = p
  /\ cred' = [cred EXCEPT ![p] = row]
  /\ pc' = [pc EXCEPT ![p] = "refreshing"]
  /\ UNCHANGED <<row, quota, flow, job, flowOf, stale, issued, rotated,
                 excused, current, redeemed>>

\* credentialMu.Lock, then the credential is read again.
Relock(p) == Recheck(p, row)

\* The token endpoint answers a refresh; the lock is still held.
RefreshAnswered(p) ==
  /\ pc[p] = "refreshing"
  /\ cred[p].refresh \notin rotated
  /\ \E g \in Grants \ issued, rotate \in BOOLEAN :
       /\ Owner[g] = cred[p].account
       /\ issued' = issued \cup {g}
       /\ rotated' = IF rotate THEN rotated \cup {cred[p].refresh} ELSE rotated
       /\ cred' = [cred EXCEPT ![p] =
            Inherit(@, [account |-> @.account, access |-> g, login |-> g,
                        refresh |-> IF rotate THEN g ELSE None])]
  /\ pc' = [pc EXCEPT ![p] = "refreshed"]
  /\ UNCHANGED <<row, quota, flow, lock, job, flowOf, stale, excused, current,
                 redeemed>>

FailHoldingLock(p) ==
  /\ pc[p] \in {"refreshing", "refreshed"}
  /\ Quit(p)
  /\ excused' = excused \cup (rotated \cap {row.refresh})
  /\ UNCHANGED <<row, quota, flow, lock, flowOf, stale, issued, rotated,
                 current, redeemed>>

\* The request fails, the answer is lost or unusable, or the save fails: the
\* call returns the error and the row keeps the refresh token it had, which
\* the endpoint may by now have rotated away.
RefreshFails(p) ==
  /\ pc[p] \in {"refreshing", "refreshed"}
  /\ lock' = None
  /\ Quit(p)
  /\ excused' = excused \cup (rotated \cap {row.refresh})
  /\ UNCHANGED <<row, quota, flow, flowOf, stale, issued, rotated,
                 current, redeemed>>

\* saveCredential after a refresh, then the deferred Unlock.
SaveRefreshed(p) ==
  /\ pc[p] = "refreshed"
  /\ SaveAccount(cred[p])
  /\ lock' = None
  /\ Return(p, cred[p])
  /\ UNCHANGED <<flow, flowOf, stale, issued, rotated, excused, current,
                 redeemed>>

-----------------------------------------------------------------------------
\* FetchQuota after its credential: the usage request, then SaveQuota.  The
\* history field late says the account was no longer the stored one.

QuotaAnswered(p) ==
  /\ pc[p] = "fetching"
  /\ quota' = [account |-> cred[p].account,
               late |-> row = None \/ row.account # cred[p].account]
  /\ Quit(p)
  /\ UNCHANGED <<row, flow, lock, flowOf, stale, issued, rotated, excused,
                 current, redeemed>>

QuotaFails(p) ==
  /\ pc[p] = "fetching"
  /\ Quit(p)
  /\ UNCHANGED <<row, quota, flow, lock, flowOf, stale, issued, rotated,
                 excused, current, redeemed>>

-----------------------------------------------------------------------------
\* Logging in: device flow, browser flow, pasted auth.json.

StartFlow(f) ==
  /\ flow[f] = "unused"
  /\ flow' = [flow EXCEPT ![f] = "pending"]
  /\ UNCHANGED <<row, quota, lock, pc, job, cred, flowOf, stale, issued,
                 rotated, excused, current, redeemed>>

\* The entry's TTL passes, or the user refused in the browser: it is deleted.
EndFlow(f) ==
  /\ flow[f] = "pending"
  /\ flow' = [flow EXCEPT ![f] = "gone"]
  /\ UNCHANGED <<row, quota, lock, pc, job, cred, flowOf, stale, issued,
                 rotated, excused, current, redeemed>>

\* PollDeviceFlow or CompleteBrowserFlow finds the entry and goes to OpenAI.
ContinueFlow(p, f) ==
  /\ pc[p] = "idle"
  /\ flow[f] = "pending"
  /\ pc' = [pc EXCEPT ![p] = "exchanging"]
  /\ flowOf' = [flowOf EXCEPT ![p] = f]
  /\ UNCHANGED <<row, quota, flow, lock, job, cred, stale, issued, rotated,
                 excused, current, redeemed>>

\* Still pending, refused, or the exchange failed: the entry stays.
FlowFails(p) ==
  /\ pc[p] = "exchanging"
  /\ Quit(p)
  /\ flowOf' = [flowOf EXCEPT ![p] = None]
  /\ UNCHANGED <<row, quota, flow, lock, stale, issued, rotated, excused,
                 current, redeemed>>

Exchanged(p) ==
  /\ pc[p] = "exchanging"
  /\ \E g \in Grants \ issued : \E token \in {g, None} :
       /\ issued' = issued \cup {g}
       /\ cred' = [cred EXCEPT ![p] = [account |-> Owner[g], access |-> g,
                                       refresh |-> token, login |-> g]]
  /\ pc' = [pc EXCEPT ![p] = "replacing"]
  /\ UNCHANGED <<row, quota, flow, lock, job, flowOf, stale, rotated, excused,
                 current, redeemed>>

\* ImportAuthJSON: a file with a refresh token, new or pasted before.
Import(p, g) ==
  /\ pc[p] = "idle"
  /\ issued' = issued \cup {g}
  /\ cred' = [cred EXCEPT ![p] = [account |-> Owner[g], access |-> g,
                                  refresh |-> g, login |-> g]]
  /\ pc' = [pc EXCEPT ![p] = "replacing"]
  /\ UNCHANGED <<row, quota, flow, lock, job, flowOf, stale, rotated, excused,
                 current, redeemed>>

\* saveCredential of a login.  A pasted file can bring back a rotated token.
SaveLogin(p) ==
  /\ pc[p] = "replacing"
  /\ SaveAccount(cred[p])
  /\ current' = cred[p].login
  /\ excused' = excused \cup (rotated \cap {cred[p].refresh})
  /\ cred' = [cred EXCEPT ![p] = None]
  /\ pc' = [pc EXCEPT ![p] = IF flowOf[p] = None THEN "idle" ELSE "finishing"]
  /\ UNCHANGED <<flow, lock, job, flowOf, stale, issued, rotated, redeemed>>

ReplaceWithoutLock(p) == SaveLogin(p)

\* replaceCredential: Lock, saveCredential, Unlock.
Replace(p) == lock = None /\ SaveLogin(p)

ReplaceFails(p) ==
  /\ pc[p] = "replacing"
  /\ lock = None
  /\ Quit(p)
  /\ flowOf' = [flowOf EXCEPT ![p] = None]
  /\ UNCHANGED <<row, quota, flow, lock, stale, issued, rotated, excused,
                 current, redeemed>>

FinishKeepingFlow(p) ==
  /\ pc[p] = "finishing"
  /\ redeemed' = redeemed \cup {flowOf[p]}
  /\ Quit(p)
  /\ flowOf' = [flowOf EXCEPT ![p] = None]
  /\ UNCHANGED <<row, quota, flow, lock, stale, issued, rotated, excused,
                 current>>

\* The flow entry is deleted and the login reported complete.
Finish(p) ==
  /\ pc[p] = "finishing"
  /\ flow' = [flow EXCEPT ![flowOf[p]] = "gone"]
  /\ redeemed' = redeemed \cup {flowOf[p]}
  /\ Quit(p)
  /\ flowOf' = [flowOf EXCEPT ![p] = None]
  /\ UNCHANGED <<row, quota, lock, stale, issued, rotated, excused,
                 current>>

-----------------------------------------------------------------------------
\* DeleteAccount, under the lock: one transaction drops both rows.
Disconnect ==
  /\ lock = None
  /\ row' = None
  /\ quota' = None
  /\ current' = None
  /\ UNCHANGED <<flow, lock, pc, job, cred, flowOf, stale, issued, rotated,
                 excused, redeemed>>

\* Time passes: the stored access token comes within two minutes of its
\* expiry.  The expiry of a token is looked at only while it is in the row.
Expire ==
  /\ row # None
  /\ Fresh(row)
  /\ stale' = stale \cup {row.access}
  /\ UNCHANGED <<row, quota, flow, lock, pc, job, cred, flowOf, issued,
                 rotated, excused, current, redeemed>>

Next ==
  \/ \E p \in Procs :
       \/ \E why \in {"request", "quota"} : CallFresh(p, why)
       \/ Relock(p)
       \/ RefreshAnswered(p)
       \/ RefreshFails(p)
       \/ SaveRefreshed(p)
       \/ QuotaAnswered(p)
       \/ QuotaFails(p)
       \/ \E f \in Flows : ContinueFlow(p, f)
       \/ FlowFails(p)
       \/ Exchanged(p)
       \/ \E g \in Grants : Import(p, g)
       \/ Replace(p)
       \/ ReplaceFails(p)
       \/ Finish(p)
  \/ \E f \in Flows : StartFlow(f) \/ EndFlow(f)
  \/ Disconnect
  \/ Expire

Spec == Init /\ [][Next]_vars

\* Every HTTP round trip ends (the client has a 30 second timeout), so the
\* call under way takes its next step, and Go's mutex serves its waiters in
\* turn; nothing else is promised to happen.
Fairness ==
  \A p \in Procs :
    /\ SF_vars(Relock(p) \/ Replace(p) \/ ReplaceFails(p))
    /\ WF_vars(RefreshAnswered(p) \/ RefreshFails(p) \/ SaveRefreshed(p)
              \/ QuotaAnswered(p) \/ QuotaFails(p)
              \/ Exchanged(p) \/ FlowFails(p) \/ Finish(p))

FairSpec == Spec /\ Fairness

-----------------------------------------------------------------------------
\* Properties.

\* The stored account is the one of the last login, and there is none after a
\* disconnect: a refresh that was under way neither brings the old account
\* back nor overwrites the new one (credentialMu, auth.go:402-451, 505-509).
RowIsLastLogin == current = IF row = None THEN None ELSE row.login

\* A refresh token the endpoint has rotated away is shown to it again only if
\* the answer that replaced it was lost before it was saved, or a login
\* brought the token back: concurrent callers that all saw the expired
\* credential spend it once (the second read in auth.go:411-419).
SpentTokenNotReused ==
  \A p \in Procs :
    pc[p] = "refreshing" /\ cred[p].refresh \in rotated
      => cred[p].refresh \in excused

\* A refresh never loses the means of the next one: the row is without a
\* refresh token only if its login came without one (auth.go:427-429).
RefreshKeepsToken ==
  [][\A p \in Procs :
       pc[p] = "refreshed" /\ row # None /\ row.refresh # None
         /\ row' # None /\ row'.login = row.login
       => row'.refresh # None]_vars

\* A quota snapshot of an account other than the stored one can only come
\* from a usage answer that arrived after the switch: switching or
\* disconnecting drops what was there (store.go:216-220, 240-245).
ForeignQuotaOnlyIfLate ==
  quota # None /\ (row = None \/ row.account # quota.account) => quota.late

\* Switching accounts discards the old account's quota: what is shown beside
\* an account is its own (store_test.go:98-100).
QuotaOfStoredAccount ==
  quota # None /\ row # None => quota.account = row.account

\* A login flow that has been reported complete is never taken up again
\* (auth.go:232, 312).
FlowRedeemedOnce ==
  [][\A p \in Procs :
       pc[p] = "idle" /\ pc'[p] = "exchanging" => flowOf'[p] \notin redeemed]_vars

\* What is good for one use is used once: no refresh presents a token that an
\* earlier one has used up, and no finished flow is taken up again
\* (auth.go:232, 312, 411-419).
UsedOnce == []SpentTokenNotReused /\ FlowRedeemedOnce

\* Every call of the manager returns, although calls wait for one mutex that
\* is held across an HTTP request.
CallsReturn == \A p \in Procs : pc[p] # "idle" ~> pc[p] = "idle"
=============================================================================
