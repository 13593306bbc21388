------------------------- MODULE CodexAccountProofs -------------------------
(***************************************************************************)
(* Proofs about CodexAccount, for any sets of processes, accounts, grants  *)
(* and flows.  The inductive invariant adds to the properties what makes   *)
(* them stable: who holds credentialMu, that its holder refreshes the      *)
(* credential that is in the row, and that a token which was rotated away  *)
(* is in the row only while its replacement is about to be saved.          *)
(***************************************************************************)
EXTENDS CodexAccount, TLAPS

Refreshing(p) == pc[p] \in {"refreshing", "refreshed"}

\* What a process holds in its locals where it stands.
Shape ==
  \A p \in Procs :
    /\ pc[p] \in {"relock", "refreshing", "refreshed", "fetching", "replacing"}
         => cred[p] \in Credential
    /\ pc[p] = "refreshing" => cred[p].refresh # None
    /\ pc[p] = "finishing" => flowOf[p] \in Flows

\* The mutex is held across a refresh and nowhere else.
LockInv == \A p \in Procs : Refreshing(p) <=> lock = p

\* The holder refreshes the stored credential: no writer came in between.
RefreshInv ==
  \A p \in Procs :
    Refreshing(p) =>
      /\ row # None
      /\ cred[p].account = row.account
      /\ cred[p].login = row.login
      /\ pc[p] = "refreshing" => cred[p] = row

\* Where rotated tokens can be.
TokenInv ==
  /\ rotated \subseteq issued
  /\ row # None => row.refresh \in issued \cup {None}
  /\ \A p \in Procs : cred[p] # None => cred[p].refresh \in issued \cup {None}
  /\ \A p \in Procs : pc[p] = "refreshed" => cred[p].refresh \notin rotated
  /\ row # None /\ row.refresh \in rotated /\ row.refresh \notin excused
       => \E p \in Procs : pc[p] = "refreshed"

IInv ==
  /\ TypeOK
  /\ Shape
  /\ LockInv
  /\ RefreshInv
  /\ RowIsLastLogin
  /\ ForeignQuotaOnlyIfLate
  /\ TokenInv

-----------------------------------------------------------------------------
LEMMA InitIInv == Init => IInv
<1> USE OwnerAssumption, NoneAssumption
<1> SUFFICES ASSUME Init PROVE IInv
  OBVIOUS
<1>1. TypeOK /\ Shape
  BY DEF Init, TypeOK, Shape
<1>2. LockInv /\ RefreshInv
  BY DEF Init, LockInv, RefreshInv, Refreshing
<1>3. RowIsLastLogin /\ ForeignQuotaOnlyIfLate /\ TokenInv
  BY DEF Init, RowIsLastLogin, ForeignQuotaOnlyIfLate, TokenInv
<1> QED
  BY <1>1, <1>2, <1>3 DEF IInv

\* What follows is read off the record types once.
LEMMA CredentialFields ==
  ASSUME NEW c \in Credential
  PROVE  /\ c.account \in Accounts /\ c.access \in Grants
         /\ c.refresh \in Grants \cup {None} /\ c.login \in Grants
         /\ c # None
BY NoneAssumption DEF Credential

LEMMA TypeStep ==
  IInv /\ [Next]_vars => TypeOK' /\ Shape'
<1> USE OwnerAssumption, NoneAssumption DEF Credential, Quota
<1> SUFFICES ASSUME TypeOK, Shape, [Next]_vars
             PROVE  TypeOK' /\ Shape'
  BY DEF IInv
<1>1. ASSUME NEW p \in Procs, NEW why \in {"request", "quota"}, CallFresh(p, why)
      PROVE  TypeOK' /\ Shape'
  BY <1>1 DEF TypeOK, Shape, CallFresh, Fresh
<1>2. ASSUME NEW p \in Procs, Relock(p)
      PROVE  TypeOK' /\ Shape'
  BY <1>2 DEF TypeOK, Shape, Relock, Recheck, Return, Quit
<1>3. ASSUME NEW p \in Procs, RefreshAnswered(p)
      PROVE  TypeOK' /\ Shape'
  <2>. PICK g \in Grants \ issued, rotate \in BOOLEAN :
         cred' = [cred EXCEPT ![p] =
           Inherit(@, [account |-> @.account, access |-> g, login |-> g,
                       refresh |-> IF rotate THEN g ELSE None])]
         /\ issued' = issued \cup {g}
         /\ rotated' = IF rotate THEN rotated \cup {cred[p].refresh} ELSE rotated
    BY <1>3 DEF RefreshAnswered
  <2>. cred[p] \in Credential /\ cred[p].refresh # None
    BY <1>3 DEF Shape, RefreshAnswered
  <2>1. cred'[p] \in Credential
    BY DEF TypeOK, Inherit
  <2>. QED
    BY <1>3, <2>1 DEF TypeOK, Shape, RefreshAnswered
<1>4. ASSUME NEW p \in Procs, RefreshFails(p)
      PROVE  TypeOK' /\ Shape'
  BY <1>4 DEF TypeOK, Shape, RefreshFails, Quit
<1>5. ASSUME NEW p \in Procs, SaveRefreshed(p)
      PROVE  TypeOK' /\ Shape'
  BY <1>5 DEF TypeOK, Shape, SaveRefreshed, SaveAccount, Return
<1>6. ASSUME NEW p \in Procs, QuotaAnswered(p)
      PROVE  TypeOK' /\ Shape'
  BY <1>6 DEF TypeOK, Shape, QuotaAnswered, Quit
<1>7. ASSUME NEW p \in Procs, QuotaFails(p) \/ FlowFails(p) \/ ReplaceFails(p)
      PROVE  TypeOK' /\ Shape'
  BY <1>7 DEF TypeOK, Shape, QuotaFails, FlowFails, ReplaceFails, Quit
<1>8. ASSUME NEW p \in Procs, NEW f \in Flows, ContinueFlow(p, f)
      PROVE  TypeOK' /\ Shape'
  BY <1>8 DEF TypeOK, Shape, ContinueFlow
<1>9. ASSUME NEW p \in Procs, Exchanged(p)
      PROVE  TypeOK' /\ Shape'
  BY <1>9 DEF TypeOK, Shape, Exchanged
<1>10. ASSUME NEW p \in Procs, NEW g \in Grants, Import(p, g)
       PROVE  TypeOK' /\ Shape'
  BY <1>10 DEF TypeOK, Shape, Import
<1>11. ASSUME NEW p \in Procs, Replace(p)
       PROVE  TypeOK' /\ Shape'
  BY <1>11 DEF TypeOK, Shape, Replace, SaveLogin, SaveAccount
<1>12. ASSUME NEW p \in Procs, Finish(p)
       PROVE  TypeOK' /\ Shape'
  BY <1>12 DEF TypeOK, Shape, Finish, Quit
<1>13. ASSUME NEW f \in Flows, StartFlow(f) \/ EndFlow(f)
       PROVE  TypeOK' /\ Shape'
  BY <1>13 DEF TypeOK, Shape, StartFlow, EndFlow
<1>14. CASE Disconnect \/ Expire
  BY <1>14 DEF TypeOK, Shape, Disconnect, Expire
<1>15. CASE UNCHANGED vars
  BY <1>15 DEF TypeOK, Shape, vars
<1> QED
  BY <1>1, <1>2, <1>3, <1>4, <1>5, <1>6, <1>7, <1>8, <1>9, <1>10, <1>11,
     <1>12, <1>13, <1>14, <1>15 DEF Next

-----------------------------------------------------------------------------
\* Only the holder of the mutex takes a step that starts, ends or needs a
\* refresh, and only with the mutex free is the row written by another.
LEMMA LockStep ==
  IInv /\ [Next]_vars => LockInv' /\ RefreshInv'
<1> USE OwnerAssumption, NoneAssumption DEF Refreshing
<1> SUFFICES ASSUME TypeOK, Shape, LockInv, RefreshInv, [Next]_vars
             PROVE  LockInv' /\ RefreshInv'
  BY DEF IInv
<1>1. ASSUME NEW p \in Procs, NEW why \in {"request", "quota"}, CallFresh(p, why)
      PROVE  LockInv' /\ RefreshInv'
  BY <1>1 DEF TypeOK, LockInv, RefreshInv, CallFresh, Fresh
<1>2. ASSUME NEW p \in Procs, Relock(p)
      PROVE  LockInv' /\ RefreshInv'
  BY <1>2 DEF TypeOK, LockInv, RefreshInv, Relock, Recheck, Return, Quit
<1>3. ASSUME NEW p \in Procs, RefreshAnswered(p)
      PROVE  LockInv' /\ RefreshInv'
  <2>1. /\ cred[p] \in Credential
        /\ cred'[p].account = cred[p].account
        /\ cred'[p].login = cred[p].login
    BY <1>3 DEF TypeOK, Shape, RefreshAnswered, Inherit, Credential
  <2> QED
    BY <1>3, <2>1 DEF TypeOK, LockInv, RefreshInv, RefreshAnswered
<1>4. ASSUME NEW p \in Procs, RefreshFails(p)
      PROVE  LockInv' /\ RefreshInv'
  BY <1>4 DEF TypeOK, LockInv, RefreshInv, RefreshFails, Quit
<1>5. ASSUME NEW p \in Procs, SaveRefreshed(p)
      PROVE  LockInv' /\ RefreshInv'
  BY <1>5 DEF TypeOK, LockInv, RefreshInv, SaveRefreshed, SaveAccount, Return
<1>6. ASSUME NEW p \in Procs, QuotaAnswered(p)
      PROVE  LockInv' /\ RefreshInv'
  BY <1>6 DEF TypeOK, LockInv, RefreshInv, QuotaAnswered, Quit
<1>7. ASSUME NEW p \in Procs, QuotaFails(p) \/ FlowFails(p) \/ ReplaceFails(p)
      PROVE  LockInv' /\ RefreshInv'
  BY <1>7 DEF TypeOK, LockInv, RefreshInv, QuotaFails, FlowFails, ReplaceFails, Quit
<1>8. ASSUME NEW p \in Procs, NEW f \in Flows, ContinueFlow(p, f)
      PROVE  LockInv' /\ RefreshInv'
  BY <1>8 DEF TypeOK, LockInv, RefreshInv, ContinueFlow
<1>9. ASSUME NEW p \in Procs, Exchanged(p)
      PROVE  LockInv' /\ RefreshInv'
  BY <1>9 DEF TypeOK, LockInv, RefreshInv, Exchanged
<1>10. ASSUME NEW p \in Procs, NEW g \in Grants, Import(p, g)
       PROVE  LockInv' /\ RefreshInv'
  BY <1>10 DEF TypeOK, LockInv, RefreshInv, Import
<1>11. ASSUME NEW p \in Procs, Replace(p)
       PROVE  LockInv' /\ RefreshInv'
  BY <1>11 DEF TypeOK, LockInv, RefreshInv, Replace, SaveLogin, SaveAccount
<1>12. ASSUME NEW p \in Procs, Finish(p)
       PROVE  LockInv' /\ RefreshInv'
  BY <1>12 DEF TypeOK, LockInv, RefreshInv, Finish, Quit
<1>13. ASSUME NEW f \in Flows, StartFlow(f) \/ EndFlow(f)
       PROVE  LockInv' /\ RefreshInv'
  BY <1>13 DEF TypeOK, LockInv, RefreshInv, StartFlow, EndFlow
<1>14. CASE Disconnect
  BY <1>14 DEF TypeOK, LockInv, RefreshInv, Disconnect
<1>15. CASE Expire
  BY <1>15 DEF TypeOK, LockInv, RefreshInv, Expire
<1>16. CASE UNCHANGED vars
  BY <1>16 DEF LockInv, RefreshInv, vars
<1> QED
  BY <1>1, <1>2, <1>3, <1>4, <1>5, <1>6, <1>7, <1>8, <1>9, <1>10, <1>11,
     <1>12, <1>13, <1>14, <1>15, <1>16 DEF Next

\* The row is written by three kinds of step only.
LEMMA RowWriters ==
  ASSUME TypeOK, Shape, [Next]_vars
  PROVE  \/ UNCHANGED <<row, current>>
         \/ Disconnect
         \/ \E p \in Procs : SaveRefreshed(p) \/ Replace(p)
BY DEF Next, vars, CallFresh, Relock, Recheck, RefreshAnswered, RefreshFails,
       QuotaAnswered, QuotaFails, ContinueFlow, FlowFails, Exchanged, Import,
       ReplaceFails, Finish, StartFlow, EndFlow, Expire

LEMMA RowStep ==
  IInv /\ [Next]_vars => RowIsLastLogin'
<1> USE NoneAssumption DEF RowIsLastLogin
<1> SUFFICES ASSUME IInv, [Next]_vars PROVE RowIsLastLogin'
  OBVIOUS
<1>1. ASSUME NEW p \in Procs, SaveRefreshed(p) PROVE RowIsLastLogin'
  BY <1>1, CredentialFields
     DEF IInv, Shape, RefreshInv, Refreshing, SaveRefreshed, SaveAccount
<1>2. ASSUME NEW p \in Procs, Replace(p) PROVE RowIsLastLogin'
  BY <1>2, CredentialFields DEF IInv, Shape, Replace, SaveLogin, SaveAccount
<1>3. CASE Disconnect
  BY <1>3 DEF Disconnect
<1>4. CASE UNCHANGED <<row, current>>
  BY <1>4 DEF IInv
<1> QED
  BY <1>1, <1>2, <1>3, <1>4, RowWriters DEF IInv

LEMMA QuotaStep ==
  IInv /\ [Next]_vars => ForeignQuotaOnlyIfLate'
<1> USE NoneAssumption DEF ForeignQuotaOnlyIfLate
<1> SUFFICES ASSUME IInv, [Next]_vars PROVE ForeignQuotaOnlyIfLate'
  OBVIOUS
<1>1. ASSUME NEW p \in Procs, SaveRefreshed(p) PROVE ForeignQuotaOnlyIfLate'
  BY <1>1, CredentialFields
     DEF IInv, Shape, RefreshInv, Refreshing, SaveRefreshed, SaveAccount
<1>2. ASSUME NEW p \in Procs, Replace(p) PROVE ForeignQuotaOnlyIfLate'
  BY <1>2, CredentialFields DEF IInv, Shape, Replace, SaveLogin, SaveAccount
<1>3. CASE Disconnect
  BY <1>3 DEF Disconnect
<1>4. ASSUME NEW p \in Procs, QuotaAnswered(p) PROVE ForeignQuotaOnlyIfLate'
  BY <1>4 DEF QuotaAnswered
<1>5. CASE UNCHANGED <<row, quota>>
  BY <1>5 DEF IInv
<1>6. \/ UNCHANGED <<row, quota>>
      \/ Disconnect
      \/ \E p \in Procs : SaveRefreshed(p) \/ Replace(p) \/ QuotaAnswered(p)
  BY DEF Next, vars, CallFresh, Relock, Recheck, RefreshAnswered, RefreshFails,
         QuotaFails, ContinueFlow, FlowFails, Exchanged, Import,
         ReplaceFails, Finish, StartFlow, EndFlow, Expire
<1> QED
  BY <1>1, <1>2, <1>3, <1>4, <1>5, <1>6

\* A rotated token gets into the row by a login alone, which excuses it; it
\* stays there without excuse only while the holder of the mutex is saving.
LEMMA TokenStep ==
  IInv /\ [Next]_vars => TokenInv'
<1> USE NoneAssumption
<1> SUFFICES ASSUME IInv, [Next]_vars PROVE TokenInv'
  OBVIOUS
<1> USE DEF IInv, TypeOK, TokenInv
<1>1. ASSUME NEW p \in Procs, NEW why \in {"request", "quota"}, CallFresh(p, why)
      PROVE  TokenInv'
  BY <1>1 DEF CallFresh, Fresh
<1>2. ASSUME NEW p \in Procs, Relock(p)
      PROVE  TokenInv'
  BY <1>2 DEF Relock, Recheck, Return, Quit
<1>3. ASSUME NEW p \in Procs, RefreshAnswered(p)
      PROVE  TokenInv'
  <2>1. /\ row # None
        /\ cred[p] = row
        /\ row \in Credential
        /\ row.refresh \in issued
    BY <1>3, CredentialFields DEF RefreshAnswered, RefreshInv, Refreshing, Shape
  <2>2. PICK g \in Grants \ issued, rotate \in BOOLEAN :
          /\ issued' = issued \cup {g}
          /\ rotated' = IF rotate THEN rotated \cup {cred[p].refresh} ELSE rotated
          /\ cred' = [cred EXCEPT ![p] =
               Inherit(@, [account |-> @.account, access |-> g, login |-> g,
                           refresh |-> IF rotate THEN g ELSE None])]
    BY <1>3 DEF RefreshAnswered
  <2>3. cred'[p].refresh = IF rotate THEN g ELSE row.refresh
    BY <2>1, <2>2, CredentialFields DEF Inherit
  <2>4. \A q \in Procs : q # p => pc[q] # "refreshed" /\ cred'[q] = cred[q]
    BY <1>3, <2>2 DEF LockInv, Refreshing, RefreshAnswered
  <2>5. cred'[p].refresh \notin rotated' /\ cred'[p].refresh \in issued'
    BY <1>3, <2>1, <2>2, <2>3 DEF RefreshAnswered
  <2>6. pc' = [pc EXCEPT ![p] = "refreshed"] /\ row' = row
    BY <1>3 DEF RefreshAnswered
  <2> QED
    BY <2>1, <2>2, <2>4, <2>5, <2>6
<1>4. ASSUME NEW p \in Procs, RefreshFails(p)
      PROVE  TokenInv'
  BY <1>4 DEF RefreshFails, Quit
<1>5. ASSUME NEW p \in Procs, SaveRefreshed(p)
      PROVE  TokenInv'
  <2>1. cred[p] \in Credential /\ cred[p] # None
    BY <1>5, CredentialFields DEF SaveRefreshed, Shape
  <2> QED
    BY <1>5, <2>1 DEF SaveRefreshed, SaveAccount, Return
<1>6. ASSUME NEW p \in Procs, QuotaAnswered(p)
      PROVE  TokenInv'
  BY <1>6 DEF QuotaAnswered, Quit
<1>7. ASSUME NEW p \in Procs, QuotaFails(p) \/ FlowFails(p) \/ ReplaceFails(p)
      PROVE  TokenInv'
  BY <1>7 DEF QuotaFails, FlowFails, ReplaceFails, Quit
<1>8. ASSUME NEW p \in Procs, NEW f \in Flows, ContinueFlow(p, f)
      PROVE  TokenInv'
  BY <1>8 DEF ContinueFlow
<1>9. ASSUME NEW p \in Procs, Exchanged(p)
      PROVE  TokenInv'
  BY <1>9 DEF Exchanged
<1>10. ASSUME NEW p \in Procs, NEW g \in Grants, Import(p, g)
       PROVE  TokenInv'
  BY <1>10 DEF Import
<1>11. ASSUME NEW p \in Procs, Replace(p)
       PROVE  TokenInv'
  <2>1. cred[p] \in Credential /\ cred[p] # None
    BY <1>11, CredentialFields DEF Replace, SaveLogin, Shape
  <2> QED
    BY <1>11, <2>1 DEF Replace, SaveLogin, SaveAccount
<1>12. ASSUME NEW p \in Procs, Finish(p)
       PROVE  TokenInv'
  BY <1>12 DEF Finish, Quit
<1>13. ASSUME NEW f \in Flows, StartFlow(f) \/ EndFlow(f)
       PROVE  TokenInv'
  BY <1>13 DEF StartFlow, EndFlow
<1>14. CASE Disconnect
  BY <1>14 DEF Disconnect
<1>15. CASE Expire
  BY <1>15 DEF Expire
<1>16. CASE UNCHANGED vars
  BY <1>16 DEF vars
<1> QED
  BY <1>1, <1>2, <1>3, <1>4, <1>5, <1>6, <1>7, <1>8, <1>9, <1>10, <1>11,
     <1>12, <1>13, <1>14, <1>15, <1>16 DEF Next

-----------------------------------------------------------------------------
\* The inductive invariant holds of every behaviour of the account manager.
THEOREM Invariance == Spec => []IInv
<1>1. IInv /\ [Next]_vars => IInv'
  BY TypeStep, LockStep, RowStep, QuotaStep, TokenStep DEF IInv
<1> QED
  BY InitIInv, <1>1, PTL DEF Spec

\* Every variable keeps its type.
THEOREM TypeCorrect == Spec => []TypeOK
<1>1. IInv => TypeOK
  BY DEF IInv
<1> QED
  BY Invariance, <1>1, PTL

\* A refresh neither revives a disconnected account nor overwrites a newer
\* login: the stored account is the last login's (auth.go:402-451).
THEOREM LastLoginWins == Spec => []RowIsLastLogin
<1>1. IInv => RowIsLastLogin
  BY DEF IInv
<1> QED
  BY Invariance, <1>1, PTL

\* A foreign quota snapshot was saved after the switch, never left behind by
\* it (store.go:216-220, 240-245).
THEOREM SwitchDropsQuota == Spec => []ForeignQuotaOnlyIfLate
<1>1. IInv => ForeignQuotaOnlyIfLate
  BY DEF IInv
<1> QED
  BY Invariance, <1>1, PTL

\* Concurrent callers spend a refresh token once (auth.go:411-419).
LEMMA TokenSpentOnce == Spec => []SpentTokenNotReused
<1>1. IInv => SpentTokenNotReused
  <2> SUFFICES ASSUME IInv, NEW p \in Procs, pc[p] = "refreshing",
                      cred[p].refresh \in rotated
               PROVE  cred[p].refresh \in excused
    BY DEF SpentTokenNotReused
  <2>1. row # None /\ cred[p] = row
    BY DEF IInv, RefreshInv, Refreshing
  <2>2. \A q \in Procs : pc[q] # "refreshed"
    BY DEF IInv, LockInv, Refreshing
  <2> QED
    BY <2>1, <2>2 DEF IInv, TokenInv
<1> QED
  BY Invariance, <1>1, PTL

-----------------------------------------------------------------------------
\* A refresh that has been answered holds a refresh token if the row does.
KeepInv ==
  \A p \in Procs :
    pc[p] = "refreshed" /\ row.refresh # None => cred[p].refresh # None

\* A flow that was redeemed is gone for good.
GoneInv == \A f \in redeemed : flow[f] = "gone"

\* The row changes at the end of a refresh by its own process, or while no
\* refresh is under way.
LEMMA RowChanges ==
  ASSUME IInv, [Next]_vars, NEW p \in Procs, pc[p] = "refreshed"
  PROVE  row' = row \/ (SaveRefreshed(p) /\ pc'[p] # "refreshed")
<1>1. lock = p /\ lock # None
  BY NoneAssumption DEF IInv, LockInv, Refreshing
<1>2. \A q \in Procs : pc[q] = "refreshed" => q = p
  BY <1>1 DEF IInv, LockInv, Refreshing
<1>3. ASSUME NEW q \in Procs, SaveRefreshed(q)
      PROVE  SaveRefreshed(p) /\ pc'[p] # "refreshed"
  <2>1. q = p
    BY <1>2, <1>3 DEF SaveRefreshed
  <2>2. pc \in [Procs -> {"idle", "relock", "refreshing", "refreshed", "fetching",
                          "exchanging", "replacing", "finishing"}]
    BY DEF IInv, TypeOK
  <2> QED
    BY <1>3, <2>1, <2>2 DEF SaveRefreshed, Return
<1>4. CASE \A q \in Procs : ~SaveRefreshed(q)
  BY <1>1, <1>4 DEF Next, vars, CallFresh, Relock, Recheck, RefreshAnswered,
     RefreshFails, QuotaAnswered, QuotaFails, ContinueFlow, FlowFails, Exchanged,
     Import, Replace, ReplaceFails, Finish, StartFlow, EndFlow, Disconnect, Expire
<1> QED
  BY <1>3, <1>4

LEMMA KeepStep ==
  IInv /\ KeepInv /\ [Next]_vars => KeepInv'
<1> SUFFICES ASSUME IInv, KeepInv, [Next]_vars, NEW p \in Procs,
                    pc'[p] = "refreshed", row'.refresh # None
             PROVE  cred'[p].refresh # None
  BY DEF KeepInv
<1> USE DEF IInv, TypeOK, Shape
<1>1. CASE pc[p] = "refreshed"
  <2>1. row' = row
    BY <1>1, RowChanges
  <2>2. cred[p].refresh # None
    BY <1>1, <2>1 DEF KeepInv
  <2>3. cred'[p] = cred[p]
    <3>1. ASSUME NEW q \in Procs,
                 \/ \E why \in {"request", "quota"} : CallFresh(q, why)
                 \/ Relock(q) \/ RefreshAnswered(q) \/ RefreshFails(q) \/ SaveRefreshed(q)
          PROVE  cred'[p] = cred[p]
      BY <1>1, <3>1 DEF CallFresh, Relock, Recheck, Return, Quit, RefreshAnswered,
         RefreshFails, SaveRefreshed
    <3>2. ASSUME NEW q \in Procs,
                 \/ QuotaAnswered(q) \/ QuotaFails(q)
                 \/ \E f \in Flows : ContinueFlow(q, f)
                 \/ FlowFails(q) \/ Exchanged(q)
          PROVE  cred'[p] = cred[p]
      BY <1>1, <3>2 DEF QuotaAnswered, QuotaFails, ContinueFlow, FlowFails, Exchanged,
         Return, Quit
    <3>3. ASSUME NEW q \in Procs,
                 \/ \E g \in Grants : Import(q, g)
                 \/ Replace(q) \/ ReplaceFails(q) \/ Finish(q)
          PROVE  cred'[p] = cred[p]
      BY <1>1, <3>3 DEF Import, Replace, SaveLogin, ReplaceFails, Finish, Return, Quit
    <3>4. CASE \/ \E f \in Flows : StartFlow(f) \/ EndFlow(f)
               \/ Disconnect \/ Expire \/ UNCHANGED vars
      BY <3>4 DEF StartFlow, EndFlow, Disconnect, Expire, vars
    <3> QED
      BY <3>1, <3>2, <3>3, <3>4 DEF Next
  <2> QED
    BY <2>2, <2>3
<1>2. CASE pc[p] # "refreshed"
  <2>1. RefreshAnswered(p)
    BY <1>2 DEF Next, vars, CallFresh, Relock, Recheck, Return, Quit, RefreshAnswered,
       RefreshFails, SaveRefreshed, QuotaAnswered, QuotaFails, ContinueFlow, FlowFails,
       Exchanged, Import, Replace, SaveLogin, ReplaceFails, Finish, StartFlow, EndFlow,
       Disconnect, Expire
  <2>2. PICK g \in Grants, rotate \in BOOLEAN :
          cred' = [cred EXCEPT ![p] =
            Inherit(@, [account |-> @.account, access |-> g, login |-> g,
                        refresh |-> IF rotate THEN g ELSE None])]
    BY <2>1 DEF RefreshAnswered
  <2>3. cred[p].refresh # None /\ g # None
    BY <2>1, NoneAssumption DEF RefreshAnswered
  <2>4. cred'[p] = Inherit(cred[p], [account |-> cred[p].account, access |-> g,
                     login |-> g, refresh |-> IF rotate THEN g ELSE None])
    BY <2>2
  <2> QED
    BY <2>3, <2>4 DEF Inherit
<1> QED
  BY <1>1, <1>2

LEMMA GoneStep ==
  IInv /\ GoneInv /\ [Next]_vars => GoneInv'
<1> SUFFICES ASSUME TypeOK, Shape, GoneInv, [Next]_vars
             PROVE  GoneInv'
  BY DEF IInv
<1>1. ASSUME NEW p \in Procs, Finish(p)
      PROVE  GoneInv'
  BY <1>1 DEF GoneInv, TypeOK, Shape, Finish
<1>2. ASSUME NEW f \in Flows, StartFlow(f) \/ EndFlow(f)
      PROVE  GoneInv'
  BY <1>2 DEF GoneInv, TypeOK, StartFlow, EndFlow
<1>3. CASE UNCHANGED <<flow, redeemed>>
  BY <1>3 DEF GoneInv
<1>4. CASE /\ \A p \in Procs : ~Finish(p)
           /\ \A f \in Flows : ~StartFlow(f) /\ ~EndFlow(f)
  BY <1>3, <1>4 DEF Next, vars, CallFresh, Relock, Recheck, RefreshAnswered,
     RefreshFails, SaveRefreshed, QuotaAnswered, QuotaFails, ContinueFlow, FlowFails,
     Exchanged, Import, Replace, SaveLogin, ReplaceFails, Disconnect, Expire
<1> QED
  BY <1>1, <1>2, <1>4

\* A refresh never loses the means of the next one (auth.go:427-429).
THEOREM TokenKept == Spec => RefreshKeepsToken
<1> DEFINE Kept == \A p \in Procs :
             pc[p] = "refreshed" /\ row # None /\ row.refresh # None
               /\ row' # None /\ row'.login = row.login
             => row'.refresh # None
<1>1. Init => KeepInv
  BY DEF Init, KeepInv
<1>2. IInv /\ KeepInv /\ [Next]_vars => Kept
  <2> SUFFICES ASSUME IInv, KeepInv, [Next]_vars, NEW p \in Procs,
                      pc[p] = "refreshed", row.refresh # None
               PROVE  row'.refresh # None
    OBVIOUS
  <2>1. CASE row' = row
    BY <2>1
  <2>2. CASE SaveRefreshed(p)
    BY <2>2 DEF KeepInv, SaveRefreshed, SaveAccount
  <2> QED
    BY <2>1, <2>2, RowChanges
<1>3. IInv /\ KeepInv /\ [Next]_vars => [Kept]_vars
  BY <1>2
<1> QED
  BY Invariance, <1>1, <1>3, KeepStep, PTL DEF Spec, RefreshKeepsToken

\* A login flow that has been reported complete is never taken up again
\* (auth.go:232, 312).
LEMMA FlowRedeemed == Spec => FlowRedeemedOnce
<1> DEFINE Once == \A p \in Procs :
             pc[p] = "idle" /\ pc'[p] = "exchanging" => flowOf'[p] \notin redeemed
<1>1. Init => GoneInv
  BY DEF Init, GoneInv
<1>2. IInv /\ GoneInv /\ [Next]_vars => Once
  <2> SUFFICES ASSUME TypeOK, GoneInv, [Next]_vars, NEW p \in Procs,
                      pc[p] = "idle", pc'[p] = "exchanging"
               PROVE  flowOf'[p] \notin redeemed
    BY DEF IInv
  <2>1. PICK f \in Flows : ContinueFlow(p, f)
    BY DEF TypeOK, Next, vars, CallFresh, Relock, Recheck, Return, Quit,
       RefreshAnswered, RefreshFails, SaveRefreshed, QuotaAnswered, QuotaFails,
       ContinueFlow, FlowFails, Exchanged, Import, Replace, SaveLogin, ReplaceFails,
       Finish, StartFlow, EndFlow, Disconnect, Expire
  <2> QED
    BY <2>1 DEF ContinueFlow, TypeOK, GoneInv
<1>3. IInv /\ GoneInv /\ [Next]_vars => [Once]_vars
  BY <1>2
<1> QED
  BY Invariance, <1>1, <1>3, GoneStep, PTL DEF Spec, FlowRedeemedOnce

\* Refresh tokens and login flows are good for one use, however many calls try
\* (auth.go:232, 312, 411-419).
THEOREM SingleUse == Spec => UsedOnce
BY TokenSpentOnce, FlowRedeemed, PTL DEF UsedOnce
=============================================================================
