---------------------------- MODULE ServerProofs ----------------------------
(***************************************************************************)
(* Proofs about two parts of the server.                                   *)
(*                                                                         *)
(* Lifecycle, for any finite set of requests and any of them WebSockets.   *)
(* The count of the requests and the channel that tells of its zero agree  *)
(* whatever the interleaving; the rest of the invariant says what the      *)
(* flag, the registry and the awaited channel are while run goes through   *)
(* its shutdown.                                                           *)
(*                                                                         *)
(* ChatCompletions, for any number of items and deltas.  What a client     *)
(* puts together from its chunks is, piece by piece and call by call, what *)
(* upstream has produced: a text goes on at its last place, because        *)
(* upstream goes on with its last item, and an index stands for one call.  *)
(* Each chunk is written after those it needs.                             *)
(***************************************************************************)
EXTENDS Lifecycle, ChatCompletions, SequenceTheorems, FiniteSetTheorems, TLAPS

-----------------------------------------------------------------------------
\* The server's lifecycle.

\* Nobody else upgrades its connection.
UpgradeInv == \A r \in Requests : pc[r] \in {"upgrading", "upgraded"} => r \in WebSockets

\* Once run has begun to close the sessions no request and no session is added.
ShuttingDownInv ==
  /\ main \in {"flagged", "closing", "shutdown", "drain", "await"} => shuttingDown
  /\ main \in {"closing", "shutdown", "drain", "await"} => registryClosed
  /\ result = "clean" => shuttingDown

\* WaitForIdle waits on the channel of the requests that are at work.
AwaitInv == main = "await" => awaited = idle

\* What closeAll has not copied it has closed.
ClosingInv ==
  main = "closing" => \A r \in registry \ toClose : conn[r] = "closed"

ShutdownInv == ShuttingDownInv /\ AwaitInv /\ ClosingInv /\ SessionsCutOff

IInv ==
  /\ TypeOK
  /\ UpgradeInv
  /\ IdleSignal
  /\ DatabaseClosesLast
  /\ ShutdownInv

LEMMA AcceptedFinite ==
  /\ IsFiniteSet(Accepted)
  /\ Cardinality(Accepted) \in 0..Cardinality(Requests)
<1>1. IsFiniteSet(Requests) /\ Accepted \in SUBSET Requests
  BY WebSocketsAssumption DEF Accepted
<1>2. IsFiniteSet(Accepted) /\ Cardinality(Accepted) <= Cardinality(Requests)
  BY <1>1, FS_Subset
<1>3. Cardinality(Accepted) \in Nat /\ Cardinality(Requests) \in Nat
  BY <1>1, <1>2, FS_CardinalityType
<1> QED
  BY <1>2, <1>3

LEMMA InitIInv == Init => IInv
<1> SUFFICES ASSUME Init PROVE IInv
  OBVIOUS
<1>1. Accepted = {}
  BY DEF Init, Accepted, Over
<1>2. Cardinality(Accepted) = 0 /\ Cardinality(Requests) \in Nat
  BY <1>1, FS_EmptySet, FS_CardinalityType, WebSocketsAssumption
<1>3. TypeOK
  <2>1. pc \in [Requests -> Over \cup {"upgrading", "upgraded", "serving",
                                     "recording", "leaving", "ending"}]
    BY DEF Init, Over
  <2>2. /\ active \in 0..Cardinality(Requests) /\ idle \in Nat
        /\ closedIdle \subseteq 0..idle /\ awaited \in 0..idle
    BY <1>2 DEF Init
  <2> QED
    BY <2>1, <2>2 DEF Init, TypeOK
<1>4. IdleSignal
  BY <1>2 DEF Init, IdleSignal
<1> QED
  BY <1>1, <1>3, <1>4 DEF Init, IInv, UpgradeInv, DatabaseClosesLast,
     SessionsCutOff,
     ShutdownInv, ShuttingDownInv, AwaitInv, ClosingInv

-----------------------------------------------------------------------------
\* A request that begins is one more, one that ends one less.
LEMMA BeginCounted ==
  ASSUME TypeOK, IdleSignal, NEW r \in Requests, Begin(r)
  PROVE  IdleSignal' /\ active' \in 0..Cardinality(Requests)
<1>1. Accepted' = Accepted \cup {r} /\ r \notin Accepted
  BY DEF TypeOK, Accepted, Over, Begin, Goto
<1>2. Cardinality(Accepted') = Cardinality(Accepted) + 1
  BY <1>1, AcceptedFinite, FS_AddElement
<1>3. Accepted' \in SUBSET Requests
  BY DEF Accepted
<1>4. /\ Cardinality(Accepted') <= Cardinality(Requests)
      /\ Cardinality(Requests) \in Nat
  BY <1>3, FS_Subset, FS_CardinalityType, WebSocketsAssumption
<1>5. active' = active + 1 /\ active \in Nat
  BY <1>4 DEF TypeOK, Begin
<1>6. active' # 0 /\ idle' \notin closedIdle'
  BY <1>5 DEF TypeOK, IdleSignal, Begin
<1> QED
  BY <1>2, <1>4, <1>5, <1>6 DEF IdleSignal

LEMMA EndCounted ==
  ASSUME TypeOK, IdleSignal, NEW r \in Requests, End(r)
  PROVE  IdleSignal' /\ active' \in 0..Cardinality(Requests) /\ Accepted' \subseteq Accepted
<1>1. Accepted' = Accepted \ {r} /\ r \in Accepted
  BY DEF TypeOK, Accepted, Over, End, Goto
<1>2. Cardinality(Accepted') = Cardinality(Accepted) - 1
  BY <1>1, AcceptedFinite, FS_RemoveElement
<1>3. Cardinality(Accepted) # 0
  BY <1>1, AcceptedFinite, FS_EmptySet
<1>4. /\ Cardinality(Requests) \in Nat
      /\ Cardinality(Accepted) \in 0..Cardinality(Requests)
  BY AcceptedFinite, FS_CardinalityType, WebSocketsAssumption
<1>5. active \in 1..Cardinality(Requests) /\ active' = active - 1
  BY <1>3, <1>4 DEF IdleSignal, End
<1>6. active' = 0 <=> idle' \in closedIdle'
  BY <1>4, <1>5 DEF IdleSignal, End
<1> QED
  BY <1>1, <1>2, <1>4, <1>5, <1>6 DEF IdleSignal

\* The types, and the count with its channel: only beginning and ending change it.
LEMMA TypeStep ==
  IInv /\ [Next]_vars => TypeOK' /\ UpgradeInv' /\ IdleSignal'
<1> USE DEF service, sockets, Over
<1> SUFFICES ASSUME TypeOK, UpgradeInv, IdleSignal,
                    [Next]_vars
             PROVE  TypeOK' /\ UpgradeInv' /\ IdleSignal'
  BY DEF IInv
<1>1. CASE ServeFails \/ Signal \/ AllClosed \/ Shutdown
  <2>1. CASE ServeFails \/ Signal
    BY <2>1 DEF TypeOK, UpgradeInv, IdleSignal, Accepted, ServeFails, Return, Signal, Step
  <2>2. CASE AllClosed
    BY <2>2 DEF TypeOK, UpgradeInv, IdleSignal, Accepted, AllClosed, Step
  <2>3. CASE Shutdown
    BY <2>3 DEF TypeOK, UpgradeInv, IdleSignal, Accepted, Shutdown, Step
  <2> QED
    BY <1>1, <2>1, <2>2, <2>3
<1>2. CASE DrainTimesOut \/ StopCleaner \/ CloseDatabase
  BY <1>2 DEF TypeOK, UpgradeInv, IdleSignal, Accepted, DrainTimesOut, Return,
     StopCleaner, CloseDatabase, Step
<1>3. CASE RaiseFlag
  BY <1>3 DEF TypeOK, UpgradeInv, IdleSignal, Accepted, RaiseFlag, Step
<1>4. CASE CloseAll
  BY <1>4 DEF TypeOK, UpgradeInv, IdleSignal, Accepted, CloseAll, Step
<1>5. ASSUME NEW r \in Requests, CloseOne(r)
      PROVE  TypeOK' /\ UpgradeInv' /\ IdleSignal'
  BY <1>5 DEF TypeOK, UpgradeInv, IdleSignal, Accepted, CloseOne
<1>6. CASE ShutdownTimesOut
  BY <1>6 DEF TypeOK, UpgradeInv, IdleSignal, Accepted, ShutdownTimesOut, Step
<1>7. CASE WaitForIdle
  BY <1>7 DEF TypeOK, UpgradeInv, IdleSignal, Accepted, WaitForIdle, Step
<1>8. CASE FindIdle \/ BecomeIdle
  BY <1>8 DEF TypeOK, UpgradeInv, IdleSignal, Accepted, FindIdle, BecomeIdle,
     Return, Step
<1>9. ASSUME NEW r \in Requests, Begin(r)
      PROVE  TypeOK' /\ UpgradeInv' /\ IdleSignal'
  <2>1. IdleSignal' /\ active' \in 0..Cardinality(Requests)
    BY <1>9, BeginCounted
  <2>2. idle' \in {idle, idle + 1}
    BY <1>9 DEF Begin
  <2> QED
    BY <1>9, <2>1, <2>2 DEF TypeOK, UpgradeInv, Begin, Goto
<1>10. ASSUME NEW r \in Requests, Refuse(r)
      PROVE  TypeOK' /\ UpgradeInv' /\ IdleSignal'
  BY <1>10 DEF TypeOK, UpgradeInv, IdleSignal, Accepted, Refuse, Goto
<1>11. ASSUME NEW r \in Requests, Upgrade(r) \/ ClientLeaves(r)
      PROVE  TypeOK' /\ UpgradeInv' /\ IdleSignal'
  <2>1. CASE Upgrade(r)
    <3>1. /\ pc[r] = "upgrading" /\ pc'[r] \in {"upgraded", "ending"}
          /\ pc' = [pc EXCEPT ![r] = pc'[r]]
          /\ UNCHANGED <<main, result, service, awaited, conn, sockets, cleaner, database>>
      BY <2>1 DEF TypeOK, Upgrade, Goto
    <3>2. Accepted' = Accepted
      BY <3>1 DEF TypeOK, Accepted
    <3>3. TypeOK'
      BY <3>1 DEF TypeOK
    <3> QED
      BY <3>1, <3>2, <3>3 DEF TypeOK, UpgradeInv, IdleSignal
  <2>2. CASE ClientLeaves(r)
    <3>1. conn' \in [Requests -> {"open", "closed"}]
      BY <2>2 DEF TypeOK, ClientLeaves
    <3>2. UNCHANGED <<main, result, service, awaited, pc, sockets, cleaner, database>>
      BY <2>2 DEF ClientLeaves
    <3> QED
      BY <3>1, <3>2 DEF TypeOK, UpgradeInv, IdleSignal, Accepted
  <2> QED
    BY <1>11, <2>1, <2>2
<1>12. ASSUME NEW r \in Requests, Register(r)
      PROVE  TypeOK' /\ UpgradeInv' /\ IdleSignal'
  <2>1. pc'[r] \in {"ending", "serving"} /\ pc' = [pc EXCEPT ![r] = pc'[r]]
    BY <1>12 DEF TypeOK, Register, Goto
  <2>2. Accepted' = Accepted
    BY <1>12, <2>1 DEF TypeOK, Accepted, Register
  <2>3. IdleSignal'
    BY <1>12, <2>2 DEF IdleSignal, Register
  <2>4. registry' \subseteq WebSockets /\ conn' \in [Requests -> {"open", "closed"}]
    BY <1>12, WebSocketsAssumption DEF TypeOK, UpgradeInv, Register
  <2>5. /\ pc[r] = "upgraded"
        /\ UNCHANGED <<main, result, service, awaited, registryClosed, toClose, cleaner,
                       database>>
    BY <1>12 DEF Register
  <2>6. TypeOK'
    <3>1. pc' \in [Requests -> Over \cup {"upgrading", "upgraded", "serving",
                                         "recording", "leaving", "ending"}]
      BY <2>1 DEF TypeOK
    <3>2. shuttingDown' = shuttingDown /\ active' = active /\ idle' = idle
          /\ closedIdle' = closedIdle
      BY <2>5 DEF service
    <3> QED
      BY <2>4, <2>5, <3>1, <3>2 DEF TypeOK
  <2> QED
    BY <2>1, <2>3, <2>5, <2>6 DEF TypeOK, UpgradeInv
<1>13. ASSUME NEW r \in Requests, Served(r) \/ Interrupted(r) \/ Logged(r)
      PROVE  TypeOK' /\ UpgradeInv' /\ IdleSignal'
  <2>1. /\ pc'[r] \in {"recording", "leaving", "ending"} /\ pc[r] \in {"serving", "recording"}
        /\ pc' = [pc EXCEPT ![r] = pc'[r]]
    BY <1>13 DEF TypeOK, Served, Interrupted, Logged, Goto
  <2>2. Accepted' = Accepted
    BY <2>1 DEF TypeOK, Accepted
  <2>3. pc' \in [Requests -> Over \cup {"upgrading", "upgraded", "serving",
                                      "recording", "leaving", "ending"}]
    BY <2>1 DEF TypeOK
  <2>4. UNCHANGED <<main, result, service, awaited, conn, sockets, cleaner, database>>
    BY <1>13 DEF Served, Interrupted, Logged
  <2>5. IdleSignal'
    BY <2>2, <2>4 DEF IdleSignal
  <2>6. TypeOK'
    BY <2>3, <2>4 DEF TypeOK
  <2>7. UpgradeInv'
    BY <2>1 DEF TypeOK, UpgradeInv
  <2> QED
    BY <2>5, <2>6, <2>7
<1>14. ASSUME NEW r \in Requests, Leave(r)
      PROVE  TypeOK' /\ UpgradeInv' /\ IdleSignal'
  BY <1>14 DEF TypeOK, UpgradeInv, IdleSignal, Accepted, Leave, Goto
<1>15. ASSUME NEW r \in Requests, End(r)
      PROVE  TypeOK' /\ UpgradeInv' /\ IdleSignal'
  <2>1. IdleSignal' /\ active' \in 0..Cardinality(Requests)
    BY <1>15, EndCounted
  <2>2. closedIdle' \subseteq closedIdle \cup {idle}
    BY <1>15 DEF End
  <2> QED
    BY <1>15, <2>1, <2>2 DEF TypeOK, UpgradeInv, End, Goto
<1>16. CASE Cleanup
  BY <1>16 DEF TypeOK, UpgradeInv, IdleSignal, Accepted, Cleanup, CleanerTick,
     Deleted, CleanerStops
<1>17. CASE UNCHANGED vars
  BY <1>17 DEF TypeOK, UpgradeInv, IdleSignal, Accepted, vars
<1> QED
  BY <1>1, <1>2, <1>3, <1>4, <1>5, <1>6, <1>7, <1>8, <1>9,
     <1>10, <1>11, <1>12, <1>13, <1>14, <1>15, <1>16, <1>17 DEF Next, Main, Request

\* What run has seen to so far.
LEMMA ShutdownStep ==
  IInv /\ [Next]_vars => ShutdownInv'
<1> USE DEF service, sockets, Over
<1> SUFFICES ASSUME TypeOK, ShutdownInv,
                    [Next]_vars
             PROVE  ShutdownInv'
  BY DEF IInv
<1>1. CASE ServeFails \/ Signal \/ AllClosed \/ Shutdown
  BY <1>1 DEF TypeOK, ShutdownInv, ShuttingDownInv, AwaitInv, ClosingInv,
     SessionsCutOff, ServeFails, Return, Signal, AllClosed, Shutdown, Step
<1>2. CASE DrainTimesOut \/ StopCleaner \/ CloseDatabase
  BY <1>2 DEF TypeOK, ShutdownInv, ShuttingDownInv, AwaitInv, ClosingInv,
     SessionsCutOff, DrainTimesOut, Return, StopCleaner, CloseDatabase, Step
<1>3. CASE RaiseFlag
  BY <1>3 DEF TypeOK, ShutdownInv, ShuttingDownInv, AwaitInv, ClosingInv,
     SessionsCutOff, RaiseFlag, Step
<1>4. CASE CloseAll
  BY <1>4 DEF TypeOK, ShutdownInv, ShuttingDownInv, AwaitInv, ClosingInv,
     SessionsCutOff, CloseAll, Step
<1>5. ASSUME NEW r \in Requests, CloseOne(r)
      PROVE  ShutdownInv'
  BY <1>5 DEF TypeOK, ShutdownInv, ShuttingDownInv, AwaitInv, ClosingInv,
     SessionsCutOff, CloseOne
<1>6. CASE ShutdownTimesOut
  <2>1. \A r \in registry : conn[r] = "closed" /\ r \in Requests
    BY <1>6, WebSocketsAssumption
       DEF TypeOK, ShutdownInv, SessionsCutOff, ShutdownTimesOut, Step
  <2>2. \A r \in registry' : conn'[r] = "closed"
    BY <1>6, <2>1 DEF ShutdownTimesOut
  <2> QED
    BY <1>6, <2>2 DEF ShutdownInv, ShuttingDownInv, AwaitInv, ClosingInv,
       SessionsCutOff,
       ShutdownTimesOut, Step
<1>7. CASE WaitForIdle
  BY <1>7 DEF TypeOK, ShutdownInv, ShuttingDownInv, AwaitInv, ClosingInv,
     SessionsCutOff, WaitForIdle, Step
<1>8. CASE FindIdle \/ BecomeIdle
  BY <1>8 DEF TypeOK, ShutdownInv, ShuttingDownInv, AwaitInv, ClosingInv,
     SessionsCutOff, FindIdle, BecomeIdle, Return, Step
<1>9. ASSUME NEW r \in Requests, Begin(r)
      PROVE  ShutdownInv'
  BY <1>9 DEF TypeOK, ShutdownInv, ShuttingDownInv, AwaitInv, ClosingInv,
     SessionsCutOff, Begin, Goto
<1>10. ASSUME NEW r \in Requests, Refuse(r)
      PROVE  ShutdownInv'
  BY <1>10 DEF TypeOK, ShutdownInv, ShuttingDownInv, AwaitInv, ClosingInv,
     SessionsCutOff, Refuse, Goto
<1>11. ASSUME NEW r \in Requests, Upgrade(r) \/ ClientLeaves(r)
      PROVE  ShutdownInv'
  <2>1. \A q \in Requests : conn[q] = "closed" => conn'[q] = "closed"
    BY <1>11 DEF TypeOK, Upgrade, ClientLeaves
  <2>2. registry' = registry /\ registry \subseteq Requests
    BY <1>11, WebSocketsAssumption DEF TypeOK, Upgrade, ClientLeaves
  <2> QED
    BY <1>11, <2>1, <2>2 DEF ShutdownInv, ShuttingDownInv, AwaitInv, ClosingInv,
       SessionsCutOff, Upgrade, ClientLeaves
<1>12. ASSUME NEW r \in Requests, Register(r)
      PROVE  ShutdownInv'
  <2>1. \A q \in Requests : conn[q] = "closed" => conn'[q] = "closed"
    BY <1>12 DEF TypeOK, Register
  <2>2. /\ registry \subseteq Requests
        /\ main \in {"closing", "shutdown", "drain", "await"} => registry' = registry
    BY <1>12, WebSocketsAssumption DEF TypeOK, ShutdownInv, ShuttingDownInv,
       Register
  <2> QED
    BY <1>12, <2>1, <2>2 DEF ShutdownInv, ShuttingDownInv, AwaitInv, ClosingInv,
       SessionsCutOff, Register
<1>13. ASSUME NEW r \in Requests, Served(r) \/ Interrupted(r) \/ Logged(r)
      PROVE  ShutdownInv'
  BY <1>13 DEF TypeOK, ShutdownInv, ShuttingDownInv, AwaitInv, ClosingInv,
     SessionsCutOff, Served, Interrupted, Logged, Goto
<1>14. ASSUME NEW r \in Requests, Leave(r)
      PROVE  ShutdownInv'
  BY <1>14 DEF TypeOK, ShutdownInv, ShuttingDownInv, AwaitInv, ClosingInv,
     SessionsCutOff, Leave, Goto
<1>15. ASSUME NEW r \in Requests, End(r)
      PROVE  ShutdownInv'
  BY <1>15 DEF TypeOK, ShutdownInv, ShuttingDownInv, AwaitInv, ClosingInv,
     SessionsCutOff, End, Goto
<1>16. CASE Cleanup
  BY <1>16 DEF TypeOK, ShutdownInv, ShuttingDownInv, AwaitInv, ClosingInv,
     SessionsCutOff, Cleanup, CleanerTick, Deleted, CleanerStops
<1>17. CASE UNCHANGED vars
  BY <1>17 DEF TypeOK, ShutdownInv, ShuttingDownInv, AwaitInv, ClosingInv,
     SessionsCutOff, vars
<1> QED
  BY <1>1, <1>2, <1>3, <1>4, <1>5, <1>6, <1>7, <1>8, <1>9,
     <1>10, <1>11, <1>12, <1>13, <1>14, <1>15, <1>16, <1>17 DEF Next, Main, Request

\* Nobody begins after a clean shutdown, and the cleanup does not begin again.
LEMMA DatabaseStep ==
  IInv /\ [Next]_vars => DatabaseClosesLast'
<1> USE DEF service, sockets, Over
<1> SUFFICES ASSUME TypeOK, IdleSignal, DatabaseClosesLast, ShutdownInv,
                    [Next]_vars
             PROVE  DatabaseClosesLast'
  BY DEF IInv
<1>1. CASE ServeFails \/ Signal \/ AllClosed \/ Shutdown
  BY <1>1 DEF TypeOK, DatabaseClosesLast, ShutdownInv, ShuttingDownInv, Accepted,
     ServeFails, Return, Signal, AllClosed, Shutdown, Step
<1>2. CASE DrainTimesOut \/ StopCleaner \/ CloseDatabase
  BY <1>2 DEF TypeOK, DatabaseClosesLast, ShutdownInv, ShuttingDownInv, Accepted,
     DrainTimesOut, Return, StopCleaner, CloseDatabase, Step
<1>3. CASE RaiseFlag
  BY <1>3 DEF TypeOK, DatabaseClosesLast, ShutdownInv, ShuttingDownInv, Accepted,
     RaiseFlag, Step
<1>4. CASE CloseAll
  BY <1>4 DEF TypeOK, DatabaseClosesLast, ShutdownInv, ShuttingDownInv, Accepted,
     CloseAll, Step
<1>5. ASSUME NEW r \in Requests, CloseOne(r)
      PROVE  DatabaseClosesLast'
  BY <1>5 DEF TypeOK, DatabaseClosesLast, ShutdownInv, ShuttingDownInv, Accepted,
     CloseOne
<1>6. CASE ShutdownTimesOut
  BY <1>6 DEF TypeOK, DatabaseClosesLast, ShutdownInv, ShuttingDownInv, Accepted,
     ShutdownTimesOut, Step
<1>7. CASE WaitForIdle
  BY <1>7 DEF TypeOK, DatabaseClosesLast, ShutdownInv, ShuttingDownInv, Accepted,
     WaitForIdle, Step
<1>8. CASE FindIdle \/ BecomeIdle
  <2>1. active = 0
    BY <1>8 DEF FindIdle, BecomeIdle, Return, Step, ShutdownInv, AwaitInv,
       IdleSignal
  <2>2. Accepted = {}
    BY <2>1, AcceptedFinite, FS_EmptySet DEF IdleSignal
  <2>3. Accepted' = Accepted
    BY <1>8 DEF FindIdle, BecomeIdle, Return, Accepted
  <2> QED
    BY <1>8, <2>2, <2>3 DEF DatabaseClosesLast, FindIdle, BecomeIdle, Return
<1>9. ASSUME NEW r \in Requests, Begin(r)
      PROVE  DatabaseClosesLast'
  BY <1>9 DEF TypeOK, DatabaseClosesLast, ShutdownInv, ShuttingDownInv, Accepted,
     Begin, Goto
<1>10. ASSUME NEW r \in Requests, Refuse(r)
      PROVE  DatabaseClosesLast'
  BY <1>10 DEF TypeOK, DatabaseClosesLast, ShutdownInv, ShuttingDownInv,
     Accepted, Refuse, Goto
<1>11. ASSUME NEW r \in Requests, Upgrade(r) \/ ClientLeaves(r)
      PROVE  DatabaseClosesLast'
  BY <1>11 DEF TypeOK, DatabaseClosesLast, ShutdownInv, ShuttingDownInv,
     Accepted, Upgrade, ClientLeaves, Goto
<1>12. ASSUME NEW r \in Requests, Register(r)
      PROVE  DatabaseClosesLast'
  BY <1>12 DEF TypeOK, DatabaseClosesLast, ShutdownInv, ShuttingDownInv,
     Accepted, Register, Goto
<1>13. ASSUME NEW r \in Requests, Served(r) \/ Interrupted(r) \/ Logged(r)
      PROVE  DatabaseClosesLast'
  BY <1>13 DEF TypeOK, DatabaseClosesLast, ShutdownInv, ShuttingDownInv,
     Accepted, Served, Interrupted, Logged, Goto
<1>14. ASSUME NEW r \in Requests, Leave(r)
      PROVE  DatabaseClosesLast'
  BY <1>14 DEF TypeOK, DatabaseClosesLast, ShutdownInv, ShuttingDownInv,
     Accepted, Leave, Goto
<1>15. ASSUME NEW r \in Requests, End(r)
      PROVE  DatabaseClosesLast'
  BY <1>15 DEF TypeOK, DatabaseClosesLast, ShutdownInv, ShuttingDownInv,
     Accepted, End, Goto
<1>16. CASE Cleanup
  BY <1>16 DEF TypeOK, DatabaseClosesLast, ShutdownInv, ShuttingDownInv,
     Accepted, Cleanup, CleanerTick, Deleted, CleanerStops
<1>17. CASE UNCHANGED vars
  BY <1>17 DEF TypeOK, DatabaseClosesLast, ShutdownInv, ShuttingDownInv,
     Accepted, vars
<1> QED
  BY <1>1, <1>2, <1>3, <1>4, <1>5, <1>6, <1>7, <1>8, <1>9,
     <1>10, <1>11, <1>12, <1>13, <1>14, <1>15, <1>16, <1>17 DEF Next, Main, Request

LEMMA StepIInv == IInv /\ [Next]_vars => IInv'
BY TypeStep, ShutdownStep, DatabaseStep DEF IInv

\* The type invariant, for any number of requests: the count of active requests
\* never falls below zero (service.go:149-181).
THEOREM TypeCorrect == Spec => []TypeOK
<1>1. IInv => TypeOK
  BY DEF IInv
<1> QED
  BY InitIInv, StepIInv, <1>1, PTL DEF Spec

\* The channel is closed exactly while no accepted request is unfinished, so
\* endRequest never closes it twice (service.go:167-181).
THEOREM IdleSignalled == Spec => []IdleSignal
<1>1. IInv => IdleSignal
  BY DEF IInv
<1> QED
  BY InitIInv, StepIInv, <1>1, PTL DEF Spec

\* Sessions are cut off before requests are waited for, a clean shutdown has let
\* all of them finish, and the database closes last (main.go:82-126).
THEOREM ShutdownOrdered == Spec => []ShutdownInOrder
<1>1. IInv => ShutdownInOrder
  BY DEF IInv, ShutdownInv, ShutdownInOrder
<1> QED
  BY InitIInv, StepIInv, <1>1, PTL DEF Spec

-----------------------------------------------------------------------------
\* The answer of Chat Completions: first, sets in an order.

\* An order of a finite set in which any two of its members stand.
Linear(S, before) ==
  /\ IsFiniteSet(S)
  /\ \A x, y \in S : x = y \/ <<x, y>> \in before \/ <<y, x>> \in before
  /\ \A x, y, z \in S :
       <<x, y>> \in before /\ <<y, z>> \in before => <<x, z>> \in before
  /\ \A x \in S : <<x, x>> \notin before

Below(S, before, x) == {y \in S : <<y, x>> \in before}

\* How many are below it tells the members of an ordered set apart.
LEMMA Positions ==
  ASSUME NEW S, NEW before, Linear(S, before)
  PROVE  /\ Cardinality(S) \in Nat
         /\ \A x \in S : Cardinality(Below(S, before, x)) \in 0..(Cardinality(S) - 1)
         /\ \A x, y \in S :
              Cardinality(Below(S, before, x)) = Cardinality(Below(S, before, y)) => x = y
         /\ \A r \in 1..Cardinality(S) :
              \E x \in S : Cardinality(Below(S, before, x)) = r - 1
<1> DEFINE B(x) == Below(S, before, x)
           C(x) == Cardinality(Below(S, before, x))
<1>1. IsFiniteSet(S) /\ Cardinality(S) \in Nat
  BY FS_CardinalityType DEF Linear
<1>2. ASSUME NEW x \in S
      PROVE  IsFiniteSet(B(x)) /\ C(x) \in 0..(Cardinality(S) - 1)
  <2>1. B(x) \subseteq S /\ x \notin B(x)
    BY DEF Linear, Below
  <2>2. IsFiniteSet(B(x)) /\ C(x) \in Nat /\ C(x) <= Cardinality(S)
    BY <1>1, <2>1, FS_Subset, FS_CardinalityType
  <2>3. C(x) # Cardinality(S)
    BY <1>1, <2>1, FS_Subset
  <2> HIDE DEF B, C
  <2> QED
    BY <1>1, <2>2, <2>3
<1>3. ASSUME NEW x \in S, NEW y \in S, <<x, y>> \in before
      PROVE  C(x) # C(y)
  <2>1. B(x) \subseteq B(y) /\ x \in B(y) /\ x \notin B(x)
    BY <1>3 DEF Linear, Below
  <2> QED
    BY <1>2, <2>1, FS_Subset
<1>4. \A x, y \in S : C(x) = C(y) => x = y
  <2> HIDE DEF C
  <2> QED
    BY <1>3 DEF Linear
<1>5. ASSUME NEW r \in 1..Cardinality(S)
      PROVE  \E x \in S : C(x) = r - 1
  <2> DEFINE rank == [x \in S |-> C(x) + 1]
             Numbers == 1..Cardinality(S)
  <2>1. rank \in Injection(S, Numbers)
    <3> HIDE DEF C
    <3>1. \A x \in S : C(x) + 1 \in Numbers
      BY <1>1, <1>2
    <3>2. rank \in [S -> Numbers]
      BY <3>1
    <3>3. \A x, y \in S : rank[x] = rank[y] => x = y
      BY <1>2, <1>4
    <3> HIDE DEF rank, Numbers
    <3> QED
      BY <3>2, <3>3 DEF Injection, IsInjective
  <2>2. IsFiniteSet(Numbers) /\ Cardinality(Numbers) = Cardinality(S)
    BY <1>1, FS_Interval
  <2>3. rank \in Surjection(S, Numbers)
    <3> HIDE DEF rank, Numbers
    <3> QED
      BY <1>1, <2>1, <2>2, FS_Injection
  <2>4. \E x \in S : rank[x] = r
    <3> HIDE DEF rank
    <3> QED
      BY <2>3 DEF Surjection
  <2> HIDE DEF C
  <2> QED
    BY <1>2, <2>4
<1> HIDE DEF C
<1>6. \A x \in S : C(x) \in 0..(Cardinality(S) - 1)
  BY <1>2
<1>7. \A r \in 1..Cardinality(S) : \E x \in S : C(x) = r - 1
  BY <1>5
<1> QED
  BY <1>1, <1>4, <1>6, <1>7 DEF C

\* What InOrder puts in each place.
LEMMA Placed ==
  ASSUME NEW S, NEW before, Linear(S, before)
  PROVE  /\ Cardinality(S) \in Nat /\ DOMAIN InOrder(S, before) = 1..Cardinality(S)
         /\ \A r \in 1..Cardinality(S) :
              /\ InOrder(S, before)[r] \in S
              /\ Cardinality(Below(S, before, InOrder(S, before)[r])) = r - 1
         /\ \A x \in S :
              /\ Cardinality(Below(S, before, x)) + 1 \in 1..Cardinality(S)
              /\ InOrder(S, before)[Cardinality(Below(S, before, x)) + 1] = x
<1> DEFINE C(x) == Cardinality(Below(S, before, x))
<1>1. /\ Cardinality(S) \in Nat
      /\ \A x \in S : C(x) \in 0..(Cardinality(S) - 1)
      /\ \A x, y \in S : C(x) = C(y) => x = y
      /\ \A r \in 1..Cardinality(S) : \E x \in S : C(x) = r - 1
  BY Positions
<1> DEFINE f == [r \in 1..Cardinality(S) |-> CHOOSE x \in S : C(x) = r - 1]
<1>2. InOrder(S, before) = f
  BY DEF InOrder, Below
<1> HIDE DEF C
<1>3. \A r \in 1..Cardinality(S) : f[r] \in S /\ C(f[r]) = r - 1
  BY <1>1
<1>4. DOMAIN f = 1..Cardinality(S)
  OBVIOUS
<1> HIDE DEF f
<1>5. \A x \in S : C(x) + 1 \in 1..Cardinality(S) /\ f[C(x) + 1] = x
  <2> SUFFICES ASSUME NEW x \in S
               PROVE  C(x) + 1 \in 1..Cardinality(S) /\ f[C(x) + 1] = x
    OBVIOUS
  <2>1. C(x) + 1 \in 1..Cardinality(S) /\ C(x) + 1 - 1 = C(x)
    BY <1>1
  <2>2. f[C(x) + 1] \in S /\ C(f[C(x) + 1]) = C(x)
    <3> DEFINE k == C(x) + 1
    <3>1. k \in 1..Cardinality(S) /\ k - 1 = C(x)
      BY <1>1, <2>1
    <3> HIDE DEF k
    <3>2. f[k] \in S /\ C(f[k]) = k - 1
      BY <1>3, <3>1
    <3> QED
      BY <3>1, <3>2 DEF k
  <2> QED
    BY <1>1, <2>1, <2>2
<1> QED
  BY <1>1, <1>2, <1>3, <1>4, <1>5 DEF C

\* T is S with x above all others.
OnTop(S, before, x, T, after) ==
  /\ x \notin S /\ T = S \cup {x} /\ Linear(S, before) /\ Linear(T, after)
  /\ \A y, z \in S : <<y, z>> \in before <=> <<y, z>> \in after
  /\ \A y \in S : <<y, x>> \in after

\* A member that stands above all others comes last, and moves none of them.
LEMMA InOrderLonger ==
  ASSUME NEW S, NEW before, NEW x, NEW T, NEW after, OnTop(S, before, x, T, after)
  PROVE  /\ Cardinality(S) \in Nat /\ Cardinality(T) = Cardinality(S) + 1
         /\ InOrder(T, after)[Cardinality(S) + 1] = x
         /\ \A r \in 1..Cardinality(S) : InOrder(T, after)[r] = InOrder(S, before)[r]
<1>0. T = S \cup {x} /\ Linear(T, after)
  BY DEF OnTop
<1>1. /\ Cardinality(S) \in Nat /\ IsFiniteSet(S)
      /\ Cardinality(T) = Cardinality(S) + 1
  BY FS_CardinalityType, FS_AddElement DEF Linear, OnTop
<1>2. Below(T, after, x) = S
  BY DEF Below, Linear, OnTop
<1>3. ASSUME NEW y \in S
      PROVE  Below(T, after, y) = Below(S, before, y)
  <2>1. <<x, y>> \notin after
    <3>1. x \in T /\ y \in T
      BY <1>0
    <3> QED
      BY <3>1 DEF Linear, OnTop
  <2> QED
    BY <2>1 DEF Below, OnTop
<1>4. \A y \in T : InOrder(T, after)[Cardinality(Below(T, after, y)) + 1] = y
  BY Placed DEF OnTop
<1>5. \A r \in 1..Cardinality(S) :
        /\ InOrder(S, before)[r] \in S
        /\ Cardinality(Below(S, before, InOrder(S, before)[r])) = r - 1
  BY Placed DEF OnTop
<1>6. ASSUME NEW r \in 1..Cardinality(S)
      PROVE  InOrder(T, after)[r] = InOrder(S, before)[r]
  <2> DEFINE y == InOrder(S, before)[r]
  <2>1. y \in S /\ Cardinality(Below(S, before, y)) = r - 1
    BY <1>5
  <2> HIDE DEF y
  <2>2. InOrder(T, after)[r - 1 + 1] = y
    <3>1. y \in T /\ Cardinality(Below(T, after, y)) = r - 1
      BY <1>0, <1>3, <2>1
    <3> QED
      BY <1>4, <3>1
  <2>3. r - 1 + 1 = r
    BY <1>1
  <2> QED
    BY <2>2, <2>3 DEF y
<1>7. InOrder(T, after)[Cardinality(S) + 1] = x
  <2>1. x \in T
    BY <1>0
  <2> QED
    BY <1>2, <1>4, <2>1
<1> QED
  BY <1>1, <1>6, <1>7

\* Numbers stand in their own order, places in that of items and pieces.
LEMMA AscendingLinear ==
  ASSUME NEW n \in Nat, NEW S \in SUBSET (1..n)
  PROVE  Linear(S, Ascending(S))
<1>1. IsFiniteSet(S)
  <2>1. IsFiniteSet(1..n) /\ S \subseteq 1..n
    BY FS_Interval
  <2> QED
    BY <2>1, FS_Subset
<1>2. S \subseteq Nat
  OBVIOUS
<1>3. \A x, y \in S : <<x, y>> \in Ascending(S) <=> x < y
  <2> SUFFICES ASSUME NEW x \in S, NEW y \in S
               PROVE  <<x, y>> \in Ascending(S) <=> x < y
    OBVIOUS
  <2>1. <<x, y>>[1] = x /\ <<x, y>>[2] = y /\ <<x, y>> \in S \X S
    OBVIOUS
  <2> QED
    BY <2>1 DEF Ascending
<1>4. ASSUME NEW x \in S, NEW y \in S
      PROVE  x = y \/ <<x, y>> \in Ascending(S) \/ <<y, x>> \in Ascending(S)
  <2>1. x = y \/ x < y \/ y < x
    BY <1>2
  <2> QED
    BY <1>3, <2>1
<1>5. ASSUME NEW x \in S, NEW y \in S, NEW z \in S,
             <<x, y>> \in Ascending(S), <<y, z>> \in Ascending(S)
      PROVE  <<x, z>> \in Ascending(S)
  BY <1>2, <1>3, <1>5
<1>6. \A x \in S : <<x, x>> \notin Ascending(S)
  BY <1>2, <1>3
<1> QED
  BY <1>1, <1>4, <1>5, <1>6 DEF Linear

\* The pieces of the items of a type, in the order they came.
Earlier(S) ==
  {pair \in S \X S :
     \/ pair[1][1] < pair[2][1]
     \/ pair[1][1] = pair[2][1] /\ pair[1][2] < pair[2][2]}

Arrived(type) ==
  LET places == InOrder(Places(type), Earlier(Places(type)))
  IN  [r \in 1..Cardinality(Places(type)) |-> output[places[r][1]].pieces[places[r][2]]]

LEMMA EarlierLinear ==
  ASSUME NEW m \in Nat, NEW n \in Nat, NEW S \in SUBSET ((1..m) \X (1..n))
  PROVE  Linear(S, Earlier(S))
<1>1. IsFiniteSet(S)
  <2>1. IsFiniteSet(1..m) /\ IsFiniteSet(1..n)
    BY FS_Interval
  <2>2. IsFiniteSet((1..m) \X (1..n)) /\ S \subseteq (1..m) \X (1..n)
    BY <2>1, FS_Product
  <2> QED
    BY <2>2, FS_Subset
<1>2. \A x \in S : x[1] \in Nat /\ x[2] \in Nat /\ x = <<x[1], x[2]>>
  OBVIOUS
<1> DEFINE Comes(x, y) == x[1] < y[1] \/ (x[1] = y[1] /\ x[2] < y[2])
<1>3. \A x, y \in S : <<x, y>> \in Earlier(S) <=> Comes(x, y)
  <2> SUFFICES ASSUME NEW x \in S, NEW y \in S
               PROVE  <<x, y>> \in Earlier(S) <=> Comes(x, y)
    OBVIOUS
  <2>1. <<x, y>>[1] = x /\ <<x, y>>[2] = y /\ <<x, y>> \in S \X S
    OBVIOUS
  <2> QED
    BY <2>1 DEF Earlier
<1>4. ASSUME NEW x \in S, NEW y \in S
      PROVE  x = y \/ <<x, y>> \in Earlier(S) \/ <<y, x>> \in Earlier(S)
  <2>1. x = y \/ Comes(x, y) \/ Comes(y, x)
    <3>1. x[1] = y[1] /\ x[2] = y[2] => x = y
      BY <1>2
    <3>2. x[1] \in Nat /\ x[2] \in Nat /\ y[1] \in Nat /\ y[2] \in Nat
      BY <1>2
    <3> QED
      BY <3>1, <3>2
  <2> HIDE DEF Comes
  <2> QED
    BY <1>3, <2>1
<1>5. ASSUME NEW x \in S, NEW y \in S, NEW z \in S,
             <<x, y>> \in Earlier(S), <<y, z>> \in Earlier(S)
      PROVE  <<x, z>> \in Earlier(S)
  <2>1. Comes(x, y) /\ Comes(y, z)
    BY <1>3, <1>5
  <2>2. Comes(x, z)
    <3>1. /\ x[1] \in Nat /\ x[2] \in Nat /\ y[1] \in Nat /\ y[2] \in Nat
          /\ z[1] \in Nat /\ z[2] \in Nat
      BY <1>2
    <3> QED
      BY <2>1, <3>1
  <2> HIDE DEF Comes
  <2> QED
    BY <1>3, <2>2
<1>6. \A x \in S : <<x, x>> \notin Earlier(S)
  BY <1>2, <1>3
<1> QED
  BY <1>1, <1>4, <1>5, <1>6 DEF Linear

-----------------------------------------------------------------------------
\* What At picks of a sequence, and of a longer one.
LEMMA AtLonger ==
  ASSUME NEW X, NEW items \in Seq(X), NEW x \in X, NEW S \in SUBSET DOMAIN items
  PROVE  /\ At(items, S) \in Seq(X)
         /\ At(Append(items, x), S) = At(items, S)
         /\ At(Append(items, x), S \cup {Len(items) + 1}) = Append(At(items, S), x)
<1> DEFINE n == Len(items)
           longer == Append(items, x)
           k == Cardinality(S)
           f == InOrder(S, Ascending(S))
           T == S \cup {n + 1}
           g == InOrder(T, Ascending(T))
<1>1. /\ n \in Nat /\ DOMAIN items = 1..n /\ S \in SUBSET (1..n) /\ T \in SUBSET (1..(n + 1))
      /\ n + 1 \in Nat
  OBVIOUS
<1>2. Linear(S, Ascending(S)) /\ Linear(T, Ascending(T))
  <2> HIDE DEF n, T
  <2> QED
    BY <1>1, AscendingLinear
<1>3. k \in Nat /\ \A r \in 1..k : f[r] \in S
  BY <1>2, Placed
<1>4. /\ Cardinality(T) = k + 1 /\ g[k + 1] = n + 1
      /\ \A r \in 1..k : g[r] = f[r]
  <2>1. n + 1 \notin S
    BY <1>1
  <2>2. \A y, z \in S : <<y, z>> \in Ascending(S) <=> <<y, z>> \in Ascending(T)
    BY DEF Ascending
  <2>3. ASSUME NEW y \in S
        PROVE  <<y, n + 1>> \in Ascending(T)
    <3>1. <<y, n + 1>> \in T \X T /\ <<y, n + 1>>[1] = y /\ <<y, n + 1>>[2] = n + 1
      OBVIOUS
    <3>2. y < n + 1
      BY <1>1
    <3> QED
      BY <3>1, <3>2 DEF Ascending
  <2> DEFINE m == n + 1
  <2> HIDE DEF n, m, f, g, k
  <2>4. T = S \cup {m} /\ m = n + 1
    BY DEF m
  <2>5. OnTop(S, Ascending(S), m, T, Ascending(T))
    BY <1>2, <2>1, <2>2, <2>3, <2>4 DEF OnTop
  <2> HIDE DEF T
  <2>6. /\ Cardinality(T) = Cardinality(S) + 1
        /\ InOrder(T, Ascending(T))[Cardinality(S) + 1] = m
        /\ \A r \in 1..Cardinality(S) :
             InOrder(T, Ascending(T))[r] = InOrder(S, Ascending(S))[r]
    BY <2>5, InOrderLonger
  <2> QED
    BY <2>4, <2>6 DEF f, g, k
<1>5. /\ longer \in Seq(X) /\ longer[n + 1] = x
      /\ \A i \in S : longer[i] = items[i] /\ items[i] \in X
  BY <1>1
<1>6. /\ At(items, S) = [r \in 1..k |-> items[f[r]]]
      /\ At(longer, S) = [r \in 1..k |-> longer[f[r]]]
      /\ At(longer, T) = [r \in 1..(k + 1) |-> longer[g[r]]]
  BY <1>4 DEF At
<1> HIDE DEF n, longer, k, f, T, g
<1>7. At(items, S) \in Seq(X) /\ Len(At(items, S)) = k
  BY <1>3, <1>5, <1>6
<1>8. At(longer, S) = At(items, S)
  BY <1>3, <1>5, <1>6
<1>9. At(longer, T) = Append(At(items, S), x)
  <2> DEFINE a == At(items, S)
             b == At(longer, T)
  <2>1. /\ a \in Seq(X) /\ Len(a) = k /\ \A r \in 1..k : a[r] = items[f[r]]
    BY <1>6, <1>7
  <2>2. Append(a, x) \in Seq(X) /\ Len(Append(a, x)) = k + 1
        /\ Append(a, x)[k + 1] = x /\ \A r \in 1..k : Append(a, x)[r] = a[r]
    BY <1>3, <2>1, AppendProperties
  <2>3. \A r \in 1..k : longer[g[r]] = a[r]
    BY <1>3, <1>4, <1>5, <2>1
  <2>4. longer[g[k + 1]] = x
    BY <1>4, <1>5
  <2>5. \A r \in 1..(k + 1) : r \in 1..k \/ r = k + 1
    BY <1>3
  <2>6. k + 1 \in 1..(k + 1) /\ \A r \in 1..k : r \in 1..(k + 1)
    BY <1>3
  <2> HIDE DEF a
  <2>7. \A r \in 1..(k + 1) : b[r] = Append(a, x)[r]
    BY <1>6, <2>2, <2>3, <2>4, <2>5
  <2>8. b \in Seq(X) /\ Len(b) = k + 1
    <3>1. \A r \in 1..(k + 1) : longer[g[r]] \in X
      BY <2>1, <2>3, <2>4, <2>5
    <3> QED
      BY <1>3, <1>6, <3>1
  <2> HIDE DEF b
  <2>9. b = Append(a, x)
    BY <2>2, <2>7, <2>8, SeqEqual
  <2> QED
    BY <2>9 DEF a, b
<1> QED
  BY <1>7, <1>8, <1>9 DEF longer, n, T

\* What is selected of chunks when one more is written.
LEMMA SelectLonger ==
  ASSUME NEW X, NEW chunks \in Seq(X), NEW x \in X, NEW kind, NEW indices
  PROVE  /\ Select(chunks, kind, indices) \in Seq(X)
         /\ x.kind = kind /\ x.index \in indices =>
              Select(Append(chunks, x), kind, indices) = Append(Select(chunks, kind, indices), x)
         /\ ~(x.kind = kind /\ x.index \in indices) =>
              Select(Append(chunks, x), kind, indices) = Select(chunks, kind, indices)
<1> DEFINE n == Len(chunks)
           longer == Append(chunks, x)
           Wanted(c) == c.kind = kind /\ c.index \in indices
           S == {c \in DOMAIN chunks : Wanted(chunks[c])}
           T == {c \in DOMAIN longer : Wanted(longer[c])}
<1>1. /\ n \in Nat /\ DOMAIN chunks = 1..n /\ DOMAIN longer = 1..(n + 1)
      /\ longer[n + 1] = x /\ \A c \in 1..n : longer[c] = chunks[c]
  BY AppendProperties
<1>2. S \in SUBSET DOMAIN chunks
  OBVIOUS
<1>3. Select(chunks, kind, indices) = At(chunks, S) /\ Select(longer, kind, indices) = At(longer, T)
  BY DEF Select
<1>4. /\ Wanted(x) => T = S \cup {n + 1}
      /\ ~Wanted(x) => T = S
  <2> HIDE DEF Wanted, longer, n
  <2>1. \A c \in 1..(n + 1) : c \in 1..n \/ c = n + 1
    BY <1>1
  <2>2. n + 1 \in 1..(n + 1) /\ \A c \in 1..n : c \in 1..(n + 1)
    BY <1>1
  <2> QED
    BY <1>1, <2>1, <2>2
<1> HIDE DEF S, T, Wanted
<1>5. /\ At(chunks, S) \in Seq(X) /\ At(longer, S) = At(chunks, S)
      /\ At(longer, S \cup {n + 1}) = Append(At(chunks, S), x)
  <2>1. ASSUME NEW U \in SUBSET DOMAIN chunks
        PROVE  /\ At(chunks, U) \in Seq(X) /\ At(longer, U) = At(chunks, U)
               /\ At(longer, U \cup {n + 1}) = Append(At(chunks, U), x)
    BY AtLonger
  <2> HIDE DEF longer, n
  <2> QED
    BY <1>2, <2>1
<1> HIDE DEF longer, n
<1>6. /\ Select(chunks, kind, indices) \in Seq(X)
      /\ Wanted(x) => Select(longer, kind, indices) = Append(Select(chunks, kind, indices), x)
      /\ ~Wanted(x) => Select(longer, kind, indices) = Select(chunks, kind, indices)
  BY <1>3, <1>4, <1>5
<1> QED
  BY <1>6 DEF longer, Wanted

Texts == {"message", "reasoning"}

\* Nothing is written of a call but its place, its index and its pieces.
ToolsInv ==
  /\ \A i \in DOMAIN output : Len(output[i].pieces) <= pieces
  /\ DOMAIN tools = CallsMade /\ nextTool = Cardinality(CallsMade)
  /\ \A i \in CallsMade : Calls[tools[i] + 1] = i

LEMMA CallsPlaced ==
  ASSUME output \in Seq(Item)
  PROVE  /\ CallsMade \in SUBSET (1..Len(output)) /\ Cardinality(CallsMade) \in Nat
         /\ Linear(CallsMade, Ascending(CallsMade))
         /\ DOMAIN Calls = 1..Cardinality(CallsMade)
         /\ \A c \in 1..Cardinality(CallsMade) : Calls[c] \in CallsMade
         /\ \A b, c \in 1..Cardinality(CallsMade) : Calls[b] = Calls[c] => b = c
<1>1. CallsMade \in SUBSET (1..Len(output)) /\ Len(output) \in Nat
  BY DEF CallsMade
<1>2. Linear(CallsMade, Ascending(CallsMade))
  BY <1>1, AscendingLinear
<1>3. /\ Cardinality(CallsMade) \in Nat /\ DOMAIN Calls = 1..Cardinality(CallsMade)
      /\ \A c \in 1..Cardinality(CallsMade) :
           /\ Calls[c] \in CallsMade
           /\ Cardinality(Below(CallsMade, Ascending(CallsMade), Calls[c])) = c - 1
  BY <1>2, Placed DEF Calls
<1>4. ASSUME NEW b \in 1..Cardinality(CallsMade), NEW c \in 1..Cardinality(CallsMade),
             Calls[b] = Calls[c]
      PROVE  b = c
  <2>1. b - 1 = c - 1
    BY <1>3, <1>4
  <2> QED
    BY <1>3, <2>1
<1> QED
  BY <1>1, <1>2, <1>3, <1>4

LEMMA PlacesTyped ==
  ASSUME output \in Seq(Item), NEW type
  PROVE  /\ Linear(Places(type), Earlier(Places(type)))
         /\ Cardinality(Places(type)) \in Nat
         /\ \A r \in 1..Cardinality(Places(type)) :
              InOrder(Places(type), Earlier(Places(type)))[r] \in Places(type)
<1>1. Places(type) \in SUBSET ((1..MaxItems) \X (1..MaxPieces))
  BY DEF Places
<1>2. MaxItems \in Nat /\ MaxPieces \in Nat
  BY BoundsAssumption
<1>3. Linear(Places(type), Earlier(Places(type)))
  BY <1>1, <1>2, EarlierLinear
<1> QED
  BY <1>3, Placed

LEMMA ItemAdded ==
  ASSUME ChatTypeOK, ToolsInv, NEW type \in Kinds, AddItem(type)
  PROVE  /\ Len(output) \in Nat /\ DOMAIN output' = 1..(Len(output) + 1)
         /\ output' \in Seq(Item) /\ Len(output') = Len(output) + 1
         /\ output'[Len(output) + 1].type = type /\ output'[Len(output) + 1].pieces = <<>>
         /\ output'[Len(output) + 1].summary = {}
         /\ DOMAIN output = 1..Len(output) /\ \A i \in DOMAIN output : output'[i] = output[i]
<1>1. output \in Seq(Item) /\ [type |-> type, pieces |-> <<>>, summary |-> {}] \in Item
  BY DEF ChatTypeOK, Item
<1>2. output' = Append(output, [type |-> type, pieces |-> <<>>, summary |-> {}])
  BY DEF AddItem
<1>3. output'[Len(output) + 1] = [type |-> type, pieces |-> <<>>, summary |-> {}]
  BY <1>1, <1>2, AppendProperties
<1>4. /\ output'[Len(output) + 1].type = type /\ output'[Len(output) + 1].pieces = <<>>
      /\ output'[Len(output) + 1].summary = {}
  BY <1>3
<1> QED
  BY <1>1, <1>2, <1>4, AppendProperties

LEMMA ItemCalls ==
  ASSUME ChatTypeOK, ToolsInv, NEW type \in Kinds, AddItem(type)
  PROVE  /\ type = "function_call" =>
              /\ CallsMade' = CallsMade \cup {Len(output) + 1}
              /\ Cardinality(CallsMade') = Cardinality(CallsMade) + 1
              /\ Calls'[Cardinality(CallsMade) + 1] = Len(output) + 1
              /\ \A c \in 1..Cardinality(CallsMade) : Calls'[c] = Calls[c]
         /\ type # "function_call" => CallsMade' = CallsMade /\ Calls' = Calls
         /\ Len(output) + 1 \notin CallsMade
<1> DEFINE n == Len(output)
<1>1. /\ n \in Nat /\ DOMAIN output = 1..n /\ DOMAIN output' = 1..(n + 1)
      /\ output'[n + 1].type = type /\ \A i \in DOMAIN output : output'[i] = output[i]
      /\ output \in Seq(Item) /\ output' \in Seq(Item)
  <2>1. output \in Seq(Item)
    BY DEF ChatTypeOK
  <2> QED
    BY <2>1, ItemAdded
<1> HIDE DEF n
<1>2. \A i \in 1..(n + 1) : i \in 1..n \/ i = n + 1
  BY <1>1
<1>3. n + 1 \in 1..(n + 1) /\ n + 1 \notin 1..n /\ \A i \in 1..n : i \in 1..(n + 1)
  BY <1>1
<1>4. CallsMade' = {i \in 1..(n + 1) : output'[i].type = "function_call"}
  BY <1>1 DEF CallsMade
<1>5. CallsMade = {i \in 1..n : output[i].type = "function_call"}
  BY <1>1 DEF CallsMade
<1>6. CASE type # "function_call"
  <2>1. CallsMade' = CallsMade
    BY <1>1, <1>2, <1>3, <1>4, <1>5, <1>6
  <2>2. Calls' = Calls
    BY <2>1 DEF Calls
  <2> QED
    BY <1>3, <1>5, <1>6, <2>1, <2>2 DEF n
<1>7. CASE type = "function_call"
  <2>1. CallsMade' = CallsMade \cup {n + 1} /\ n + 1 \notin CallsMade
    BY <1>1, <1>2, <1>3, <1>4, <1>5, <1>7
  <2> DEFINE S == CallsMade
             T == CallsMade'
             x == n + 1
  <2>2. Linear(S, Ascending(S)) /\ Cardinality(S) \in Nat
    BY <1>1, CallsPlaced
  <2>3. Linear(T, Ascending(T))
    <3>1. n + 1 \in Nat /\ T \in SUBSET (1..(n + 1))
      BY <1>1, <1>4
    <3> HIDE DEF T
    <3> QED
      BY <3>1, AscendingLinear
  <2>4. \A y, z \in S : <<y, z>> \in Ascending(S) <=> <<y, z>> \in Ascending(T)
    BY <2>1 DEF Ascending
  <2>5. ASSUME NEW y \in S
        PROVE  <<y, x>> \in Ascending(T)
    <3>1. <<y, x>> \in T \X T /\ <<y, x>>[1] = y /\ <<y, x>>[2] = x
      BY <2>1
    <3>2. y < x
      BY <1>1, <1>5
    <3> QED
      BY <3>1, <3>2 DEF Ascending
  <2>6. Calls = InOrder(S, Ascending(S)) /\ Calls' = InOrder(T, Ascending(T))
    BY DEF Calls
  <2>7. T = S \cup {x} /\ x \notin S
    BY <2>1
  <2> HIDE DEF S, T, x
  <2>8. OnTop(S, Ascending(S), x, T, Ascending(T))
    BY <2>2, <2>3, <2>4, <2>5, <2>7 DEF OnTop
  <2>9. /\ Cardinality(T) = Cardinality(S) + 1
        /\ InOrder(T, Ascending(T))[Cardinality(S) + 1] = x
        /\ \A r \in 1..Cardinality(S) :
             InOrder(T, Ascending(T))[r] = InOrder(S, Ascending(S))[r]
    BY <2>8, InOrderLonger
  <2>10. /\ Cardinality(T) = Cardinality(S) + 1 /\ Calls'[Cardinality(S) + 1] = x
         /\ \A r \in 1..Cardinality(S) : Calls'[r] = Calls[r]
    BY <2>6, <2>9
  <2> QED
    BY <1>7, <2>7, <2>10 DEF S, T, x, n
<1> QED
  BY <1>6, <1>7

LEMMA ItemAt ==
  ASSUME output \in Seq(Item), NEW i \in DOMAIN output
  PROVE  /\ output[i] \in Item /\ output[i].type \in Kinds
         /\ output[i].pieces \in Seq(1..MaxPieces) /\ Len(output[i].pieces) \in Nat
         /\ DOMAIN output[i].pieces = 1..Len(output[i].pieces)
<1>1. output[i] \in Item
  OBVIOUS
<1>2. output[i].type \in Kinds /\ output[i].pieces \in Seq(1..MaxPieces)
  BY <1>1 DEF Item
<1> QED
  BY <1>1, <1>2

LEMMA PieceAdded ==
  ASSUME ChatTypeOK, ToolsInv, NEW i \in 1..MaxItems, Delta(i)
  PROVE  /\ output' \in Seq(Item) /\ Len(output') = Len(output)
         /\ DOMAIN output = 1..Len(output) /\ DOMAIN output' = DOMAIN output
         /\ Len(output) \in Nat /\ i \in DOMAIN output
         /\ \A j \in DOMAIN output : output'[j].type = output[j].type
         /\ \A j \in DOMAIN output : j # i => output'[j] = output[j]
         /\ output[i].pieces \in Seq(1..MaxPieces) /\ Len(output[i].pieces) \in Nat
         /\ Len(output[i].pieces) + 1 \in 1..MaxPieces /\ pieces + 1 \in 1..MaxPieces
         /\ output'[i].pieces = Append(output[i].pieces, pieces + 1)
         /\ output[i].type # "reasoning" => output'[i].summary = output[i].summary
<1>0. PICK summary \in SUBSET (IF output[i].type = "reasoning" THEN {pieces + 1} ELSE {}) :
        output' = [output EXCEPT ![i].pieces = Append(@, pieces + 1),
                                 ![i].summary = @ \cup summary]
  BY DEF Delta
<1>1. /\ output \in Seq(Item) /\ i \in DOMAIN output /\ pieces \in Nat /\ pieces < MaxPieces
  BY DEF ChatTypeOK, Delta
<1>2. MaxPieces \in Nat
  BY BoundsAssumption
<1>3. pieces + 1 \in 1..MaxPieces
  BY <1>1, <1>2
<1>4. output[i] \in Item /\ output[i].pieces \in Seq(1..MaxPieces)
  BY <1>1, ItemAt
<1>5. Len(output[i].pieces) \in Nat /\ Len(output[i].pieces) + 1 \in 1..MaxPieces
  <2>1. Len(output[i].pieces) \in Nat /\ Len(output[i].pieces) <= pieces
    BY <1>1, <1>4 DEF ToolsInv
  <2> QED
    BY <1>1, <1>2, <2>1
<1> DEFINE new == [output[i] EXCEPT !.pieces = Append(@, pieces + 1),
                                    !.summary = @ \cup summary]
<1>6. /\ new \in Item /\ new.type = output[i].type
      /\ new.pieces = Append(output[i].pieces, pieces + 1)
      /\ output[i].type # "reasoning" => new.summary = output[i].summary
  <2>1. Append(output[i].pieces, pieces + 1) \in Seq(1..MaxPieces)
    BY <1>3, <1>4, AppendProperties
  <2>2. output[i].summary \cup summary \in SUBSET (1..MaxPieces)
    BY <1>3, <1>4 DEF Item
  <2>3. output[i].type # "reasoning" => output[i].summary \cup summary = output[i].summary
    OBVIOUS
  <2> DEFINE some == Append(output[i].pieces, pieces + 1)
             sum == output[i].summary \cup summary
  <2>4. new = [type |-> output[i].type, pieces |-> some, summary |-> sum]
    <3> DEFINE longer(item) == [item EXCEPT !.pieces = some]
               grown(item) == [item EXCEPT !.summary = sum]
    <3>1. PICK t, p, s : output[i] = [type |-> t, pieces |-> p, summary |-> s]
      BY <1>4 DEF Item
    <3>2. new = grown(longer(output[i]))
      OBVIOUS
    <3> HIDE DEF some, sum, new
    <3>3. longer([type |-> t, pieces |-> p, summary |-> s])
            = [type |-> t, pieces |-> some, summary |-> s]
      OBVIOUS
    <3>4. grown([type |-> t, pieces |-> some, summary |-> s])
            = [type |-> t, pieces |-> some, summary |-> sum]
      OBVIOUS
    <3> HIDE DEF longer, grown
    <3>5. new = [type |-> t, pieces |-> some, summary |-> sum]
      BY <3>1, <3>2, <3>3, <3>4, Zenon
    <3>6. t = output[i].type
      BY <3>1
    <3> QED
      BY <3>5, <3>6, Zenon
  <2>5. output[i].type \in Kinds /\ some \in Seq(1..MaxPieces) /\ sum \in SUBSET (1..MaxPieces)
    BY <1>4, <2>1, <2>2 DEF Item
  <2> HIDE DEF new, some, sum
  <2>6. /\ new \in Item /\ new.type = output[i].type /\ new.pieces = some
        /\ new.summary = sum
    BY <2>4, <2>5 DEF Item
  <2> QED
    BY <2>3, <2>6 DEF some, sum
<1>7. output' = [output EXCEPT ![i] = new]
  BY <1>0
<1> HIDE DEF new
<1>8. /\ output' \in Seq(Item) /\ Len(output') = Len(output) /\ DOMAIN output' = DOMAIN output
      /\ output'[i] = new /\ \A j \in DOMAIN output : j # i => output'[j] = output[j]
  <2>1. output' \in Seq(Item) /\ Len(output') = Len(output)
    <3> DEFINE X == Item
    <3>1. i \in 1..Len(output) /\ output \in Seq(X) /\ new \in X
      BY <1>1, <1>6, LenProperties
    <3> HIDE DEF X
    <3>2. /\ [output EXCEPT ![i] = new] \in Seq(X)
          /\ Len([output EXCEPT ![i] = new]) = Len(output)
      BY <3>1, ExceptSeq
    <3> QED
      BY <1>7, <3>2 DEF X
  <2>2. DOMAIN output' = DOMAIN output
    BY <1>7
  <2>3. output'[i] = new /\ \A j \in DOMAIN output : j # i => output'[j] = output[j]
    BY <1>1, <1>7
  <2> QED
    BY <2>1, <2>2, <2>3
<1>9. \A j \in DOMAIN output : output'[j].type = output[j].type
  BY <1>6, <1>8
<1>10. output'[i].pieces = Append(output[i].pieces, pieces + 1)
  BY <1>6, <1>8
<1>11. Len(output) \in Nat /\ DOMAIN output = 1..Len(output)
  BY <1>1
<1> QED
  BY <1>1, <1>3, <1>4, <1>5, <1>6, <1>8, <1>9, <1>10, <1>11

\* A text whose places are what they were is what it was.
LEMMA ArrivedSame ==
  ASSUME output \in Seq(Item), NEW type,
         Places(type)' = Places(type),
         \A place \in Places(type) :
           output'[place[1]].pieces[place[2]] = output[place[1]].pieces[place[2]]
  PROVE  Arrived(type)' = Arrived(type)
<1> DEFINE S == Places(type)
           f == InOrder(S, Earlier(S))
<1>1. S' = S /\ f' = f
  OBVIOUS
<1>2. \A r \in 1..Cardinality(S) : f[r] \in S
  BY PlacesTyped
<1>3. Arrived(type) = [r \in 1..Cardinality(S) |-> output[f[r][1]].pieces[f[r][2]]]
  BY DEF Arrived
<1>4. Arrived(type)' = [r \in 1..Cardinality(S') |-> output'[f'[r][1]].pieces[f'[r][2]]]
  BY DEF Arrived
<1>5. Arrived(type)' = [r \in 1..Cardinality(S) |-> output'[f[r][1]].pieces[f[r][2]]]
  BY <1>1, <1>4
<1>6. \A r \in 1..Cardinality(S) :
        output'[f[r][1]].pieces[f[r][2]] = output[f[r][1]].pieces[f[r][2]]
  BY <1>2
<1> HIDE DEF S, f
<1> QED
  BY <1>3, <1>5, <1>6

LEMMA Listing ==
  ASSUME NEW X, NEW k \in Nat, NEW h \in [1..k -> X]
  PROVE  h \in Seq(X) /\ Len(h) = k
<1>1. h = [r \in 1..k |-> h[r]] /\ \A r \in 1..k : h[r] \in X
  OBVIOUS
<1>2. [r \in 1..k |-> h[r]] \in Seq(X) /\ Len([r \in 1..k |-> h[r]]) = k
  BY <1>1
<1> QED
  BY <1>1, <1>2

LEMMA ArrivedTyped ==
  ASSUME output \in Seq(Item), NEW type
  PROVE  /\ Arrived(type) \in Seq(1..MaxPieces)
         /\ Len(Arrived(type)) = Cardinality(Places(type)) /\ Cardinality(Places(type)) \in Nat
<1> DEFINE S == Places(type)
           f == InOrder(S, Earlier(S))
<1>1. Cardinality(S) \in Nat /\ \A r \in 1..Cardinality(S) : f[r] \in S
  BY PlacesTyped
<1>2. \A place \in S : output[place[1]].pieces[place[2]] \in 1..MaxPieces
  <2> SUFFICES ASSUME NEW place \in S
               PROVE  output[place[1]].pieces[place[2]] \in 1..MaxPieces
    OBVIOUS
  <2>1. place[1] \in DOMAIN output /\ place[2] \in DOMAIN output[place[1]].pieces
    BY DEF Places
  <2>2. output[place[1]].pieces \in Seq(1..MaxPieces)
    BY <2>1, ItemAt
  <2> DEFINE s == output[place[1]].pieces
             p == place[2]
  <2>3. s \in Seq(1..MaxPieces) /\ p \in DOMAIN s
    BY <2>1, <2>2
  <2> HIDE DEF s, p
  <2>4. s[p] \in 1..MaxPieces
    BY <2>3, LenProperties, ElementOfSeq
  <2> QED
    BY <2>4 DEF s, p
<1>3. Arrived(type) = [r \in 1..Cardinality(S) |-> output[f[r][1]].pieces[f[r][2]]]
  BY DEF Arrived
<1> HIDE DEF S, f
<1>4. \A r \in 1..Cardinality(S) : output[f[r][1]].pieces[f[r][2]] \in 1..MaxPieces
  BY <1>1, <1>2
<1>5. Arrived(type) \in Seq(1..MaxPieces) /\ Len(Arrived(type)) = Cardinality(S)
  <2> DEFINE k == Cardinality(S)
             h == [r \in 1..k |-> output[f[r][1]].pieces[f[r][2]]]
  <2>1. k \in Nat /\ h \in [1..k -> 1..MaxPieces]
    BY <1>1, <1>4
  <2> HIDE DEF h
  <2>2. h \in Seq(1..MaxPieces) /\ Len(h) = k
    BY <2>1, Listing
  <2> QED
    BY <1>3, <2>2 DEF h
<1> QED
  BY <1>1, <1>5 DEF S

LEMMA ItemTexts ==
  ASSUME ChatTypeOK, ToolsInv, NEW type \in Kinds, AddItem(type), NEW text
  PROVE  Arrived(text)' = Arrived(text)
<1> DEFINE n == Len(output)
<1>1. /\ n \in Nat /\ DOMAIN output = 1..n /\ DOMAIN output' = 1..(n + 1)
      /\ output'[n + 1].pieces = <<>>
      /\ \A i \in DOMAIN output : output'[i] = output[i]
  BY ItemAdded
<1>2. output \in Seq(Item)
  BY DEF ChatTypeOK
<1> HIDE DEF n
<1>3. \A i : i \in 1..(n + 1) <=> i \in 1..n \/ i = n + 1
  BY <1>1
<1>4. DOMAIN output'[n + 1].pieces = {}
  BY <1>1
<1>5. ASSUME NEW place
      PROVE  (/\ place[1] \in DOMAIN output' /\ output'[place[1]].type = text
              /\ place[2] \in DOMAIN output'[place[1]].pieces)
             <=> (/\ place[1] \in DOMAIN output /\ output[place[1]].type = text
                  /\ place[2] \in DOMAIN output[place[1]].pieces)
  BY <1>1, <1>3, <1>4
<1>6. Places(text)' = Places(text)
  BY <1>5 DEF Places
<1>7. \A place \in Places(text) :
        output'[place[1]].pieces[place[2]] = output[place[1]].pieces[place[2]]
  BY <1>1 DEF Places
<1> QED
  BY <1>2, <1>6, <1>7, ArrivedSame

LEMMA PieceCalls ==
  ASSUME ChatTypeOK, ToolsInv, NEW i \in 1..MaxItems, Delta(i)
  PROVE  CallsMade' = CallsMade /\ Calls' = Calls
<1>1. CallsMade' = CallsMade
  BY PieceAdded DEF CallsMade
<1> QED
  BY <1>1 DEF Calls

\* A text goes on at its last piece, since upstream goes on with its last item.
LEMMA PieceTexts ==
  ASSUME ChatTypeOK, ToolsInv, NEW i \in 1..MaxItems, Delta(i),
         NEW text, text # "function_call"
  PROVE  /\ output[i].type = text => Arrived(text)' = Append(Arrived(text), pieces + 1)
         /\ output[i].type # text => Arrived(text)' = Arrived(text)
<1> DEFINE n == Len(output[i].pieces)
           x == <<i, n + 1>>
           S == Places(text)
<1>1. /\ output \in Seq(Item) /\ output' \in Seq(Item)
      /\ DOMAIN output = 1..Len(output) /\ DOMAIN output' = DOMAIN output
      /\ Len(output) \in Nat /\ i \in DOMAIN output
      /\ \A j \in DOMAIN output : output'[j].type = output[j].type
      /\ \A j \in DOMAIN output : j # i => output'[j] = output[j]
  BY PieceAdded DEF ChatTypeOK
<1>2. /\ output[i].pieces \in Seq(1..MaxPieces) /\ n \in Nat /\ n + 1 \in 1..MaxPieces
      /\ pieces + 1 \in 1..MaxPieces
      /\ output'[i].pieces = Append(output[i].pieces, pieces + 1)
  BY PieceAdded
<1>3. /\ DOMAIN output[i].pieces = 1..n /\ DOMAIN output'[i].pieces = 1..(n + 1)
      /\ output'[i].pieces[n + 1] = pieces + 1
      /\ \A p \in 1..n : output'[i].pieces[p] = output[i].pieces[p]
  <2> DEFINE old == output[i].pieces
             X == 1..MaxPieces
             e == pieces + 1
  <2>1. old \in Seq(X) /\ e \in X
    BY <1>2
  <2> HIDE DEF old, X, e
  <2>2. /\ DOMAIN old = 1..Len(old) /\ DOMAIN Append(old, e) = 1..(Len(old) + 1)
        /\ Append(old, e)[Len(old) + 1] = e /\ \A p \in 1..Len(old) : Append(old, e)[p] = old[p]
    BY <2>1, AppendProperties
  <2> QED
    BY <1>2, <2>2 DEF old, e
<1>4. CASE output[i].type # text
  <2>1. \A j \in DOMAIN output : output[j].type = text => j # i
    BY <1>4
  <2>2. Places(text)' = Places(text)
    BY <1>1, <2>1 DEF Places
  <2>3. \A place \in Places(text) :
          output'[place[1]].pieces[place[2]] = output[place[1]].pieces[place[2]]
    BY <1>1, <2>1 DEF Places
  <2> QED
    BY <1>1, <1>4, <2>2, <2>3, ArrivedSame
<1>5. CASE output[i].type = text
  <2>1. i = Len(output)
    <3>1. Open(i) /\ i \in Nat /\ Len(output) \in Nat /\ i <= Len(output)
      BY <1>1 DEF Delta
    <3>2. i \in i..Len(output)
      BY <3>1
    <3> QED
      BY <1>5, <3>1, <3>2 DEF Open
  <2> DEFINE T == S'
  <2>2. /\ x \in (1..MaxItems) \X (1..MaxPieces) /\ x[1] = i /\ x[2] = n + 1
    BY <1>2
  <2>3. x \notin S
    <3>1. n + 1 \notin 1..n
      BY <1>2
    <3> QED
      BY <1>3, <2>2, <3>1 DEF Places
  <2>4. T = S \cup {x}
    <3>1. \A p : p \in 1..(n + 1) <=> p \in 1..n \/ p = n + 1
      BY <1>2
    <3>2. ASSUME NEW place \in (1..MaxItems) \X (1..MaxPieces)
          PROVE  place \in T <=> place \in S \/ place = x
      <4>1. CASE place[1] # i
        BY <1>1, <2>2, <4>1 DEF Places
      <4>2. CASE place[1] = i
        <5>1. place \in S <=> place[2] \in 1..n
          BY <1>1, <1>3, <1>5, <4>2 DEF Places
        <5>2. place \in T <=> place[2] \in 1..(n + 1)
          BY <1>1, <1>3, <1>5, <4>2 DEF Places
        <5>3. place = x <=> place[2] = n + 1
          BY <4>2
        <5> QED
          BY <3>1, <5>1, <5>2, <5>3
      <4> QED
        BY <4>1, <4>2
    <3>3. /\ S \subseteq (1..MaxItems) \X (1..MaxPieces)
          /\ T \subseteq (1..MaxItems) \X (1..MaxPieces)
      BY DEF Places
    <3> HIDE DEF S, T, x
    <3> QED
      BY <2>2, <3>2, <3>3
  <2>5. Linear(S, Earlier(S)) /\ Cardinality(S) \in Nat
    BY <1>1, PlacesTyped
  <2>6. Linear(T, Earlier(T))
    <3>1. MaxItems \in Nat /\ MaxPieces \in Nat
      BY BoundsAssumption
    <3>2. T \in SUBSET ((1..MaxItems) \X (1..MaxPieces))
      BY DEF Places
    <3> HIDE DEF T
    <3> QED
      BY <3>1, <3>2, EarlierLinear
  <2>7. \A y, z \in S : <<y, z>> \in Earlier(S) <=> <<y, z>> \in Earlier(T)
    BY <2>4 DEF Earlier
  <2>8. ASSUME NEW y \in S
        PROVE  <<y, x>> \in Earlier(T)
    <3>1. <<y, x>> \in T \X T /\ <<y, x>>[1] = y /\ <<y, x>>[2] = x
      BY <2>4
    <3>2. y[1] \in 1..Len(output) /\ y[2] \in DOMAIN output[y[1]].pieces
      BY <1>1 DEF Places
    <3>3. y[1] < x[1] \/ (y[1] = x[1] /\ y[2] < x[2])
      <4>1. CASE y[1] = i
        <5>1. y[2] \in 1..n
          BY <1>3, <3>2, <4>1
        <5> QED
          BY <1>2, <2>2, <4>1, <5>1
      <4>2. CASE y[1] # i
        BY <1>1, <2>1, <2>2, <3>2, <4>2
      <4> QED
        BY <4>1, <4>2
    <3> QED
      BY <3>1, <3>3 DEF Earlier
  <2> DEFINE k == Cardinality(S)
             f == InOrder(S, Earlier(S))
             g == InOrder(T, Earlier(T))
  <2>9. OnTop(S, Earlier(S), x, T, Earlier(T))
    <3> HIDE DEF S, T, x
    <3> QED
      BY <2>3, <2>4, <2>5, <2>6, <2>7, <2>8 DEF OnTop
  <2>10. /\ Cardinality(T) = k + 1 /\ g[k + 1] = x
         /\ \A r \in 1..k : g[r] = f[r]
    <3> HIDE DEF S, T, x
    <3> QED
      BY <2>9, InOrderLonger
  <2>11. \A r \in 1..k : f[r] \in S
    BY <1>1, PlacesTyped
  <2>12. Arrived(text) \in Seq(1..MaxPieces) /\ Len(Arrived(text)) = k
    BY <1>1, ArrivedTyped
  <2>13. Arrived(text) = [r \in 1..k |-> output[f[r][1]].pieces[f[r][2]]]
    BY DEF Arrived
  <2>14. Arrived(text)' = [r \in 1..(k + 1) |-> output'[g[r][1]].pieces[g[r][2]]]
    <3>1. Arrived(text)' = [r \in 1..Cardinality(T) |-> output'[g[r][1]].pieces[g[r][2]]]
      BY DEF Arrived
    <3> HIDE DEF g, k, T
    <3> QED
      BY <2>10, <3>1
  <2>15. \A place \in S :
           output'[place[1]].pieces[place[2]] = output[place[1]].pieces[place[2]]
    <3> SUFFICES ASSUME NEW place \in S
                 PROVE  output'[place[1]].pieces[place[2]] = output[place[1]].pieces[place[2]]
      OBVIOUS
    <3>1. place[1] \in DOMAIN output /\ place[2] \in DOMAIN output[place[1]].pieces
      BY DEF Places
    <3>2. CASE place[1] # i
      BY <1>1, <3>1, <3>2
    <3>3. CASE place[1] = i
      <4>1. place[2] \in 1..n
        BY <1>3, <3>1, <3>3
      <4>2. output'[i].pieces[place[2]] = output[i].pieces[place[2]]
        BY <1>3, <4>1
      <4> QED
        BY <3>3, <4>2
    <3> QED
      BY <3>2, <3>3
  <2>16. output'[x[1]].pieces[x[2]] = pieces + 1
    BY <1>3, <2>2
  <2> HIDE DEF S, T, x, f, g, k, n
  <2>17. \A r \in 1..(k + 1) : r \in 1..k \/ r = k + 1
    BY <2>5 DEF k
  <2> DEFINE a == Arrived(text)
             b == Arrived(text)'
             e == pieces + 1
             X == 1..MaxPieces
  <2>18. a \in Seq(X) /\ e \in X /\ Len(a) = k /\ k \in Nat
    BY <1>2, <2>5, <2>12 DEF k
  <2>19. \A r \in 1..k : a[r] = output[f[r][1]].pieces[f[r][2]]
    BY <2>13
  <2>20. \A r \in 1..k : output'[g[r][1]].pieces[g[r][2]] = a[r]
    BY <2>10, <2>11, <2>15, <2>19
  <2>21. output'[g[k + 1][1]].pieces[g[k + 1][2]] = e
    BY <2>10, <2>16
  <2>22. DOMAIN b = 1..(k + 1) /\ \A r \in 1..k : b[r] = a[r]
    <3>1. \A r \in 1..k : r \in 1..(k + 1)
      BY <2>18
    <3> QED
      BY <2>14, <2>20, <3>1
  <2>23. b[k + 1] = e
    <3>1. k + 1 \in 1..(k + 1)
      BY <2>18
    <3> QED
      BY <2>14, <2>21, <3>1
  <2>24. b = [r \in 1..(k + 1) |-> b[r]]
    BY <2>14, <2>22
  <2> HIDE DEF a, b, e, X
  <2>25. b = Append(a, e)
    <3>1. /\ Append(a, e) \in Seq(X) /\ Len(Append(a, e)) = k + 1
          /\ Append(a, e)[k + 1] = e /\ \A r \in 1..k : Append(a, e)[r] = a[r]
      BY <2>18, AppendProperties
    <3>2. \A r \in 1..(k + 1) : b[r] = Append(a, e)[r]
      BY <2>17, <2>22, <2>23, <3>1
    <3>3. b \in Seq(X) /\ Len(b) = k + 1
      <4>1. \A r \in 1..k : a[r] \in X
        BY <2>18
      <4>2. \A r \in 1..(k + 1) : b[r] \in X
        BY <2>17, <2>18, <2>22, <2>23, <4>1
      <4>3. b \in [1..(k + 1) -> X] /\ k + 1 \in Nat
        BY <2>18, <2>24, <4>2
      <4> QED
        BY <4>3, Listing
    <3> QED
      BY <3>1, <3>2, <3>3, SeqEqual
  <2> QED
    BY <1>5, <2>25 DEF a, b, e
<1> QED
  BY <1>4, <1>5

\* The pieces are numbered as they come, and only reasoning has a summary.
NumbersInv ==
  /\ \A i \in DOMAIN output : output[i].type # "reasoning" => output[i].summary = {}
  /\ \A i \in DOMAIN output : \A k \in DOMAIN output[i].pieces :
       output[i].pieces[k] \in 1..pieces
  /\ \A i \in DOMAIN output : \A k, l \in DOMAIN output[i].pieces :
       k < l => output[i].pieces[k] < output[i].pieces[l]
  /\ \A i, j \in DOMAIN output :
       i # j => \A k \in DOMAIN output[i].pieces, l \in DOMAIN output[j].pieces :
                  output[i].pieces[k] # output[j].pieces[l]

LEMMA NumbersItem ==
  ASSUME ChatTypeOK, ToolsInv, NumbersInv, NEW type \in Kinds, AddItem(type)
  PROVE  NumbersInv'
<1> DEFINE n == Len(output)
<1>1. /\ n \in Nat /\ DOMAIN output = 1..n /\ DOMAIN output' = 1..(n + 1)
      /\ output'[n + 1].pieces = <<>> /\ output'[n + 1].summary = {}
      /\ \A i \in DOMAIN output : output'[i] = output[i]
  BY ItemAdded
<1>2. pieces' = pieces /\ DOMAIN output'[n + 1].pieces = {}
  BY <1>1 DEF AddItem
<1> HIDE DEF n
<1>3. \A i \in DOMAIN output' : i \in DOMAIN output \/ i = n + 1
  BY <1>1
<1>4. \A i \in DOMAIN output' : output'[i].type # "reasoning" => output'[i].summary = {}
  BY <1>1, <1>3 DEF NumbersInv
<1>5. \A i \in DOMAIN output' : \A k \in DOMAIN output'[i].pieces :
        output'[i].pieces[k] \in 1..pieces'
  BY <1>1, <1>2, <1>3 DEF NumbersInv
<1>6. \A i \in DOMAIN output' : \A k, l \in DOMAIN output'[i].pieces :
        k < l => output'[i].pieces[k] < output'[i].pieces[l]
  BY <1>1, <1>2, <1>3 DEF NumbersInv
<1>7. \A i, j \in DOMAIN output' :
        i # j => \A k \in DOMAIN output'[i].pieces, l \in DOMAIN output'[j].pieces :
                   output'[i].pieces[k] # output'[j].pieces[l]
  BY <1>1, <1>2, <1>3 DEF NumbersInv
<1> QED
  BY <1>4, <1>5, <1>6, <1>7 DEF NumbersInv

LEMMA NumbersPiece ==
  ASSUME ChatTypeOK, ToolsInv, NumbersInv, NEW i \in 1..MaxItems, Delta(i)
  PROVE  NumbersInv'
<1> DEFINE old == output[i].pieces
           new == output'[i].pieces
           n == Len(old)
<1>1. /\ DOMAIN output' = DOMAIN output /\ i \in DOMAIN output
      /\ \A j \in DOMAIN output : output'[j].type = output[j].type
      /\ \A j \in DOMAIN output : j # i => output'[j] = output[j]
      /\ old \in Seq(1..MaxPieces) /\ n \in Nat /\ pieces + 1 \in 1..MaxPieces
      /\ new = Append(old, pieces + 1)
      /\ output[i].type # "reasoning" => output'[i].summary = output[i].summary
  BY PieceAdded
<1>2. pieces \in Nat /\ pieces' = pieces + 1
  BY DEF ChatTypeOK, Delta
<1>3. /\ DOMAIN old = 1..n /\ DOMAIN new = 1..(n + 1) /\ new[n + 1] = pieces + 1
      /\ \A k \in 1..n : new[k] = old[k]
  <2> DEFINE X == 1..MaxPieces
             e == pieces + 1
  <2>1. old \in Seq(X) /\ e \in X /\ new = Append(old, e)
    BY <1>1
  <2> HIDE DEF old, new, X, e, n
  <2>2. /\ DOMAIN old = 1..Len(old) /\ DOMAIN Append(old, e) = 1..(Len(old) + 1)
        /\ Append(old, e)[Len(old) + 1] = e
        /\ \A p \in 1..Len(old) : Append(old, e)[p] = old[p]
    BY <2>1, AppendProperties
  <2> QED
    BY <2>1, <2>2 DEF e, n
<1>4. /\ \A k \in 1..n : old[k] \in 1..pieces
      /\ \A k, l \in 1..n : k < l => old[k] < old[l]
      /\ \A j \in DOMAIN output : j # i =>
           \A k \in 1..n, l \in DOMAIN output[j].pieces : old[k] # output[j].pieces[l]
      /\ \A j \in DOMAIN output : \A l \in DOMAIN output[j].pieces :
           output[j].pieces[l] \in 1..pieces
  BY <1>1, <1>3 DEF NumbersInv
<1>5. \A j \in DOMAIN output' : output'[j].type # "reasoning" => output'[j].summary = {}
  BY <1>1 DEF NumbersInv
<1> HIDE DEF old, new, n
<1>6. \A k \in 1..(n + 1) : k \in 1..n \/ k = n + 1
  BY <1>1
<1>7. \A k \in 1..(n + 1) : new[k] \in 1..(pieces + 1)
  <2>1. \A p \in 1..pieces : p \in 1..(pieces + 1)
    BY <1>2
  <2>2. pieces + 1 \in 1..(pieces + 1)
    BY <1>2
  <2> QED
    BY <1>3, <1>4, <1>6, <2>1, <2>2
<1>8. \A k, l \in 1..(n + 1) : k < l => new[k] < new[l]
  <2> SUFFICES ASSUME NEW k \in 1..(n + 1), NEW l \in 1..(n + 1), k < l
               PROVE  new[k] < new[l]
    OBVIOUS
  <2>1. k \in 1..n
    BY <1>1
  <2>2. CASE l \in 1..n
    BY <1>3, <1>4, <2>1, <2>2
  <2>3. CASE l = n + 1
    <3>1. old[k] \in 1..pieces
      BY <1>4, <2>1
    <3>2. old[k] < pieces + 1
      BY <1>2, <3>1
    <3> QED
      BY <1>3, <2>1, <2>3, <3>2
  <2> QED
    BY <1>6, <2>2, <2>3
<1>9. \A j \in DOMAIN output : j # i =>
        \A k \in 1..(n + 1), l \in DOMAIN output[j].pieces : new[k] # output[j].pieces[l]
  <2> SUFFICES ASSUME NEW j \in DOMAIN output, j # i, NEW k \in 1..(n + 1),
                      NEW l \in DOMAIN output[j].pieces
               PROVE  new[k] # output[j].pieces[l]
    OBVIOUS
  <2>1. CASE k \in 1..n
    BY <1>3, <1>4, <2>1
  <2>2. CASE k = n + 1
    <3>1. output[j].pieces[l] \in 1..pieces
      BY <1>4
    <3>2. output[j].pieces[l] # pieces + 1
      BY <1>2, <3>1
    <3> QED
      BY <1>3, <2>2, <3>2
  <2> QED
    BY <1>6, <2>1, <2>2
<1>10. output'[i].pieces = new
  BY DEF new
<1>11. \A j \in DOMAIN output' : \A k \in DOMAIN output'[j].pieces :
         output'[j].pieces[k] \in 1..pieces'
  <2>1. ASSUME NEW j \in DOMAIN output, j # i, NEW k \in DOMAIN output[j].pieces
        PROVE  output[j].pieces[k] \in 1..(pieces + 1)
    <3>1. output[j].pieces[k] \in 1..pieces
      BY <1>4
    <3> QED
      BY <1>2, <3>1
  <2> QED
    BY <1>1, <1>2, <1>3, <1>7, <1>10, <2>1
<1>12. \A j \in DOMAIN output' : \A k, l \in DOMAIN output'[j].pieces :
         k < l => output'[j].pieces[k] < output'[j].pieces[l]
  <2>1. \A j \in DOMAIN output : j # i => \A k, l \in DOMAIN output[j].pieces :
          k < l => output[j].pieces[k] < output[j].pieces[l]
    BY DEF NumbersInv
  <2> QED
    BY <1>1, <1>3, <1>8, <1>10, <2>1
<1>13. ASSUME NEW a \in DOMAIN output', NEW b \in DOMAIN output', a # b,
              NEW k \in DOMAIN output'[a].pieces, NEW l \in DOMAIN output'[b].pieces
       PROVE  output'[a].pieces[k] # output'[b].pieces[l]
  <2>1. CASE a = i
    BY <1>1, <1>3, <1>9, <1>10, <1>13, <2>1
  <2>2. CASE b = i
    BY <1>1, <1>3, <1>9, <1>10, <1>13, <2>2
  <2>3. CASE a # i /\ b # i
    BY <1>1, <1>13, <2>3 DEF NumbersInv
  <2> QED
    BY <2>1, <2>2, <2>3
<1> QED
  BY <1>5, <1>11, <1>12, <1>13 DEF NumbersInv

LEMMA NumbersStep ==
  ASSUME ChatTypeOK, ToolsInv, NumbersInv, [ChatNext]_chatVars
  PROVE  NumbersInv'
<1>1. CASE \E type \in Kinds : AddItem(type)
  BY <1>1, NumbersItem
<1>2. CASE \E i \in 1..MaxItems : Delta(i)
  BY <1>2, NumbersPiece
<1>3. CASE UNCHANGED <<output, pieces>>
  BY <1>3 DEF NumbersInv
<1>4. \/ \E type \in Kinds : AddItem(type)
      \/ \E i \in 1..MaxItems : Delta(i)
      \/ UNCHANGED <<output, pieces>>
  BY DEF ChatNext, chatVars, upstream, Created, Complete, FailUpstream, EOF, Break, HangUp
<1> QED
  BY <1>1, <1>2, <1>3, <1>4

\* What is written.
ChunkType ==
  [kind : Kinds \cup {"role", "tool", "arguments", "usage", "error", "DONE"},
   index : Indices, piece : 0..(MaxItems + MaxPieces) \cup {None}]
    \cup [kind : {"finish"}, index : {None}, piece : {"stop", "tool_calls"}]

OutInv == out \in Seq(ChunkType)

\* The chunks with the role before what comes next.
WithRole == IF roleSent THEN out ELSE Append(out, Plain("role"))

LEMMA ChunksTyped ==
  /\ \A kind \in {"role", "usage", "error", "DONE"} :
       Plain(kind) \in ChunkType /\ Plain(kind).kind = kind /\ Plain(kind).index \in Indices
  /\ \A piece \in {"stop", "tool_calls"} :
       /\ Chunk("finish", None, piece) \in ChunkType
       /\ Chunk("finish", None, piece).kind = "finish"
       /\ Chunk("finish", None, piece).piece = piece
       /\ Chunk("finish", None, piece).index \in Indices
  /\ \A kind \in Texts \cup {"tool", "arguments"}, index \in Indices,
        piece \in (1..MaxItems) \cup (1..MaxPieces) :
       /\ Chunk(kind, index, piece) \in ChunkType
       /\ Chunk(kind, index, piece).kind = kind
       /\ Chunk(kind, index, piece).index = index
       /\ Chunk(kind, index, piece).piece = piece
<1>1. None \in Indices
  BY DEF Indices
<1>2. MaxItems \in Nat /\ MaxPieces \in Nat
  BY BoundsAssumption
<1>3. \A piece \in (1..MaxItems) \cup (1..MaxPieces) : piece \in 0..(MaxItems + MaxPieces)
  BY <1>2
<1>4. \A kind \in {"role", "usage", "error", "DONE"} :
        Plain(kind) \in ChunkType /\ Plain(kind).kind = kind /\ Plain(kind).index \in Indices
  BY <1>1 DEF ChunkType, Plain, Chunk
<1>5. \A piece \in {"stop", "tool_calls"} :
        /\ Chunk("finish", None, piece) \in ChunkType
        /\ Chunk("finish", None, piece).kind = "finish"
        /\ Chunk("finish", None, piece).piece = piece
        /\ Chunk("finish", None, piece).index \in Indices
  BY <1>1 DEF ChunkType, Chunk
<1>6. \A kind \in Texts \cup {"tool", "arguments"}, index \in Indices,
         piece \in (1..MaxItems) \cup (1..MaxPieces) :
        /\ Chunk(kind, index, piece) \in ChunkType
        /\ Chunk(kind, index, piece).kind = kind
        /\ Chunk(kind, index, piece).index = index
        /\ Chunk(kind, index, piece).piece = piece
  BY <1>3 DEF ChunkType, Chunk, Texts, Kinds
<1> QED
  BY <1>4, <1>5, <1>6

LEMMA AppendJoins ==
  ASSUME NEW X, NEW s \in Seq(X), NEW x \in X
  PROVE  /\ Append(s, x) \in Seq(X) /\ Len(Append(s, x)) = Len(s) + 1
         /\ DOMAIN s = 1..Len(s) /\ DOMAIN Append(s, x) = 1..(Len(s) + 1) /\ Len(s) \in Nat
         /\ Append(s, x)[Len(s) + 1] = x /\ \A i \in 1..Len(s) : Append(s, x)[i] = s[i]
         /\ s \o <<x>> = Append(s, x) /\ s \o <<>> = s
BY AppendProperties, AppendIsConcat, ConcatEmptySeq

LEMMA RoleWritten ==
  ASSUME OutInv
  PROVE  /\ WithRole \in Seq(ChunkType)
         /\ \A kind, indices :
              kind # "role" => Select(WithRole, kind, indices) = Select(out, kind, indices)
         /\ \A chunks \in Seq(ChunkType) : out \o (Role \o chunks) = WithRole \o chunks
<1> DEFINE role == Plain("role")
           X == ChunkType
<1>1. role \in X /\ role.kind = "role"
  BY ChunksTyped
<1>2. out \in Seq(X)
  BY DEF OutInv
<1> HIDE DEF role, X
<1>3. CASE roleSent
  <2>1. WithRole = out /\ Role = <<>>
    BY <1>3 DEF WithRole, Role
  <2>2. \A chunks \in Seq(X) : <<>> \o chunks = chunks
    BY ConcatEmptySeq
  <2> QED
    BY <1>2, <2>1, <2>2 DEF X
<1>4. CASE ~roleSent
  <2>1. WithRole = Append(out, role) /\ Role = <<role>>
    BY <1>4 DEF WithRole, Role, role
  <2>2. Append(out, role) \in Seq(X) /\ out \o <<role>> = Append(out, role) /\ <<role>> \in Seq(X)
    BY <1>1, <1>2, AppendJoins
  <2>3. \A kind, indices :
          kind # "role" => Select(Append(out, role), kind, indices) = Select(out, kind, indices)
    BY <1>1, <1>2, SelectLonger
  <2>4. \A chunks \in Seq(X) : out \o (<<role>> \o chunks) = (out \o <<role>>) \o chunks
    BY <1>2, <2>2, ConcatAssociative
  <2> QED
    BY <2>1, <2>2, <2>3, <2>4 DEF X
<1> QED
  BY <1>3, <1>4

LEMMA Wrote ==
  ASSUME OutInv, client = "writing", NEW chunk \in ChunkType
  PROVE  /\ Write(<<chunk>>) => out' = Append(out, chunk)
         /\ WriteWithRole(<<chunk>>) => out' = Append(WithRole, chunk) /\ roleSent' = TRUE
<1>1. out \in Seq(ChunkType) /\ WithRole \in Seq(ChunkType) /\ <<chunk>> \in Seq(ChunkType)
  BY RoleWritten DEF OutInv
<1>2. out \o <<chunk>> = Append(out, chunk) /\ WithRole \o <<chunk>> = Append(WithRole, chunk)
  BY <1>1, AppendJoins
<1>3. out \o (Role \o <<chunk>>) = WithRole \o <<chunk>>
  BY <1>1, RoleWritten
<1> QED
  BY <1>2, <1>3 DEF Write, WriteWithRole

\* What is read from the pieces of one chunk more.
LEMMA PiecesLonger ==
  ASSUME NEW X, NEW chunks \in Seq(X), NEW x \in X
  PROVE  Pieces(Append(chunks, x)) = Append(Pieces(chunks), x.piece)
<1> DEFINE n == Len(chunks)
           Y == {c.piece : c \in X}
           a == Pieces(chunks)
           b == Pieces(Append(chunks, x))
<1>1. /\ n \in Nat /\ DOMAIN chunks = 1..n /\ DOMAIN Append(chunks, x) = 1..(n + 1)
      /\ Append(chunks, x)[n + 1] = x /\ \A i \in 1..n : Append(chunks, x)[i] = chunks[i]
  BY AppendJoins
<1>2. x.piece \in Y /\ \A i \in 1..n : chunks[i].piece \in Y
  BY <1>1
<1> HIDE DEF n, Y
<1>3. a = [i \in 1..n |-> chunks[i].piece] /\ b = [i \in 1..(n + 1) |-> Append(chunks, x)[i].piece]
  BY <1>1 DEF Pieces
<1>4. \A i \in 1..(n + 1) : i \in 1..n \/ i = n + 1
  BY <1>1
<1>5. a \in [1..n -> Y]
  BY <1>2, <1>3
<1>6. b \in [1..(n + 1) -> Y]
  BY <1>1, <1>2, <1>3, <1>4
<1> HIDE DEF a, b
<1>7. a \in Seq(Y) /\ Len(a) = n
  BY <1>1, <1>5, Listing
<1>8. b \in Seq(Y) /\ Len(b) = n + 1
  BY <1>1, <1>6, Listing
<1>9. /\ Append(a, x.piece) \in Seq(Y) /\ Len(Append(a, x.piece)) = n + 1
      /\ Append(a, x.piece)[n + 1] = x.piece /\ \A i \in 1..n : Append(a, x.piece)[i] = a[i]
  BY <1>2, <1>7, AppendJoins
<1>10. \A i \in 1..(n + 1) : b[i] = Append(a, x.piece)[i]
  <2>1. \A i \in 1..n : i \in 1..(n + 1)
    BY <1>1
  <2>2. n + 1 \in 1..(n + 1)
    BY <1>1
  <2>3. b[n + 1] = x.piece
    BY <1>1, <1>3, <2>2
  <2>4. \A i \in 1..n : b[i] = a[i]
    BY <1>1, <1>3, <2>1
  <2> QED
    BY <1>4, <1>9, <2>3, <2>4
<1>11. b = Append(a, x.piece)
  BY <1>8, <1>9, <1>10, SeqEqual
<1> QED
  BY <1>11 DEF a, b

Closing == {"usage", "error", "DONE"}

LEMMA CreatedOut ==
  ASSUME OutInv, client = "writing", Created
  PROVE  out' = WithRole
<1>1. WithRole \in Seq(ChunkType)
  BY RoleWritten
<1>2. <<>> \in Seq(ChunkType) /\ WithRole \o <<>> = WithRole
  BY <1>1, ConcatEmptySeq
<1>3. out \o (Role \o <<>>) = WithRole
  BY <1>2, RoleWritten
<1> QED
  BY <1>3 DEF Created, WriteWithRole, Write

\* What Complete writes, chunk by chunk.
Finished == Append(WithRole, Chunk("finish", None, Finish))

Counted == IF includeUsage THEN Append(Finished, Plain("usage")) ELSE Finished

LEMMA CompleteOut ==
  ASSUME OutInv, client = "writing", Complete
  PROVE  /\ out' = Append(Counted, Plain("DONE"))
         /\ Finished \in Seq(ChunkType) /\ Counted \in Seq(ChunkType)
<1> DEFINE X == ChunkType
           F == Chunk("finish", None, Finish)
           U == Plain("usage")
           D == Plain("DONE")
           usage == IF includeUsage THEN <<U>> ELSE <<>>
           W == WithRole
<1>1. F \in X /\ U \in X /\ D \in X /\ W \in Seq(X)
  <2>1. Finish \in {"stop", "tool_calls"}
    BY DEF Finish
  <2>2. "usage" \in {"role", "usage", "error", "DONE"} /\ "DONE" \in {"role", "usage", "error", "DONE"}
    OBVIOUS
  <2> QED
    BY <2>1, <2>2, ChunksTyped, RoleWritten
<1>2. out' = out \o (Role \o ((<<F>> \o usage) \o <<D>>))
  BY DEF Complete, WriteWithRole, Write
<1>3. \A chunks \in Seq(X) : out \o (Role \o chunks) = W \o chunks
  BY RoleWritten
<1>4. /\ Finished = Append(W, F)
      /\ Counted = IF includeUsage THEN Append(Finished, U) ELSE Finished
  BY DEF Finished, Counted
<1> HIDE DEF X, F, U, D, W
<1>5. <<F>> \in Seq(X) /\ usage \in Seq(X) /\ <<D>> \in Seq(X)
  BY <1>1
<1> HIDE DEF usage
<1>6. (<<F>> \o usage) \in Seq(X) /\ (<<F>> \o usage) \o <<D>> \in Seq(X)
  BY <1>5, ConcatProperties
<1>7. /\ W \o ((<<F>> \o usage) \o <<D>>) = (W \o (<<F>> \o usage)) \o <<D>>
      /\ W \o (<<F>> \o usage) = (W \o <<F>>) \o usage
  BY <1>1, <1>5, <1>6, ConcatAssociative
<1>8. W \o <<F>> = Finished /\ Finished \in Seq(X)
  BY <1>1, <1>4, AppendJoins
<1>9. Finished \o usage = Counted /\ Counted \in Seq(X)
  BY <1>1, <1>4, <1>8, AppendJoins DEF usage
<1>10. Counted \o <<D>> = Append(Counted, D)
  BY <1>1, <1>9, AppendJoins
<1>11. out' = Append(Counted, D)
  BY <1>2, <1>3, <1>6, <1>7, <1>8, <1>9, <1>10
<1> QED
  BY <1>8, <1>9, <1>11 DEF X, D

LEMMA FailOut ==
  ASSUME OutInv, client = "writing", FailUpstream
  PROVE  /\ out' = Append(Append(out, Plain("error")), Plain("DONE"))
         /\ Append(out, Plain("error")) \in Seq(ChunkType)
<1> DEFINE X == ChunkType
           E == Plain("error")
           D == Plain("DONE")
<1>1. out \in Seq(X) /\ E \in X /\ D \in X
  BY ChunksTyped DEF OutInv
<1>2. out' = out \o <<E, D>>
  BY DEF FailUpstream, Write
<1> HIDE DEF X, E, D
<1>3. <<E>> \in Seq(X) /\ <<D>> \in Seq(X) /\ <<E, D>> = <<E>> \o <<D>>
  <2>1. <<E>> \in Seq(X) /\ <<D>> \in Seq(X)
    BY <1>1
  <2>2. <<E>> \o <<D>> = Append(<<E>>, D)
    BY <1>1, <2>1, AppendJoins
  <2>3. Append(<<E>>, D) = <<E, D>>
    <3>1. /\ Append(<<E>>, D) \in Seq(X) /\ Len(Append(<<E>>, D)) = 2
          /\ Append(<<E>>, D)[1] = E /\ Append(<<E>>, D)[2] = D
      BY <1>1, <2>1, AppendProperties
    <3>2. /\ <<E, D>> \in Seq(X) /\ Len(<<E, D>>) = 2
          /\ <<E, D>>[1] = E /\ <<E, D>>[2] = D
      BY <1>1
    <3>3. \A i \in 1..2 : i = 1 \/ i = 2
      OBVIOUS
    <3>4. \A i \in 1..2 : Append(<<E>>, D)[i] = <<E, D>>[i]
      BY <3>1, <3>2, <3>3
    <3> QED
      BY <3>1, <3>2, <3>4, SeqEqual
  <2> QED
    BY <2>1, <2>2, <2>3
<1>4. out \o (<<E>> \o <<D>>) = (out \o <<E>>) \o <<D>>
  BY <1>1, <1>3, ConcatAssociative
<1>5. out \o <<E>> = Append(out, E) /\ Append(out, E) \in Seq(X)
  BY <1>1, AppendJoins
<1>6. Append(out, E) \o <<D>> = Append(Append(out, E), D)
  BY <1>1, <1>5, AppendJoins
<1> QED
  BY <1>2, <1>3, <1>4, <1>5, <1>6 DEF X, E, D

LEMMA EOFOut ==
  ASSUME OutInv, client = "writing", EOF
  PROVE  out' = IF terminalSent THEN out ELSE Append(out, Plain("DONE"))
<1>1. out \in Seq(ChunkType) /\ Plain("DONE") \in ChunkType
  BY ChunksTyped DEF OutInv
<1>2. out \o <<>> = out /\ out \o <<Plain("DONE")>> = Append(out, Plain("DONE"))
  BY <1>1, AppendJoins
<1> QED
  BY <1>2 DEF EOF, Write

\* A chunk that is selected, or not, from sequences of chunks.
LEMMA ViewLonger ==
  ASSUME NEW chunks \in Seq(ChunkType), NEW x \in ChunkType, NEW kind, NEW indices
  PROVE  /\ Append(chunks, x) \in Seq(ChunkType)
         /\ x.kind = kind /\ x.index \in indices =>
              Select(Append(chunks, x), kind, indices) = Append(Select(chunks, kind, indices), x)
         /\ x.kind # kind \/ x.index \notin indices =>
              Select(Append(chunks, x), kind, indices) = Select(chunks, kind, indices)
BY SelectLonger, AppendJoins

LEMMA ClosingViews ==
  ASSUME NEW chunks \in Seq(ChunkType), NEW end \in Closing, NEW kind, kind \notin Closing,
         NEW indices
  PROVE  /\ Append(chunks, Plain(end)) \in Seq(ChunkType)
         /\ Select(Append(chunks, Plain(end)), kind, indices) = Select(chunks, kind, indices)
<1>1. Plain(end) \in ChunkType /\ Plain(end).kind = end
  BY ChunksTyped DEF Closing
<1>2. end # kind
  OBVIOUS
<1> QED
  BY <1>1, <1>2, ViewLonger

\* What each action makes of what is selected.
LEMMA CompleteViews ==
  ASSUME OutInv, client = "writing", Complete, NEW kind, kind \notin Closing \cup {"role"},
         NEW indices
  PROVE  /\ out' \in Seq(ChunkType)
         /\ kind # "finish" => Select(out', kind, indices) = Select(out, kind, indices)
         /\ Of("finish")' = Append(Of("finish"), Chunk("finish", None, Finish))
<1> DEFINE F == Chunk("finish", None, Finish)
<1>1. F \in ChunkType /\ F.kind = "finish" /\ F.index \in Indices
  <2>1. Finish \in {"stop", "tool_calls"}
    BY DEF Finish
  <2> QED
    BY <2>1, ChunksTyped
<1>2. Finished = Append(WithRole, F) /\ WithRole \in Seq(ChunkType)
  BY RoleWritten DEF Finished
<1> HIDE DEF F
<1>3. Finished \in Seq(ChunkType)
  BY <1>1, <1>2, ViewLonger
<1>4. ASSUME NEW k, NEW I, k \notin Closing
      PROVE  Counted \in Seq(ChunkType) /\ Select(Counted, k, I) = Select(Finished, k, I)
  <2>1. "usage" \in Closing
    BY DEF Closing
  <2>2. /\ Append(Finished, Plain("usage")) \in Seq(ChunkType)
        /\ Select(Append(Finished, Plain("usage")), k, I) = Select(Finished, k, I)
    BY <1>3, <1>4, <2>1, ClosingViews
  <2> QED
    BY <1>3, <2>2 DEF Counted
<1>5. ASSUME NEW k, NEW I, k \notin Closing
      PROVE  out' \in Seq(ChunkType) /\ Select(out', k, I) = Select(Finished, k, I)
  <2>1. "DONE" \in Closing /\ out' = Append(Counted, Plain("DONE"))
    BY CompleteOut DEF Closing
  <2>2. Counted \in Seq(ChunkType) /\ Select(Counted, k, I) = Select(Finished, k, I)
    BY <1>4, <1>5
  <2>3. /\ Append(Counted, Plain("DONE")) \in Seq(ChunkType)
        /\ Select(Append(Counted, Plain("DONE")), k, I) = Select(Counted, k, I)
    BY <1>5, <2>1, <2>2, ClosingViews
  <2> QED
    BY <2>1, <2>2, <2>3
<1>6. kind # "finish" => Select(Finished, kind, indices) = Select(out, kind, indices)
  <2>1. kind # "finish" => Select(Finished, kind, indices) = Select(WithRole, kind, indices)
    BY <1>1, <1>2, ViewLonger
  <2>2. Select(WithRole, kind, indices) = Select(out, kind, indices)
    BY RoleWritten
  <2> QED
    BY <2>1, <2>2
<1>7. Select(out', "finish", Indices) = Append(Select(out, "finish", Indices), F)
  <2>1. "finish" \notin Closing
    BY DEF Closing
  <2>2. Select(out', "finish", Indices) = Select(Finished, "finish", Indices)
    BY <1>5, <2>1
  <2>3. Select(Finished, "finish", Indices) = Append(Select(WithRole, "finish", Indices), F)
    BY <1>1, <1>2, ViewLonger
  <2>4. Select(WithRole, "finish", Indices) = Select(out, "finish", Indices)
    BY RoleWritten
  <2> QED
    BY <2>2, <2>3, <2>4
<1>8. Of("finish")' = Select(out', "finish", Indices) /\ Of("finish") = Select(out, "finish", Indices)
  BY DEF Of, Indices
<1> QED
  BY <1>5, <1>6, <1>7, <1>8 DEF F

LEMMA FailViews ==
  ASSUME OutInv, client = "writing", FailUpstream, NEW kind, kind \notin Closing, NEW indices
  PROVE  out' \in Seq(ChunkType) /\ Select(out', kind, indices) = Select(out, kind, indices)
<1> DEFINE told == Append(out, Plain("error"))
<1>1. /\ out' = Append(told, Plain("DONE"))
      /\ "error" \in Closing /\ "DONE" \in Closing /\ out \in Seq(ChunkType)
  BY FailOut DEF Closing, OutInv
<1>2. told \in Seq(ChunkType) /\ Select(told, kind, indices) = Select(out, kind, indices)
  BY <1>1, ClosingViews
<1> HIDE DEF told
<1>3. /\ Append(told, Plain("DONE")) \in Seq(ChunkType)
      /\ Select(Append(told, Plain("DONE")), kind, indices) = Select(told, kind, indices)
  BY <1>1, <1>2, ClosingViews
<1> QED
  BY <1>1, <1>2, <1>3

LEMMA EOFViews ==
  ASSUME OutInv, client = "writing", EOF, NEW kind, kind \notin Closing, NEW indices
  PROVE  out' \in Seq(ChunkType) /\ Select(out', kind, indices) = Select(out, kind, indices)
<1>1. "DONE" \in Closing /\ out \in Seq(ChunkType)
  BY DEF Closing, OutInv
<1>2. /\ Append(out, Plain("DONE")) \in Seq(ChunkType)
      /\ Select(Append(out, Plain("DONE")), kind, indices) = Select(out, kind, indices)
  BY <1>1, ClosingViews
<1> QED
  BY <1>1, <1>2, EOFOut

LEMMA CreatedViews ==
  ASSUME OutInv, client = "writing", Created, NEW kind, kind # "role", NEW indices
  PROVE  out' \in Seq(ChunkType) /\ Select(out', kind, indices) = Select(out, kind, indices)
BY CreatedOut, RoleWritten

LEMMA CallChunk ==
  ASSUME NEW kind \in {"tool", "arguments"}, NEW index \in Indices,
         NEW piece \in (1..MaxItems) \cup (1..MaxPieces)
  PROVE  /\ Chunk(kind, index, piece) \in ChunkType
         /\ Chunk(kind, index, piece).kind = kind
         /\ Chunk(kind, index, piece).index = index
         /\ Chunk(kind, index, piece).piece = piece
<1>1. kind \in Texts \cup {"tool", "arguments"}
  OBVIOUS
<1> QED
  BY <1>1, ChunksTyped

LEMMA CallViews ==
  ASSUME ChatTypeOK, ToolsInv, OutInv, client = "writing", AddItem("function_call"),
         NEW kind, kind # "role", NEW indices
  PROVE  LET call == Chunk("tool", nextTool, Len(output) + 1)
         IN  /\ out' = Append(WithRole, call) /\ roleSent' = TRUE /\ out' \in Seq(ChunkType)
             /\ call \in ChunkType /\ call.kind = "tool" /\ call.index = nextTool
             /\ call.piece = Len(output) + 1 /\ nextTool \in Indices
             /\ kind = "tool" /\ nextTool \in indices =>
                  Select(out', kind, indices) = Append(Select(out, kind, indices), call)
             /\ kind # "tool" \/ nextTool \notin indices =>
                  Select(out', kind, indices) = Select(out, kind, indices)
<1> DEFINE call == Chunk("tool", nextTool, Len(output) + 1)
<1>1. /\ call \in ChunkType /\ call.kind = "tool" /\ call.index = nextTool
      /\ call.piece = Len(output) + 1 /\ nextTool \in Indices
  <2>1. nextTool \in Indices
    BY DEF Indices, ChatTypeOK
  <2>2. Len(output) + 1 \in 1..MaxItems
    <3>1. Len(output) \in Nat /\ Len(output) < MaxItems /\ MaxItems \in Nat
      BY BoundsAssumption, ItemAdded DEF AddItem, Kinds
    <3> QED
      BY <3>1
  <2> DEFINE place == Len(output) + 1
  <2>3. /\ "tool" \in {"tool", "arguments"}
        /\ place \in (1..MaxItems) \cup (1..MaxPieces)
    BY <2>2
  <2> HIDE DEF place
  <2>4. LET c == Chunk("tool", nextTool, place)
        IN  c \in ChunkType /\ c.kind = "tool" /\ c.index = nextTool /\ c.piece = place
    BY <2>1, <2>3, CallChunk
  <2> QED
    BY <2>1, <2>4 DEF place
<1>2. ToolIndex(Len(output) + 1) = nextTool
  <2>1. "function_call" \in Kinds
    BY DEF Kinds
  <2>2. Len(output) + 1 \notin DOMAIN tools
    BY <2>1, ItemCalls DEF ToolsInv
  <2> QED
    BY <2>2 DEF ToolIndex
<1>3. WriteWithRole(<<call>>)
  BY <1>2 DEF AddItem
<1> HIDE DEF call
<1>4. out' = Append(WithRole, call) /\ roleSent' = TRUE
  BY <1>1, <1>3, Wrote
<1>5. WithRole \in Seq(ChunkType) /\ Select(WithRole, kind, indices) = Select(out, kind, indices)
  BY RoleWritten
<1>6. /\ Append(WithRole, call) \in Seq(ChunkType)
      /\ kind = "tool" /\ nextTool \in indices =>
           Select(Append(WithRole, call), kind, indices) = Append(Select(WithRole, kind, indices), call)
      /\ kind # "tool" \/ nextTool \notin indices =>
           Select(Append(WithRole, call), kind, indices) = Select(WithRole, kind, indices)
  BY <1>1, <1>5, ViewLonger
<1> QED
  BY <1>1, <1>4, <1>5, <1>6 DEF call

LEMMA ArgumentsViews ==
  ASSUME ChatTypeOK, ToolsInv, OutInv, client = "writing", NEW i \in 1..MaxItems, Delta(i),
         output[i].type = "function_call", NEW kind, NEW indices
  PROVE  LET piece == Chunk("arguments", tools[i], pieces + 1)
         IN  /\ i \in CallsMade /\ out' = Append(out, piece) /\ out' \in Seq(ChunkType)
             /\ piece \in ChunkType /\ piece.kind = "arguments" /\ piece.index = tools[i]
             /\ piece.piece = pieces + 1
             /\ kind = "arguments" /\ tools[i] \in indices =>
                  Select(out', kind, indices) = Append(Select(out, kind, indices), piece)
             /\ kind # "arguments" \/ tools[i] \notin indices =>
                  Select(out', kind, indices) = Select(out, kind, indices)
<1> DEFINE piece == Chunk("arguments", tools[i], pieces + 1)
<1>1. i \in CallsMade /\ i \in DOMAIN tools
  BY PieceAdded DEF CallsMade, ToolsInv
<1>2. /\ piece \in ChunkType /\ piece.kind = "arguments" /\ piece.index = tools[i]
      /\ piece.piece = pieces + 1
  <2>1. tools[i] \in Indices
    <3>1. tools[i] \in 0..(nextTool - 1) /\ nextTool \in 0..MaxItems /\ MaxItems \in Nat
      BY <1>1, BoundsAssumption DEF ChatTypeOK
    <3> QED
      BY <3>1 DEF Indices
  <2> DEFINE p == pieces + 1
             index == tools[i]
  <2>2. /\ p \in (1..MaxItems) \cup (1..MaxPieces) /\ "arguments" \in {"tool", "arguments"}
        /\ index \in Indices
    BY <2>1, PieceAdded
  <2> HIDE DEF p, index
  <2>3. LET c == Chunk("arguments", index, p)
        IN  c \in ChunkType /\ c.kind = "arguments" /\ c.index = index /\ c.piece = p
    BY <2>2, CallChunk
  <2> QED
    BY <2>3 DEF p, index
<1>3. Write(<<piece>>)
  BY <1>1 DEF Delta, ToolIndex
<1> HIDE DEF piece
<1>4. out' = Append(out, piece)
  BY <1>2, <1>3, Wrote
<1>5. out \in Seq(ChunkType)
  BY DEF OutInv
<1>6. /\ Append(out, piece) \in Seq(ChunkType)
      /\ kind = "arguments" /\ tools[i] \in indices =>
           Select(Append(out, piece), kind, indices) = Append(Select(out, kind, indices), piece)
      /\ kind # "arguments" \/ tools[i] \notin indices =>
           Select(Append(out, piece), kind, indices) = Select(out, kind, indices)
  BY <1>2, <1>5, ViewLonger
<1> QED
  BY <1>1, <1>2, <1>4, <1>6 DEF piece

LEMMA TextViews ==
  ASSUME ChatTypeOK, ToolsInv, OutInv, client = "writing", NEW i \in 1..MaxItems, Delta(i),
         output[i].type # "function_call", NEW kind, kind # "role", NEW indices
  PROVE  LET piece == Chunk(output[i].type, None, pieces + 1)
         IN  /\ output[i].type \in Texts
             /\ out' = Append(WithRole, piece) /\ roleSent' = TRUE /\ out' \in Seq(ChunkType)
             /\ piece \in ChunkType /\ piece.kind = output[i].type
             /\ piece.piece = pieces + 1
             /\ kind = output[i].type /\ None \in indices =>
                  Select(out', kind, indices) = Append(Select(out, kind, indices), piece)
             /\ kind # output[i].type \/ None \notin indices =>
                  Select(out', kind, indices) = Select(out, kind, indices)
<1> DEFINE piece == Chunk(output[i].type, None, pieces + 1)
<1>1. output[i].type \in Texts
  <2>1. output[i].type \in Kinds
    BY PieceAdded, ItemAt DEF ChatTypeOK
  <2> QED
    BY <2>1 DEF Kinds, Texts
<1>2. /\ piece \in ChunkType /\ piece.kind = output[i].type /\ piece.index = None
      /\ piece.piece = pieces + 1
  <2>1. None \in Indices
    BY DEF Indices
  <2>2. pieces + 1 \in 1..MaxPieces
    BY PieceAdded
  <2> QED
    BY <1>1, <2>1, <2>2, ChunksTyped
<1>3. WriteWithRole(<<piece>>)
  BY DEF Delta
<1> HIDE DEF piece
<1>4. out' = Append(WithRole, piece) /\ roleSent' = TRUE
  BY <1>2, <1>3, Wrote
<1>5. WithRole \in Seq(ChunkType) /\ Select(WithRole, kind, indices) = Select(out, kind, indices)
  BY RoleWritten
<1>6. /\ Append(WithRole, piece) \in Seq(ChunkType)
      /\ kind = output[i].type /\ None \in indices =>
           Select(Append(WithRole, piece), kind, indices) = Append(Select(WithRole, kind, indices), piece)
      /\ kind # output[i].type \/ None \notin indices =>
           Select(Append(WithRole, piece), kind, indices) = Select(WithRole, kind, indices)
  BY <1>2, <1>5, ViewLonger
<1> QED
  BY <1>1, <1>2, <1>4, <1>5, <1>6 DEF piece

-----------------------------------------------------------------------------
\* How the stream stands, and what the handlers know of it.
StandInv ==
  /\ terminalSent = (final # None \/ upstreamErr)
  /\ ~(final # None /\ upstreamErr)
  /\ ended = "open" => ~terminalSent
  /\ client = "finished" => ended \in {"EOF", "broken"}
  /\ ended \in {"EOF", "broken"} => client # "writing"
  /\ collected = "answer" => final # None
  /\ ended = "EOF" /\ collected # "answer" => final = None

LEMMA StandStep ==
  ASSUME ChatTypeOK, StandInv, [ChatNext]_chatVars
  PROVE  StandInv'
<1>1. output # None
  BY NoneAssumption DEF ChatTypeOK
<1>2. CASE Created
  BY <1>2 DEF StandInv, Created, collecting
<1>3. CASE Complete
  BY <1>1, <1>3 DEF StandInv, Complete
<1>4. CASE FailUpstream
  BY <1>4 DEF StandInv, FailUpstream
<1>5. CASE EOF
  BY <1>5 DEF StandInv, EOF, ChatTypeOK
<1>6. CASE Break
  BY <1>6 DEF StandInv, Break, ChatTypeOK
<1>7. CASE HangUp
  BY <1>7 DEF StandInv, HangUp, upstream, collecting
<1>8. ASSUME NEW type \in Kinds, AddItem(type)
      PROVE  StandInv'
  BY <1>8 DEF StandInv, AddItem, collecting
<1>9. ASSUME NEW i \in 1..MaxItems, Delta(i)
      PROVE  StandInv'
  BY <1>9 DEF StandInv, Delta, collecting
<1>10. CASE UNCHANGED chatVars
  BY <1>10 DEF StandInv, chatVars, upstream, state, collecting
<1> QED
  BY <1>2, <1>3, <1>4, <1>5, <1>6, <1>7, <1>8, <1>9, <1>10 DEF ChatNext

\* A step that is about no item, and gives no call an index.
Still == UNCHANGED <<output, pieces, tools, nextTool>>

LEMMA StillTools ==
  ASSUME ChatTypeOK, ToolsInv, Still
  PROVE  /\ ToolsInv' /\ CallsMade' = CallsMade /\ Calls' = Calls
         /\ \A text : Arrived(text)' = Arrived(text)
<1>1. CallsMade' = CallsMade
  BY DEF CallsMade, Still
<1>2. Calls' = Calls
  BY <1>1 DEF Calls
<1>3. ASSUME NEW text
      PROVE  Arrived(text)' = Arrived(text)
  BY DEF Arrived, Places, Still
<1> QED
  BY <1>1, <1>2, <1>3 DEF ToolsInv, Still

LEMMA ItemTools ==
  ASSUME ChatTypeOK, ToolsInv, NEW type \in Kinds, AddItem(type)
  PROVE  /\ ToolsInv' /\ output' \in Seq(Item) /\ Len(output') <= MaxItems
         /\ tools' \in [DOMAIN tools' -> 0..(nextTool' - 1)] /\ nextTool' \in 0..MaxItems
         /\ \A i, j \in DOMAIN tools' : tools'[i] = tools'[j] => i = j
         /\ \A i \in DOMAIN tools : tools'[i] = tools[i]
         /\ type = "function_call" =>
              /\ nextTool' = nextTool + 1 /\ tools'[Len(output) + 1] = nextTool
              /\ DOMAIN tools' = DOMAIN tools \cup {Len(output) + 1}
         /\ type # "function_call" => tools' = tools /\ nextTool' = nextTool
<1> DEFINE n == Len(output)
           x == n + 1
<1>1. /\ n \in Nat /\ DOMAIN output = 1..n /\ DOMAIN output' = 1..x
      /\ output' \in Seq(Item) /\ Len(output') = x
      /\ output'[x].pieces = <<>>
      /\ \A i \in DOMAIN output : output'[i] = output[i]
  BY ItemAdded
<1>2. /\ n < MaxItems /\ MaxItems \in Nat /\ pieces \in Nat /\ pieces' = pieces
      /\ nextTool \in 0..MaxItems /\ tools \in [DOMAIN tools -> 0..(nextTool - 1)]
      /\ DOMAIN tools = CallsMade /\ nextTool = Cardinality(CallsMade)
      /\ \A i \in CallsMade : Calls[tools[i] + 1] = i
      /\ \A i, j \in DOMAIN tools : tools[i] = tools[j] => i = j
      /\ \A i \in DOMAIN output : Len(output[i].pieces) <= pieces
  BY BoundsAssumption DEF ChatTypeOK, ToolsInv, AddItem
<1>3. /\ type = "function_call" =>
           /\ CallsMade' = CallsMade \cup {x}
           /\ Cardinality(CallsMade') = Cardinality(CallsMade) + 1
           /\ Calls'[Cardinality(CallsMade) + 1] = x
           /\ \A c \in 1..Cardinality(CallsMade) : Calls'[c] = Calls[c]
      /\ type # "function_call" => CallsMade' = CallsMade /\ Calls' = Calls
      /\ x \notin CallsMade
  BY ItemCalls
<1>4. type = "function_call" =>
        /\ tools' = [k \in DOMAIN tools \cup {x} |-> ToolIndex(k)]
        /\ nextTool' = nextTool + 1
  BY DEF AddItem
<1>5. type # "function_call" => tools' = tools /\ nextTool' = nextTool
  BY DEF AddItem
<1>6. \A k : ToolIndex(k) = IF k \in DOMAIN tools THEN tools[k] ELSE nextTool
  BY DEF ToolIndex
<1>7. nextTool <= n
  <2>1. CallsMade \in SUBSET (1..n)
    BY CallsPlaced DEF ChatTypeOK
  <2> HIDE DEF n
  <2>2. IsFiniteSet(1..n) /\ Cardinality(1..n) = IF 1 > n THEN 0 ELSE n - 1 + 1
    <3>1. n \in Int /\ 1 \in Int
      BY <1>1
    <3> QED
      BY <3>1, FS_Interval
  <2>3. Cardinality(1..n) = n
    BY <1>1, <2>2
  <2>4. Cardinality(CallsMade) <= Cardinality(1..n)
    BY <2>1, <2>2, FS_Subset
  <2> QED
    BY <1>2, <2>3, <2>4
<1> HIDE DEF x, n
<1>8. x \in Nat /\ x <= MaxItems /\ \A i \in 1..x : i \in 1..n \/ i = x
  BY <1>1, <1>2 DEF x
<1>9. \A i \in DOMAIN output' : Len(output'[i].pieces) <= pieces'
  BY <1>1, <1>2, <1>8
<1>10. CASE type # "function_call"
  <2>1. tools' = tools /\ nextTool' = nextTool /\ CallsMade' = CallsMade /\ Calls' = Calls
    BY <1>3, <1>5, <1>10
  <2>2. ToolsInv'
    BY <1>2, <1>9, <2>1 DEF ToolsInv
  <2> QED
    BY <1>1, <1>2, <1>8, <1>10, <2>1, <2>2
<1>11. CASE type = "function_call"
  <2>1. /\ DOMAIN tools' = CallsMade' /\ DOMAIN tools' = DOMAIN tools \cup {x}
        /\ tools'[x] = nextTool /\ \A i \in DOMAIN tools : tools'[i] = tools[i]
    BY <1>2, <1>3, <1>4, <1>6, <1>11
  <2>2. /\ nextTool' = nextTool + 1 /\ nextTool' = Cardinality(CallsMade') /\ nextTool' \in 0..MaxItems
    BY <1>1, <1>2, <1>3, <1>4, <1>7, <1>11
  <2>3. \A i \in DOMAIN tools : tools[i] \in Nat /\ tools[i] < nextTool /\ tools[i] + 1 \in 1..nextTool
    <3> SUFFICES ASSUME NEW i \in DOMAIN tools
                 PROVE  tools[i] \in Nat /\ tools[i] < nextTool /\ tools[i] + 1 \in 1..nextTool
      OBVIOUS
    <3>1. tools[i] \in 0..(nextTool - 1) /\ nextTool \in Nat
      BY <1>2
    <3> QED
      BY <3>1
  <2>4. ASSUME NEW i \in DOMAIN tools'
        PROVE  /\ Calls'[tools'[i] + 1] = i /\ tools'[i] \in 0..(nextTool' - 1)
               /\ i # x => tools'[i] < nextTool
    <3>1. CASE i = x
      BY <1>2, <1>3, <1>11, <2>1, <2>2, <3>1
    <3>2. CASE i # x
      <4>1. i \in DOMAIN tools /\ tools'[i] = tools[i]
        BY <2>1, <3>2
      <4>2. tools[i] + 1 \in 1..nextTool /\ tools[i] < nextTool /\ tools[i] \in Nat
        BY <2>3, <4>1
      <4>3. Calls'[tools[i] + 1] = Calls[tools[i] + 1] /\ Calls[tools[i] + 1] = i
        BY <1>2, <1>3, <1>11, <4>1, <4>2
      <4>4. tools[i] \in 0..(nextTool' - 1)
        BY <1>2, <2>2, <4>2
      <4> QED
        BY <4>1, <4>2, <4>3, <4>4
    <3> QED
      BY <3>1, <3>2
  <2>5. ASSUME NEW i \in DOMAIN tools', NEW j \in DOMAIN tools', tools'[i] = tools'[j]
        PROVE  i = j
    <3>1. ~(nextTool < nextTool)
      BY <1>2
    <3> QED
      BY <1>2, <2>1, <2>4, <2>5, <3>1
  <2>6. tools' \in [DOMAIN tools' -> 0..(nextTool' - 1)]
    <3>1. tools' = [i \in DOMAIN tools' |-> tools'[i]]
      BY <1>4, <1>11
    <3> QED
      BY <2>4, <3>1
  <2>7. ToolsInv'
    BY <1>9, <2>1, <2>2, <2>4 DEF ToolsInv
  <2> QED
    BY <1>1, <1>8, <1>11, <2>1, <2>2, <2>5, <2>6, <2>7 DEF x
<1> QED
  BY <1>10, <1>11

LEMMA PieceTools ==
  ASSUME ChatTypeOK, ToolsInv, NEW i \in 1..MaxItems, Delta(i)
  PROVE  ToolsInv' /\ pieces' \in 0..MaxPieces
<1>1. /\ DOMAIN output' = DOMAIN output /\ i \in DOMAIN output
      /\ \A j \in DOMAIN output : j # i => output'[j] = output[j]
      /\ output[i].pieces \in Seq(1..MaxPieces) /\ pieces + 1 \in 1..MaxPieces
      /\ output'[i].pieces = Append(output[i].pieces, pieces + 1)
      /\ output \in Seq(Item)
  BY PieceAdded DEF ChatTypeOK
<1>2. pieces' = pieces + 1 /\ pieces \in Nat /\ UNCHANGED <<tools, nextTool>>
  BY DEF Delta, ChatTypeOK
<1>3. Len(output'[i].pieces) = Len(output[i].pieces) + 1
  <2> DEFINE old == output[i].pieces
             X == 1..MaxPieces
             e == pieces + 1
  <2>1. old \in Seq(X) /\ e \in X
    BY <1>1
  <2> HIDE DEF old, X, e
  <2>2. Len(Append(old, e)) = Len(old) + 1
    BY <2>1, AppendProperties
  <2> QED
    BY <1>1, <2>2 DEF old, e
<1>4. \A j \in DOMAIN output : Len(output[j].pieces) \in Nat /\ Len(output[j].pieces) <= pieces
  BY <1>1, ItemAt DEF ToolsInv
<1>5. \A j \in DOMAIN output' : Len(output'[j].pieces) <= pieces'
  BY <1>1, <1>2, <1>3, <1>4
<1>6. pieces' \in 0..MaxPieces
  BY <1>1, <1>2, BoundsAssumption
<1>7. CallsMade' = CallsMade /\ Calls' = Calls
  BY PieceCalls
<1> QED
  BY <1>2, <1>5, <1>6, <1>7 DEF ToolsInv

\* The steps that are about no item.
Aside == Created \/ Complete \/ FailUpstream \/ EOF \/ Break \/ HangUp \/ UNCHANGED chatVars

LEMMA AsideStill ==
  ASSUME Aside
  PROVE  Still
BY DEF Aside, Still, Created, Complete, FailUpstream, EOF, Break, HangUp, chatVars,
       upstream, state

LEMMA AnswerTypeStep ==
  ASSUME ChatTypeOK, ToolsInv, StandInv, [ChatNext]_chatVars
  PROVE  ChatTypeOK' /\ ToolsInv'
<1>1. CASE Aside
  <2>1. Still /\ ToolsInv'
    BY <1>1, AsideStill, StillTools
  <2>2. /\ {started, includeUsage, roleSent, terminalSent, upstreamErr}' \subseteq BOOLEAN
        /\ ended' \in Ends /\ client' \in {"writing", "finished", "gone"}
        /\ final' \in {None, output'} /\ collected' \in {"reading", "answer", "error"}
    <3>1. CASE Created
      BY <3>1 DEF ChatTypeOK, Created, WriteWithRole, collecting
    <3>2. CASE Complete
      BY <3>2 DEF ChatTypeOK, Complete, WriteWithRole, Ends
    <3>3. CASE FailUpstream
      BY <3>3 DEF ChatTypeOK, FailUpstream, Ends
    <3>4. CASE EOF
      BY <3>4 DEF ChatTypeOK, EOF, Ends
    <3>5. CASE Break
      BY <3>5 DEF ChatTypeOK, Break, Ends
    <3>6. CASE HangUp
      BY <3>6 DEF ChatTypeOK, HangUp, upstream, collecting
    <3>7. CASE UNCHANGED chatVars
      BY <3>7 DEF ChatTypeOK, chatVars, upstream, state, collecting
    <3> QED
      BY <1>1, <3>1, <3>2, <3>3, <3>4, <3>5, <3>6, <3>7 DEF Aside
  <2> QED
    BY <2>1, <2>2 DEF ChatTypeOK, Still
<1>2. ASSUME NEW type \in Kinds, AddItem(type)
      PROVE  ChatTypeOK' /\ ToolsInv'
  <2>1. final' = None
    BY <1>2 DEF AddItem, collecting, StandInv
  <2>2. /\ ToolsInv' /\ output' \in Seq(Item) /\ Len(output') <= MaxItems
        /\ tools' \in [DOMAIN tools' -> 0..(nextTool' - 1)] /\ nextTool' \in 0..MaxItems
        /\ \A i, j \in DOMAIN tools' : tools'[i] = tools'[j] => i = j
    BY <1>2, ItemTools
  <2>3. DOMAIN tools' \subseteq DOMAIN output'
    BY <2>2 DEF ToolsInv, CallsMade
  <2>4. /\ {started, includeUsage, roleSent, terminalSent, upstreamErr}' \subseteq BOOLEAN
        /\ ended' \in Ends /\ client' \in {"writing", "finished", "gone"}
        /\ collected' \in {"reading", "answer", "error"} /\ pieces' \in 0..MaxPieces
    BY <1>2 DEF ChatTypeOK, AddItem, WriteWithRole, collecting
  <2> QED
    BY <2>1, <2>2, <2>3, <2>4 DEF ChatTypeOK
<1>3. ASSUME NEW i \in 1..MaxItems, Delta(i)
      PROVE  ChatTypeOK' /\ ToolsInv'
  <2>1. final' = None
    BY <1>3 DEF Delta, collecting, StandInv
  <2>2. ToolsInv' /\ pieces' \in 0..MaxPieces
    BY <1>3, PieceTools
  <2>3. output' \in Seq(Item) /\ Len(output') = Len(output) /\ DOMAIN output' = DOMAIN output
    BY <1>3, PieceAdded
  <2>4. /\ {started, includeUsage, roleSent, terminalSent, upstreamErr}' \subseteq BOOLEAN
        /\ ended' \in Ends /\ client' \in {"writing", "finished", "gone"}
        /\ collected' \in {"reading", "answer", "error"} /\ UNCHANGED <<tools, nextTool>>
    BY <1>3 DEF ChatTypeOK, Delta, WriteWithRole, collecting
  <2> QED
    BY <2>1, <2>2, <2>3, <2>4 DEF ChatTypeOK
<1> QED
  BY <1>1, <1>2, <1>3 DEF Aside, ChatNext

\* What the client whose handler still writes has been told of the texts.
TextInv == client # "gone" => \A text \in Texts : Pieces(Of(text)) = Arrived(text)

\* A handler that has returned writes no more.
LEMMA Frozen ==
  ASSUME [ChatNext]_chatVars, client # "writing"
  PROVE  out' = out
BY DEF ChatNext, chatVars, upstream, state, collecting, Created, AddItem, Delta, Complete,
       FailUpstream, EOF, Break, HangUp, WriteWithRole, Write

\* What a handler that has not failed did in a step.
LEMMA Reading ==
  ASSUME ChatTypeOK, StandInv, [ChatNext]_chatVars, client' # "gone"
  PROVE  client = "writing" \/ UNCHANGED chatVars
<1>1. client \in {"writing", "finished", "gone"}
  BY DEF ChatTypeOK
<1>2. CASE client = "finished"
  <2>1. ended \in {"EOF", "broken"}
    BY <1>2 DEF StandInv
  <2> QED
    BY <1>2, <2>1 DEF ChatNext, Created, AddItem, Delta, Complete, FailUpstream, EOF, Break,
                      HangUp
<1>3. CASE client = "gone"
  BY <1>3 DEF ChatNext, Created, AddItem, Delta, Complete, FailUpstream, EOF, Break,
              HangUp, chatVars, upstream, state
<1> QED
  BY <1>1, <1>2, <1>3

LEMMA AsideViews ==
  ASSUME OutInv, ChatTypeOK, StandInv, Aside, client' # "gone",
         NEW kind, kind \notin Closing \cup {"role", "finish"}, NEW indices
  PROVE  Select(out', kind, indices) = Select(out, kind, indices)
<1>1. kind # "role" /\ kind # "finish" /\ kind \notin Closing
      /\ kind \notin Closing \cup {"role"}
  OBVIOUS
<1>2. client = "writing" \/ UNCHANGED chatVars
  BY Reading DEF Aside, ChatNext
<1>3. CASE UNCHANGED chatVars
  BY <1>3 DEF chatVars, state
<1>4. CASE client = "writing" /\ Created
  BY <1>1, <1>4, CreatedViews
<1>5. CASE client = "writing" /\ Complete
  BY <1>1, <1>5, CompleteViews
<1>6. CASE client = "writing" /\ FailUpstream
  BY <1>1, <1>6, FailViews
<1>7. CASE client = "writing" /\ EOF
  BY <1>1, <1>7, EOFViews
<1>8. CASE Break
  BY <1>8 DEF Break
<1>9. CASE HangUp
  BY <1>9 DEF HangUp
<1> QED
  BY <1>2, <1>3, <1>4, <1>5, <1>6, <1>7, <1>8, <1>9 DEF Aside

LEMMA OutStep ==
  ASSUME OutInv, ChatTypeOK, ToolsInv, StandInv, [ChatNext]_chatVars
  PROVE  OutInv'
<1>1. "message" \notin Closing \cup {"role", "finish"} /\ "message" \notin Closing
      /\ "message" # "role" /\ "message" \notin Closing \cup {"role"}
  BY DEF Closing
<1>2. ChunkType' = ChunkType
  BY DEF ChunkType, Indices
<1>3. out' \in Seq(ChunkType)
  <2>1. CASE client # "writing"
    BY <2>1, Frozen DEF OutInv
  <2>2. CASE client = "writing" /\ Created
    BY <1>1, <2>2, CreatedViews
  <2>3. CASE client = "writing" /\ Complete
    BY <1>1, <2>3, CompleteViews
  <2>4. CASE client = "writing" /\ FailUpstream
    BY <1>1, <2>4, FailViews
  <2>5. CASE client = "writing" /\ EOF
    BY <1>1, <2>5, EOFViews
  <2>6. CASE Break \/ HangUp \/ UNCHANGED chatVars
    BY <2>6 DEF Break, HangUp, chatVars, state, OutInv
  <2>7. ASSUME client = "writing", NEW type \in Kinds, AddItem(type)
        PROVE  out' \in Seq(ChunkType)
    <3>1. CASE type = "function_call"
      BY <1>1, <2>7, <3>1, CallViews
    <3>2. CASE type # "function_call"
      BY <2>7, <3>2 DEF AddItem, OutInv
    <3> QED
      BY <3>1, <3>2
  <2>8. ASSUME client = "writing", NEW i \in 1..MaxItems, Delta(i)
        PROVE  out' \in Seq(ChunkType)
    BY <1>1, <2>8, ArgumentsViews, TextViews
  <2> QED
    BY <2>1, <2>2, <2>3, <2>4, <2>5, <2>6, <2>7, <2>8 DEF ChatNext
<1> QED
  BY <1>2, <1>3 DEF OutInv

LEMMA TextStep ==
  ASSUME TextInv, OutInv, ChatTypeOK, ToolsInv, StandInv, [ChatNext]_chatVars
  PROVE  TextInv'
<1> SUFFICES ASSUME client' # "gone", NEW text \in Texts
             PROVE  Pieces(Select(out', text, Indices)) = Arrived(text)'
  BY DEF TextInv, Pieces, Of, Texts, Indices
<1>1. /\ text \notin Closing \cup {"role", "finish"}
      /\ text # "role" /\ text # "function_call" /\ text # "tool" /\ text # "arguments"
  BY DEF Texts, Closing
<1>2. client = "writing" \/ UNCHANGED chatVars
  BY Reading
<1>3. client # "gone"
  BY <1>2 DEF chatVars, state
<1>4. Pieces(Select(out, text, Indices)) = Arrived(text)
  BY <1>3 DEF TextInv, Of
<1>5. CASE Aside
  <2>1. Arrived(text)' = Arrived(text)
    BY <1>5, AsideStill, StillTools
  <2>2. Select(out', text, Indices) = Select(out, text, Indices)
    BY <1>1, <1>5, AsideViews
  <2> QED
    BY <1>4, <2>1, <2>2
<1>6. ASSUME client = "writing", NEW type \in Kinds, AddItem(type)
      PROVE  Pieces(Select(out', text, Indices)) = Arrived(text)'
  <2>1. Arrived(text)' = Arrived(text)
    BY <1>6, ItemTexts
  <2>2. Select(out', text, Indices) = Select(out, text, Indices)
    <3>1. CASE type = "function_call"
      BY <1>1, <1>6, <3>1, CallViews
    <3>2. CASE type # "function_call"
      BY <1>6, <3>2 DEF AddItem
    <3> QED
      BY <3>1, <3>2
  <2> QED
    BY <1>4, <2>1, <2>2
<1>7. ASSUME client = "writing", NEW i \in 1..MaxItems, Delta(i)
      PROVE  Pieces(Select(out', text, Indices)) = Arrived(text)'
  <2>1. /\ output[i].type = text => Arrived(text)' = Append(Arrived(text), pieces + 1)
        /\ output[i].type # text => Arrived(text)' = Arrived(text)
    BY <1>1, <1>7, PieceTexts
  <2>2. CASE output[i].type = "function_call"
    <3>1. Select(out', text, Indices) = Select(out, text, Indices)
      BY <1>1, <1>7, <2>2, ArgumentsViews
    <3> QED
      BY <1>1, <1>4, <2>1, <2>2, <3>1
  <2>3. CASE output[i].type # "function_call"
    <3> DEFINE piece == Chunk(output[i].type, None, pieces + 1)
    <3>1. /\ piece \in ChunkType /\ piece.piece = pieces + 1
          /\ text = output[i].type /\ None \in Indices =>
               Select(out', text, Indices) = Append(Select(out, text, Indices), piece)
          /\ text # output[i].type =>
               Select(out', text, Indices) = Select(out, text, Indices)
      <4>1. client = "writing" /\ Delta(i) /\ output[i].type # "function_call" /\ text # "role"
        BY <1>1, <1>7, <2>3
      <4> QED
        BY <4>1, TextViews
    <3>2. None \in Indices
      BY DEF Indices
    <3>3. Select(out, text, Indices) \in Seq(ChunkType)
      BY <3>1, SelectLonger DEF OutInv
    <3> HIDE DEF piece
    <3>4. Pieces(Append(Select(out, text, Indices), piece))
            = Append(Pieces(Select(out, text, Indices)), piece.piece)
      BY <3>1, <3>3, PiecesLonger
    <3> QED
      BY <1>4, <2>1, <3>1, <3>2, <3>4
  <2> QED
    BY <2>2, <2>3
<1> QED
  BY <1>2, <1>5, <1>6, <1>7 DEF Aside, ChatNext

\* What it has been told of the calls.
CallInv ==
  client # "gone" =>
    /\ Len(Of("tool")) = nextTool
    /\ \A i \in CallsMade :
         /\ Len(Select(out, "tool", {tools[i]})) = 1
         /\ Select(out, "tool", {tools[i]})[1].piece = i
         /\ Pieces(Select(out, "arguments", {tools[i]})) = output[i].pieces
    /\ \A n \in nextTool..MaxItems :
         Select(out, "tool", {n}) = <<>> /\ Select(out, "arguments", {n}) = <<>>

\* The same of any chunks, and of any calls.
Told(chunks, made, indexOf, next, items) ==
  /\ Len(Select(chunks, "tool", Indices)) = next
  /\ \A i \in made :
       /\ Len(Select(chunks, "tool", {indexOf[i]})) = 1
       /\ Select(chunks, "tool", {indexOf[i]})[1].piece = i
       /\ Pieces(Select(chunks, "arguments", {indexOf[i]})) = items[i].pieces
  /\ \A n \in next..MaxItems :
       Select(chunks, "tool", {n}) = <<>> /\ Select(chunks, "arguments", {n}) = <<>>

LEMMA CallsTold ==
  /\ CallInv = (client # "gone" => Told(out, CallsMade, tools, nextTool, output))
  /\ CallInv' = (client' # "gone" => Told(out', CallsMade', tools', nextTool', output'))
BY DEF CallInv, Told, Of, Indices, Select, Pieces

LEMMA SelectEmpty ==
  ASSUME NEW x \in ChunkType
  PROVE  /\ Append(<<>>, x) = <<x>> /\ Len(Append(<<>>, x)) = 1 /\ Append(<<>>, x)[1] = x
         /\ Pieces(<<>>) = <<>>
<1> DEFINE X == ChunkType
<1>1. x \in X
  OBVIOUS
<1> HIDE DEF X
<1>2. <<>> \in Seq(X) /\ <<>> \o <<x>> = <<x>>
  BY <1>1, ConcatEmptySeq
<1>3. /\ Append(<<>>, x) = <<>> \o <<x>> /\ Len(Append(<<>>, x)) = Len(<<>>) + 1
  BY <1>1, <1>2, AppendJoins
<1>4. Append(<<>>, x) = <<x>> /\ <<x>>[1] = x /\ Len(<<x>>) = 1
  BY <1>1, <1>2, <1>3
<1>5. Pieces(<<>>) = <<>>
  BY DEF Pieces
<1> QED
  BY <1>4, <1>5

LEMMA CallStep ==
  ASSUME CallInv, OutInv, ChatTypeOK, ToolsInv, StandInv, [ChatNext]_chatVars
  PROVE  CallInv'
<1> SUFFICES ASSUME client' # "gone"
             PROVE  Told(out', CallsMade', tools', nextTool', output')
  BY CallsTold
<1>1. client = "writing" \/ UNCHANGED chatVars
  BY Reading
<1>2. client # "gone"
  BY <1>1 DEF chatVars, state
<1>3. Told(out, CallsMade, tools, nextTool, output)
  BY <1>2, CallsTold
<1>4. /\ "tool" \notin Closing \cup {"role", "finish"} /\ "tool" # "role"
      /\ "arguments" \notin Closing \cup {"role", "finish"} /\ "arguments" # "role"
      /\ "tool" # "arguments" /\ "tool" \notin Texts /\ "arguments" \notin Texts
  BY DEF Closing, Texts
<1>5. /\ nextTool \in Nat /\ nextTool <= MaxItems /\ MaxItems \in Nat
      /\ DOMAIN tools = CallsMade
      /\ \A i, j \in CallsMade : tools[i] = tools[j] => i = j
      /\ \A i \in CallsMade : tools[i] \in 0..(nextTool - 1)
  BY BoundsAssumption DEF ChatTypeOK, ToolsInv
<1>6. \A i \in CallsMade : tools[i] # nextTool /\ tools[i] \notin nextTool..MaxItems
  <2> SUFFICES ASSUME NEW i \in CallsMade
               PROVE  tools[i] # nextTool /\ tools[i] \notin nextTool..MaxItems
    OBVIOUS
  <2> DEFINE k == tools[i]
  <2>1. k \in 0..(nextTool - 1)
    BY <1>5
  <2> HIDE DEF k
  <2>2. k # nextTool /\ k \notin nextTool..MaxItems
    BY <1>5, <2>1
  <2> QED
    BY <2>2 DEF k
<1>7. CASE Aside
  <2>1. CallsMade' = CallsMade /\ Still
    BY <1>7, AsideStill, StillTools
  <2>2. \A indices : /\ Select(out', "tool", indices) = Select(out, "tool", indices)
                     /\ Select(out', "arguments", indices) = Select(out, "arguments", indices)
    BY <1>4, <1>7, AsideViews
  <2> QED
    BY <1>3, <2>1, <2>2 DEF Told, Still
<1>8. ASSUME client = "writing", NEW type \in Kinds, AddItem(type), type # "function_call"
      PROVE  Told(out', CallsMade', tools', nextTool', output')
  <2>1. out' = out /\ tools' = tools /\ nextTool' = nextTool
    BY <1>8 DEF AddItem
  <2>2. CallsMade' = CallsMade
    BY <1>8, ItemCalls
  <2>3. \A i \in CallsMade : output'[i] = output[i]
    BY <1>8, ItemAdded DEF CallsMade
  <2> QED
    BY <1>3, <2>1, <2>2, <2>3 DEF Told
<1>9. ASSUME client = "writing", AddItem("function_call")
      PROVE  Told(out', CallsMade', tools', nextTool', output')
  <2> DEFINE x == Len(output) + 1
             call == Chunk("tool", nextTool, x)
  <2>1. "function_call" \in Kinds
    BY DEF Kinds
  <2>2. /\ CallsMade' = CallsMade \cup {x} /\ x \notin CallsMade
        /\ output'[x].pieces = <<>> /\ \A i \in CallsMade : output'[i] = output[i]
    BY <1>9, <2>1, ItemCalls, ItemAdded DEF CallsMade
  <2>3. nextTool' = nextTool + 1 /\ tools'[x] = nextTool /\ \A i \in CallsMade : tools'[i] = tools[i]
    BY <1>5, <1>9, <2>1, ItemTools
  <2>4. call \in ChunkType /\ call.piece = x /\ nextTool \in Indices
    BY <1>4, <1>9, CallViews
  <2>5. /\ \A indices : nextTool \in indices =>
             Select(out', "tool", indices) = Append(Select(out, "tool", indices), call)
        /\ \A indices : nextTool \notin indices =>
             Select(out', "tool", indices) = Select(out, "tool", indices)
        /\ \A indices : Select(out', "arguments", indices) = Select(out, "arguments", indices)
    BY <1>4, <1>9, CallViews
  <2>6. Select(out, "tool", Indices) \in Seq(ChunkType)
    BY <2>4, SelectLonger DEF OutInv
  <2> HIDE DEF call, x
  <2>7. Len(Select(out', "tool", Indices)) = nextTool'
    BY <1>3, <2>3, <2>4, <2>5, <2>6, AppendJoins DEF Told
  <2>8. nextTool \in nextTool..MaxItems
    BY <1>5
  <2>9. /\ Select(out', "tool", {nextTool}) = Append(<<>>, call)
        /\ Select(out', "arguments", {nextTool}) = <<>>
    BY <1>3, <2>5, <2>8 DEF Told
  <2>10. /\ Len(Select(out', "tool", {tools'[x]})) = 1
         /\ Select(out', "tool", {tools'[x]})[1].piece = x
         /\ Pieces(Select(out', "arguments", {tools'[x]})) = output'[x].pieces
    BY <2>2, <2>3, <2>4, <2>9, SelectEmpty
  <2>11. ASSUME NEW i \in CallsMade
         PROVE  /\ Len(Select(out', "tool", {tools'[i]})) = 1
                /\ Select(out', "tool", {tools'[i]})[1].piece = i
                /\ Pieces(Select(out', "arguments", {tools'[i]})) = output'[i].pieces
    <3>1. nextTool \notin {tools[i]}
      BY <1>6
    <3>2. /\ Select(out', "tool", {tools[i]}) = Select(out, "tool", {tools[i]})
          /\ Select(out', "arguments", {tools[i]}) = Select(out, "arguments", {tools[i]})
      BY <2>5, <3>1
    <3>3. tools'[i] = tools[i] /\ output'[i] = output[i]
      BY <2>2, <2>3
    <3> QED
      BY <1>3, <3>2, <3>3 DEF Told
  <2>12. ASSUME NEW n \in nextTool'..MaxItems
         PROVE  Select(out', "tool", {n}) = <<>> /\ Select(out', "arguments", {n}) = <<>>
    <3>1. n \in nextTool..MaxItems /\ nextTool \notin {n}
      BY <1>5, <2>3
    <3> QED
      BY <1>3, <2>5, <3>1 DEF Told
  <2> QED
    BY <2>2, <2>7, <2>10, <2>11, <2>12 DEF Told
<1>10. ASSUME client = "writing", NEW i \in 1..MaxItems, Delta(i)
       PROVE  /\ CallsMade' = CallsMade /\ UNCHANGED <<tools, nextTool>>
              /\ \A j \in CallsMade : j # i => output'[j] = output[j]
              /\ i \in CallsMade <=> output[i].type = "function_call"
  <2>1. CallsMade' = CallsMade
    BY <1>10, PieceCalls
  <2>2. i \in DOMAIN output /\ \A j \in DOMAIN output : j # i => output'[j] = output[j]
    BY <1>10, PieceAdded
  <2>3. UNCHANGED <<tools, nextTool>>
    BY <1>10 DEF Delta
  <2> QED
    BY <2>1, <2>2, <2>3 DEF CallsMade
<1>11. ASSUME client = "writing", NEW i \in 1..MaxItems, Delta(i),
              output[i].type # "function_call"
       PROVE  Told(out', CallsMade', tools', nextTool', output')
  <2>1. /\ "tool" # output[i].type /\ "arguments" # output[i].type
    <3>1. output[i].type \in Texts
      BY <1>4, <1>11, TextViews
    <3> QED
      BY <1>4, <3>1
  <2>2. \A indices : /\ Select(out', "tool", indices) = Select(out, "tool", indices)
                     /\ Select(out', "arguments", indices) = Select(out, "arguments", indices)
    BY <1>4, <1>11, <2>1, TextViews
  <2>3. /\ CallsMade' = CallsMade /\ tools' = tools /\ nextTool' = nextTool
        /\ \A j \in CallsMade : output'[j] = output[j]
    BY <1>10, <1>11
  <2> QED
    BY <1>3, <2>2, <2>3 DEF Told
<1>12. ASSUME client = "writing", NEW i \in 1..MaxItems, Delta(i),
              output[i].type = "function_call"
       PROVE  Told(out', CallsMade', tools', nextTool', output')
  <2> DEFINE piece == Chunk("arguments", tools[i], pieces + 1)
             args == Select(out, "arguments", {tools[i]})
  <2>1. /\ CallsMade' = CallsMade /\ tools' = tools /\ nextTool' = nextTool
        /\ \A j \in CallsMade : j # i => output'[j] = output[j]
        /\ i \in CallsMade
    BY <1>10, <1>12
  <2>2. piece \in ChunkType /\ piece.piece = pieces + 1
    BY <1>4, <1>12, ArgumentsViews
  <2>3. /\ \A indices : Select(out', "tool", indices) = Select(out, "tool", indices)
        /\ \A indices : tools[i] \in indices =>
             Select(out', "arguments", indices) = Append(Select(out, "arguments", indices), piece)
        /\ \A indices : tools[i] \notin indices =>
             Select(out', "arguments", indices) = Select(out, "arguments", indices)
    BY <1>4, <1>12, ArgumentsViews
  <2>4. args \in Seq(ChunkType)
    BY <2>2, SelectLonger DEF OutInv
  <2>5. output'[i].pieces = Append(output[i].pieces, pieces + 1)
    <3>1. i \in DOMAIN output /\ output \in Seq(Item)
      BY <1>12, PieceAdded DEF ChatTypeOK
    <3> QED
      BY <1>12, <3>1, PieceAdded
  <2> HIDE DEF piece
  <2>6. Pieces(Append(args, piece)) = Append(Pieces(args), piece.piece)
    BY <2>2, <2>4, PiecesLonger
  <2>7. Pieces(Select(out', "arguments", {tools[i]})) = output'[i].pieces
    <3>1. Pieces(args) = output[i].pieces
      BY <1>3, <2>1 DEF Told
    <3>2. Select(out', "arguments", {tools[i]}) = Append(args, piece)
      BY <2>3
    <3> QED
      BY <2>2, <2>5, <2>6, <3>1, <3>2
  <2>8. ASSUME NEW j \in CallsMade
        PROVE  Pieces(Select(out', "arguments", {tools[j]})) = output'[j].pieces
    <3>1. CASE j = i
      BY <2>7, <3>1
    <3>2. CASE j # i
      <4>1. tools[i] \notin {tools[j]}
        BY <1>5, <2>1, <3>2
      <4> QED
        BY <1>3, <2>1, <2>3, <3>2, <4>1 DEF Told
    <3> QED
      BY <3>1, <3>2
  <2>9. ASSUME NEW n \in nextTool..MaxItems
        PROVE  Select(out', "arguments", {n}) = <<>>
    <3>1. tools[i] \notin {n}
      BY <1>6, <2>1
    <3> QED
      BY <1>3, <2>3, <3>1 DEF Told
  <2> QED
    BY <1>3, <2>1, <2>3, <2>8, <2>9 DEF Told
<1> QED
  BY <1>1, <1>7, <1>8, <1>9, <1>11, <1>12 DEF Aside, ChatNext

\* What it has been told of the finish.
FinishInv ==
  client # "gone" =>
    IF final = None THEN Of("finish") = <<>>
    ELSE Len(Of("finish")) = 1 /\ Of("finish")[1].piece = Finish

\* What has been written once at most, also to a client that has gone.
OnceInv ==
  /\ Len(Of("role")) <= 1 /\ (~roleSent => Of("role") = <<>>)
  /\ Len(Of("finish")) <= 1 /\ (ended = "open" => Of("finish") = <<>>)

LEMMA OfWritten ==
  ASSUME NEW kind
  PROVE  Of(kind) = Select(out, kind, Indices) /\ Of(kind)' = Select(out', kind, Indices)
BY DEF Of, Indices

\* No step but the completion writes a finish.
LEMMA NoFinish ==
  ASSUME OutInv, ChatTypeOK, ToolsInv, StandInv, [ChatNext]_chatVars,
         ~(client = "writing" /\ Complete)
  PROVE  Of("finish")' = Of("finish")
<1>1. "finish" \notin Closing /\ "finish" # "role" /\ "finish" # "tool"
      /\ "finish" # "arguments" /\ "finish" \notin Texts
  BY DEF Closing, Texts
<1> SUFFICES Select(out', "finish", Indices) = Select(out, "finish", Indices)
  BY OfWritten
<1>2. CASE client # "writing"
  BY <1>2, Frozen
<1>3. CASE client = "writing" /\ Created
  BY <1>1, <1>3, CreatedViews
<1>4. CASE client = "writing" /\ FailUpstream
  BY <1>1, <1>4, FailViews
<1>5. CASE client = "writing" /\ EOF
  BY <1>1, <1>5, EOFViews
<1>6. CASE Break \/ HangUp \/ UNCHANGED chatVars
  BY <1>6 DEF Break, HangUp, chatVars, state
<1>7. ASSUME client = "writing", NEW type \in Kinds, AddItem(type)
      PROVE  Select(out', "finish", Indices) = Select(out, "finish", Indices)
  <2>1. CASE type = "function_call"
    BY <1>1, <1>7, <2>1, CallViews
  <2>2. CASE type # "function_call"
    BY <1>7, <2>2 DEF AddItem
  <2> QED
    BY <2>1, <2>2
<1>8. ASSUME client = "writing", NEW i \in 1..MaxItems, Delta(i)
      PROVE  Select(out', "finish", Indices) = Select(out, "finish", Indices)
  <2>1. CASE output[i].type = "function_call"
    BY <1>1, <1>8, <2>1, ArgumentsViews
  <2>2. CASE output[i].type # "function_call"
    <3>1. "finish" # output[i].type
      BY <1>1, <1>8, <2>2, TextViews
    <3> QED
      BY <1>1, <1>8, <2>2, <3>1, TextViews
  <2> QED
    BY <2>1, <2>2
<1> QED
  BY <1>2, <1>3, <1>4, <1>5, <1>6, <1>7, <1>8 DEF ChatNext

\* The completion writes it.
LEMMA OneFinish ==
  ASSUME OutInv, client = "writing", Complete, Of("finish") = <<>>
  PROVE  Len(Of("finish")') = 1 /\ Of("finish")'[1].piece = Finish
<1> DEFINE F == Chunk("finish", None, Finish)
<1>1. F \in ChunkType /\ F.piece = Finish
  <2>1. Finish \in {"stop", "tool_calls"}
    BY DEF Finish
  <2> QED
    BY <2>1, ChunksTyped
<1>2. Of("finish")' = Append(<<>>, F)
  <2>1. "message" \notin Closing \cup {"role"}
    BY DEF Closing
  <2> QED
    BY <2>1, CompleteViews
<1> HIDE DEF F
<1> QED
  BY <1>1, <1>2, SelectEmpty

LEMMA FinishStep ==
  ASSUME FinishInv, OutInv, ChatTypeOK, ToolsInv, StandInv, [ChatNext]_chatVars
  PROVE  FinishInv'
<1> SUFFICES ASSUME client' # "gone"
             PROVE  IF final' = None THEN Of("finish")' = <<>>
                    ELSE Len(Of("finish")') = 1 /\ Of("finish")'[1].piece = Finish'
  BY DEF FinishInv
<1>1. client = "writing" \/ UNCHANGED chatVars
  BY Reading
<1>2. /\ client # "gone"
      /\ IF final = None THEN Of("finish") = <<>>
         ELSE Len(Of("finish")) = 1 /\ Of("finish")[1].piece = Finish
  BY <1>1 DEF chatVars, state, FinishInv
<1>3. CASE client = "writing" /\ Complete
  <2>1. ended = "open" /\ final = None /\ final' = output /\ output # None
    BY <1>3, NoneAssumption DEF Complete, StandInv, ChatTypeOK
  <2>2. Finish' = Finish
    BY <1>3 DEF Complete, Finish
  <2> QED
    BY <1>2, <1>3, <2>1, <2>2, OneFinish
<1>4. CASE ~(client = "writing" /\ Complete)
  <2>1. Of("finish")' = Of("finish")
    BY <1>4, NoFinish
  <2>2. final' = final
    BY <1>1, <1>4 DEF ChatNext, Created, AddItem, Delta, FailUpstream, EOF, Break, HangUp,
                      chatVars, collecting
  <2>3. final # None => Finish' = Finish
    <3>1. final # None => ended # "open"
      BY DEF StandInv
    <3>2. ended # "open" => tools' = tools
      BY DEF ChatNext, Created, AddItem, Delta, Complete, FailUpstream, EOF, Break, HangUp,
             chatVars, state
    <3> QED
      BY <3>1, <3>2 DEF Finish
  <2> QED
    BY <1>2, <2>1, <2>2, <2>3
<1> QED
  BY <1>3, <1>4

\* The role is written before what needs one, once.
LEMMA OneRole ==
  ASSUME OutInv, OnceInv
  PROVE  /\ Len(Select(WithRole, "role", Indices)) <= 1 /\ WithRole \in Seq(ChunkType)
<1> DEFINE R == Plain("role")
<1>1. R \in ChunkType /\ R.kind = "role" /\ R.index \in Indices
  BY ChunksTyped
<1>2. WithRole = IF roleSent THEN out ELSE Append(out, R)
  BY DEF WithRole
<1> HIDE DEF R
<1>3. CASE roleSent
  BY <1>2, <1>3, RoleWritten, OfWritten DEF OnceInv
<1>4. CASE ~roleSent
  <2>1. Select(out, "role", Indices) = <<>>
    BY <1>4, OfWritten DEF OnceInv
  <2> DEFINE none == Select(out, "role", Indices)
  <2>2. Select(Append(out, R), "role", Indices) = Append(none, R) /\ none = <<>>
    BY <1>1, <2>1, ViewLonger DEF OutInv
  <2>3. Len(none) = 0
    BY <2>2
  <2>4. none \in Seq(ChunkType)
    BY <1>1, SelectLonger DEF OutInv
  <2> HIDE DEF none
  <2>5. Len(Append(none, R)) = 1
    BY <1>1, <2>3, <2>4, AppendJoins
  <2>6. Len(Select(WithRole, "role", Indices)) = 1
    BY <1>2, <1>4, <2>2, <2>5
  <2>7. Len(Select(WithRole, "role", Indices)) <= 1
    <3>1. 1 <= 1
      OBVIOUS
    <3> QED
      BY <2>6, <3>1
  <2> QED
    BY <2>7, RoleWritten
<1> QED
  BY <1>3, <1>4

LEMMA RoleStep ==
  ASSUME OnceInv, OutInv, ChatTypeOK, ToolsInv, StandInv, [ChatNext]_chatVars
  PROVE  Len(Of("role")') <= 1 /\ (~roleSent' => Of("role")' = <<>>)
<1> DEFINE R(chunks) == Select(chunks, "role", Indices)
<1> SUFFICES Len(R(out')) <= 1 /\ (~roleSent' => R(out') = <<>>)
  BY OfWritten
<1>1. /\ "role" \notin Closing /\ "role" # "finish" /\ "role" # "tool"
      /\ "role" # "arguments" /\ "role" \notin Texts
  BY DEF Closing, Texts
<1>2. Len(R(out)) <= 1 /\ (~roleSent => R(out) = <<>>)
  BY OfWritten DEF OnceInv
<1>3. Len(R(WithRole)) <= 1 /\ WithRole \in Seq(ChunkType)
  BY OneRole
<1> HIDE DEF R
<1>4. ~roleSent' => ~roleSent
  BY DEF ChatNext, Created, AddItem, Delta, Complete, FailUpstream, EOF, Break, HangUp,
         WriteWithRole, chatVars, state
<1>5. CASE client # "writing"
  BY <1>2, <1>4, <1>5, Frozen
<1>6. CASE client = "writing" /\ Created
  <2>1. out' = WithRole /\ roleSent'
    BY <1>6, CreatedOut DEF Created, WriteWithRole
  <2> QED
    BY <1>3, <2>1
<1>7. CASE client = "writing" /\ Complete
  <2>1. /\ out' = Append(Counted, Plain("DONE")) /\ roleSent'
        /\ Finished \in Seq(ChunkType) /\ Counted \in Seq(ChunkType)
    BY <1>7, CompleteOut DEF Complete, WriteWithRole
  <2>2. R(Finished) = R(WithRole)
    <3> DEFINE F == Chunk("finish", None, Finish)
    <3>1. F \in ChunkType /\ F.kind = "finish"
      <4>1. Finish \in {"stop", "tool_calls"}
        BY DEF Finish
      <4> QED
        BY <4>1, ChunksTyped
    <3>2. Finished = Append(WithRole, F)
      BY DEF Finished
    <3> HIDE DEF F
    <3> QED
      BY <1>1, <1>3, <3>1, <3>2, ViewLonger DEF R
  <2>3. R(Counted) = R(Finished)
    <3>1. "usage" \in Closing
      BY DEF Closing
    <3>2. R(Append(Finished, Plain("usage"))) = R(Finished)
      BY <1>1, <2>1, <3>1, ClosingViews DEF R
    <3> QED
      BY <3>2 DEF Counted
  <2>4. R(out') = R(Counted)
    <3>1. "DONE" \in Closing
      BY DEF Closing
    <3> QED
      BY <1>1, <2>1, <3>1, ClosingViews DEF R
  <2> QED
    BY <1>3, <2>1, <2>2, <2>3, <2>4
<1>8. CASE client = "writing" /\ FailUpstream
  BY <1>1, <1>2, <1>4, <1>8, FailViews DEF R
<1>9. CASE client = "writing" /\ EOF
  BY <1>1, <1>2, <1>4, <1>9, EOFViews DEF R
<1>10. CASE Break \/ HangUp \/ UNCHANGED chatVars
  BY <1>2, <1>4, <1>10 DEF Break, HangUp, chatVars, state
<1>11. ASSUME client = "writing", NEW type \in Kinds, AddItem(type)
       PROVE  Len(R(out')) <= 1 /\ (~roleSent' => R(out') = <<>>)
  <2>1. CASE type = "function_call"
    <3> DEFINE call == Chunk("tool", nextTool, Len(output) + 1)
    <3>1. /\ out' = Append(WithRole, call) /\ roleSent' = TRUE
          /\ call \in ChunkType /\ call.kind = "tool"
      BY <1>1, <1>11, <2>1, CallViews
    <3> HIDE DEF call
    <3>2. R(Append(WithRole, call)) = R(WithRole)
      BY <1>1, <1>3, <3>1, ViewLonger DEF R
    <3> QED
      BY <1>3, <3>1, <3>2
  <2>2. CASE type # "function_call"
    BY <1>2, <1>4, <1>11, <2>2 DEF AddItem
  <2> QED
    BY <2>1, <2>2
<1>12. ASSUME client = "writing", NEW i \in 1..MaxItems, Delta(i)
       PROVE  Len(R(out')) <= 1 /\ (~roleSent' => R(out') = <<>>)
  <2>1. CASE output[i].type = "function_call"
    <3> DEFINE piece == Chunk("arguments", tools[i], pieces + 1)
    <3>1. out' = Append(out, piece) /\ piece \in ChunkType /\ piece.kind = "arguments"
      BY <1>1, <1>12, <2>1, ArgumentsViews
    <3> HIDE DEF piece
    <3>2. R(Append(out, piece)) = R(out)
      BY <1>1, <3>1, ViewLonger DEF R, OutInv
    <3> QED
      BY <1>2, <1>4, <3>1, <3>2
  <2>2. CASE output[i].type # "function_call"
    <3> DEFINE piece == Chunk(output[i].type, None, pieces + 1)
    <3>1. /\ out' = Append(WithRole, piece) /\ roleSent' = TRUE
          /\ piece \in ChunkType /\ piece.kind = output[i].type /\ output[i].type \in Texts
      BY <1>1, <1>12, <2>2, TextViews
    <3> HIDE DEF piece
    <3>2. R(Append(WithRole, piece)) = R(WithRole)
      <4>1. piece.kind # "role"
        BY <1>1, <3>1
      <4> QED
        BY <1>3, <3>1, <4>1, ViewLonger DEF R
    <3> QED
      BY <1>3, <3>1, <3>2
  <2> QED
    BY <2>1, <2>2
<1> QED
  BY <1>5, <1>6, <1>7, <1>8, <1>9, <1>10, <1>11, <1>12 DEF ChatNext

LEMMA OnceStep ==
  ASSUME OnceInv, OutInv, ChatTypeOK, ToolsInv, StandInv, [ChatNext]_chatVars
  PROVE  OnceInv'
<1>1. Len(Of("role")') <= 1 /\ (~roleSent' => Of("role")' = <<>>)
  BY RoleStep
<1>2. Len(Of("finish")') <= 1 /\ (ended' = "open" => Of("finish")' = <<>>)
  <2>1. CASE client = "writing" /\ Complete
    <3>1. ended = "open" /\ ended' # "open"
      BY <2>1 DEF Complete
    <3>2. Len(Of("finish")') = 1
      BY <2>1, <3>1, OneFinish DEF OnceInv
    <3>3. 1 <= 1
      OBVIOUS
    <3> QED
      BY <3>1, <3>2, <3>3
  <2>2. CASE ~(client = "writing" /\ Complete)
    <3>1. ended' = "open" => ended = "open"
      BY DEF ChatNext, Created, AddItem, Delta, Complete, FailUpstream, EOF, Break, HangUp,
             chatVars, upstream
    <3> QED
      BY <2>2, <3>1, NoFinish DEF OnceInv
  <2> QED
    BY <2>1, <2>2
<1> QED
  BY <1>1, <1>2 DEF OnceInv

Has(chunks, kind) == \E c \in DOMAIN chunks : chunks[c].kind = kind

HasCall(chunks, index) ==
  \E c \in DOMAIN chunks : chunks[c].kind = "tool" /\ chunks[c].index = index

AfterRole == {"message", "reasoning", "tool", "finish"}

\* Each chunk comes after those it needs.
InTurn(chunks, counted) ==
  \A c \in DOMAIN chunks :
    /\ chunks[c].kind \in AfterRole => \E b \in 1..(c - 1) : chunks[b].kind = "role"
    /\ chunks[c].kind = "arguments"
         => \E b \in 1..(c - 1) : chunks[b].kind = "tool" /\ chunks[b].index = chunks[c].index
    /\ chunks[c].kind = "usage" => counted /\ c # 1 /\ chunks[c - 1].kind = "finish"

DoneLast(chunks) == \A c \in DOMAIN chunks : chunks[c].kind = "DONE" => c = Len(chunks)

Done(chunks) == chunks # <<>> /\ Last(chunks).kind = "DONE"

\* What is written can be read, and its handler knows what it has written.
ReadInv ==
  /\ InTurn(out, includeUsage) /\ DoneLast(out)
  /\ client = "writing" =>
       /\ roleSent => Has(out, "role")
       /\ \A i \in CallsMade : HasCall(out, tools[i])
       /\ ~terminalSent => ~Has(out, "DONE")
  /\ (client = "writing" /\ terminalSent) \/ Streamed => Done(out)

\* One chunk more.
LEMMA HasLonger ==
  ASSUME NEW chunks \in Seq(ChunkType), NEW x \in ChunkType
  PROVE  /\ \A kind : Has(Append(chunks, x), kind) <=> Has(chunks, kind) \/ x.kind = kind
         /\ \A index : HasCall(Append(chunks, x), index)
                         <=> HasCall(chunks, index) \/ (x.kind = "tool" /\ x.index = index)
<1> DEFINE X == ChunkType
           n == Len(chunks)
           more == Append(chunks, x)
<1>1. /\ chunks \in Seq(X) /\ x \in X
  OBVIOUS
<1> HIDE DEF X
<1>2. /\ n \in Nat /\ DOMAIN chunks = 1..n /\ DOMAIN more = 1..(n + 1)
      /\ more[n + 1] = x /\ \A c \in 1..n : more[c] = chunks[c]
  BY <1>1, AppendJoins
<1> HIDE DEF n, more
<1>3. \A c : c \in 1..(n + 1) <=> c \in 1..n \/ c = n + 1
  BY <1>2
<1>4. ASSUME NEW kind
      PROVE  Has(more, kind) <=> Has(chunks, kind) \/ x.kind = kind
  <2>1. ASSUME Has(more, kind)
        PROVE  Has(chunks, kind) \/ x.kind = kind
    BY <1>2, <1>3, <2>1 DEF Has
  <2>2. ASSUME Has(chunks, kind) \/ x.kind = kind
        PROVE  Has(more, kind)
    BY <1>2, <1>3, <2>2 DEF Has
  <2> QED
    BY <2>1, <2>2
<1>5. ASSUME NEW index
      PROVE  HasCall(more, index)
               <=> HasCall(chunks, index) \/ (x.kind = "tool" /\ x.index = index)
  <2>1. ASSUME HasCall(more, index)
        PROVE  HasCall(chunks, index) \/ (x.kind = "tool" /\ x.index = index)
    BY <1>2, <1>3, <2>1 DEF HasCall
  <2>2. ASSUME HasCall(chunks, index) \/ (x.kind = "tool" /\ x.index = index)
        PROVE  HasCall(more, index)
    BY <1>2, <1>3, <2>2 DEF HasCall
  <2> QED
    BY <2>1, <2>2
<1> QED
  BY <1>4, <1>5 DEF more

LEMMA TurnLonger ==
  ASSUME NEW chunks \in Seq(ChunkType), NEW x \in ChunkType, NEW counted,
         InTurn(chunks, counted), ~Has(chunks, "DONE"),
         x.kind \in AfterRole => Has(chunks, "role"),
         x.kind = "arguments" => HasCall(chunks, x.index),
         x.kind = "usage" =>
           counted /\ Len(chunks) # 0 /\ chunks[Len(chunks)].kind = "finish"
  PROVE  /\ InTurn(Append(chunks, x), counted) /\ DoneLast(Append(chunks, x))
         /\ x.kind = "DONE" => Done(Append(chunks, x))
<1> DEFINE X == ChunkType
           n == Len(chunks)
           more == Append(chunks, x)
<1>1. /\ chunks \in Seq(X) /\ x \in X
  OBVIOUS
<1> HIDE DEF X
<1>2. /\ n \in Nat /\ DOMAIN chunks = 1..n /\ DOMAIN more = 1..(n + 1) /\ Len(more) = n + 1
      /\ more[n + 1] = x /\ \A c \in 1..n : more[c] = chunks[c]
  BY <1>1, AppendJoins
<1>3. x.kind = "usage" => counted /\ n # 0 /\ chunks[n].kind = "finish"
  OBVIOUS
<1> HIDE DEF n, more
<1>4. \A c : c \in 1..(n + 1) <=> c \in 1..n \/ c = n + 1
  BY <1>2
<1>5. ASSUME NEW c \in 1..n
      PROVE  /\ more[c] = chunks[c] /\ \A b \in 1..(c - 1) : more[b] = chunks[b]
             /\ chunks[c].kind = "usage" => more[c - 1] = chunks[c - 1] \/ c = 1
  <2>1. \A b \in 1..(c - 1) : b \in 1..n
    BY <1>2
  <2>2. c - 1 \in 1..n \/ c = 1
    BY <1>2
  <2> QED
    BY <1>2, <2>1, <2>2
<1>6. ASSUME NEW c \in 1..n
      PROVE  /\ more[c].kind \in AfterRole => \E b \in 1..(c - 1) : more[b].kind = "role"
             /\ more[c].kind = "arguments"
                  => \E b \in 1..(c - 1) : more[b].kind = "tool" /\ more[b].index = more[c].index
  BY <1>2, <1>5 DEF InTurn
<1>7. ASSUME NEW c \in 1..n, more[c].kind = "usage"
      PROVE  counted /\ c # 1 /\ more[c - 1].kind = "finish"
  <2>1. counted /\ c # 1 /\ chunks[c - 1].kind = "finish"
    BY <1>2, <1>5, <1>7 DEF InTurn
  <2> QED
    BY <1>5, <1>7, <2>1
<1>8. (n + 1) - 1 = n
  BY <1>2
<1>9. /\ x.kind \in AfterRole => \E b \in 1..((n + 1) - 1) : more[b].kind = "role"
      /\ x.kind = "arguments"
           => \E b \in 1..((n + 1) - 1) : more[b].kind = "tool" /\ more[b].index = x.index
  BY <1>2, <1>8 DEF Has, HasCall
<1>10. x.kind = "usage" => counted /\ n + 1 # 1 /\ more[(n + 1) - 1].kind = "finish"
  <2>1. n # 0 => n \in 1..n
    BY <1>2
  <2> QED
    BY <1>2, <1>3, <1>8, <2>1
<1>11. InTurn(more, counted)
  BY <1>2, <1>4, <1>6, <1>7, <1>9, <1>10 DEF InTurn
<1>12. DoneLast(more)
  BY <1>2, <1>4 DEF DoneLast, Has
<1>13. x.kind = "DONE" => Done(more)
  <2>1. more # <<>>
    BY <1>2
  <2>2. Last(more) = x
    BY <1>2 DEF Last
  <2> QED
    BY <2>1, <2>2 DEF Done
<1> QED
  BY <1>11, <1>12, <1>13 DEF more

\* The chunks are in their turn and go on.
GoesOn(chunks) ==
  /\ chunks \in Seq(ChunkType) /\ InTurn(chunks, includeUsage) /\ ~Has(chunks, "DONE")
  /\ \A i \in CallsMade : HasCall(chunks, tools[i])

LEMMA TurnOn ==
  ASSUME NEW chunks, GoesOn(chunks), NEW x \in ChunkType,
         x.kind \in AfterRole => Has(chunks, "role"),
         x.kind = "arguments" => HasCall(chunks, x.index),
         x.kind = "usage" =>
           includeUsage /\ Len(chunks) # 0 /\ chunks[Len(chunks)].kind = "finish"
  PROVE  /\ Append(chunks, x) \in Seq(ChunkType)
         /\ InTurn(Append(chunks, x), includeUsage) /\ DoneLast(Append(chunks, x))
         /\ x.kind # "DONE" => GoesOn(Append(chunks, x))
         /\ x.kind = "DONE" => Done(Append(chunks, x))
         /\ \A i \in CallsMade : HasCall(Append(chunks, x), tools[i])
         /\ Has(chunks, "role") => Has(Append(chunks, x), "role")
         /\ Len(Append(chunks, x)) # 0 /\ Append(chunks, x)[Len(Append(chunks, x))] = x
<1> DEFINE more == Append(chunks, x)
<1>1. /\ chunks \in Seq(ChunkType) /\ InTurn(chunks, includeUsage) /\ ~Has(chunks, "DONE")
      /\ \A i \in CallsMade : HasCall(chunks, tools[i])
  BY DEF GoesOn
<1>2. InTurn(more, includeUsage) /\ DoneLast(more) /\ (x.kind = "DONE" => Done(more))
  BY <1>1, TurnLonger
<1>3. /\ \A kind : Has(more, kind) <=> Has(chunks, kind) \/ x.kind = kind
      /\ \A index : HasCall(more, index)
                      <=> HasCall(chunks, index) \/ (x.kind = "tool" /\ x.index = index)
  BY <1>1, HasLonger
<1>4. more \in Seq(ChunkType) /\ Len(more) # 0 /\ more[Len(more)] = x
  <2> DEFINE X == ChunkType
  <2>1. chunks \in Seq(X) /\ x \in X
    BY <1>1
  <2> HIDE DEF X
  <2>2. /\ more \in Seq(X) /\ Len(more) = Len(chunks) + 1 /\ Len(chunks) \in Nat
        /\ more[Len(chunks) + 1] = x
    BY <2>1, AppendJoins
  <2> QED
    BY <2>2 DEF X
<1> HIDE DEF more
<1>5. \A i \in CallsMade : HasCall(more, tools[i])
  BY <1>1, <1>3
<1>6. x.kind # "DONE" => GoesOn(more)
  BY <1>1, <1>2, <1>3, <1>4, <1>5 DEF GoesOn
<1> QED
  BY <1>2, <1>3, <1>4, <1>5, <1>6 DEF more

LEMMA RoleTurn ==
  ASSUME OutInv, ReadInv, client = "writing", ~terminalSent
  PROVE  /\ GoesOn(out) /\ (roleSent => Has(out, "role"))
         /\ GoesOn(WithRole) /\ Has(WithRole, "role") /\ DoneLast(WithRole)
<1> DEFINE R == Plain("role")
<1>1. R \in ChunkType /\ R.kind = "role"
  BY ChunksTyped
<1>2. WithRole = IF roleSent THEN out ELSE Append(out, R)
  BY DEF WithRole
<1> HIDE DEF R
<1>3. GoesOn(out) /\ (roleSent => Has(out, "role")) /\ DoneLast(out)
  BY DEF GoesOn, ReadInv, OutInv
<1>4. "role" \notin AfterRole /\ "role" # "arguments" /\ "role" # "usage" /\ "role" # "DONE"
  BY DEF AfterRole
<1>5. GoesOn(Append(out, R)) /\ DoneLast(Append(out, R))
  BY <1>1, <1>3, <1>4, TurnOn
<1>6. Has(Append(out, R), "role")
  BY <1>1, HasLonger DEF OutInv
<1> QED
  BY <1>2, <1>3, <1>5, <1>6

\* What holds of the chunks, with or without the calls that have been made.
LEMMA ReadFrom ==
  ASSUME InTurn(out', includeUsage), DoneLast(out'),
         \/ Done(out')
         \/ client' = "gone"
         \/ client' = "writing" /\ ~terminalSent'
         \/ client' = "finished" /\ ended' = "broken",
         client' = "writing" =>
           /\ roleSent' => Has(out', "role")
           /\ \A i \in CallsMade' : HasCall(out', tools'[i])
           /\ ~terminalSent' => ~Has(out', "DONE"),
         includeUsage' = includeUsage
  PROVE  ReadInv'
BY DEF ReadInv, InTurn, DoneLast, Has, HasCall, Done, Streamed

LEMMA CompleteTurn ==
  ASSUME OutInv, ReadInv, client = "writing", ~terminalSent, Complete
  PROVE  /\ InTurn(out', includeUsage) /\ DoneLast(out') /\ Done(out')
         /\ Has(out', "role") /\ \A i \in CallsMade : HasCall(out', tools[i])
<1> DEFINE F == Chunk("finish", None, Finish)
           U == Plain("usage")
           D == Plain("DONE")
<1>1. /\ F \in ChunkType /\ F.kind = "finish"
      /\ U \in ChunkType /\ U.kind = "usage" /\ D \in ChunkType /\ D.kind = "DONE"
  <2>1. Finish \in {"stop", "tool_calls"}
    BY DEF Finish
  <2> QED
    BY <2>1, ChunksTyped
<1>2. /\ Finished = Append(WithRole, F)
      /\ Counted = IF includeUsage THEN Append(Finished, U) ELSE Finished
      /\ out' = Append(Counted, D)
  BY CompleteOut DEF Finished, Counted
<1> HIDE DEF F, U, D
<1>3. /\ "finish" # "arguments" /\ "finish" # "usage" /\ "finish" # "DONE"
      /\ "usage" \notin AfterRole /\ "usage" # "arguments" /\ "usage" # "DONE"
      /\ "DONE" \notin AfterRole /\ "DONE" # "arguments" /\ "DONE" # "usage"
  BY DEF AfterRole
<1>4. GoesOn(WithRole) /\ Has(WithRole, "role")
  BY RoleTurn
<1>5. /\ GoesOn(Finished) /\ Has(Finished, "role")
      /\ Len(Finished) # 0 /\ Finished[Len(Finished)].kind = "finish"
  BY <1>1, <1>2, <1>3, <1>4, TurnOn
<1>6. GoesOn(Counted) /\ Has(Counted, "role")
  <2>1. CASE includeUsage
    BY <1>1, <1>2, <1>3, <1>5, <2>1, TurnOn
  <2>2. CASE ~includeUsage
    BY <1>2, <1>5, <2>2
  <2> QED
    BY <2>1, <2>2
<1> QED
  BY <1>1, <1>2, <1>3, <1>6, TurnOn

LEMMA FailTurn ==
  ASSUME OutInv, ReadInv, client = "writing", ~terminalSent, FailUpstream
  PROVE  /\ InTurn(out', includeUsage) /\ DoneLast(out') /\ Done(out')
         /\ roleSent => Has(out', "role")
         /\ \A i \in CallsMade : HasCall(out', tools[i])
<1> DEFINE E == Plain("error")
           D == Plain("DONE")
           told == Append(out, E)
<1>1. /\ E \in ChunkType /\ E.kind = "error" /\ D \in ChunkType /\ D.kind = "DONE"
      /\ out' = Append(told, D)
  BY ChunksTyped, FailOut
<1>2. /\ "error" \notin AfterRole /\ "error" # "arguments" /\ "error" # "usage" /\ "error" # "DONE"
      /\ "DONE" \notin AfterRole /\ "DONE" # "arguments" /\ "DONE" # "usage"
  BY DEF AfterRole
<1>3. GoesOn(out) /\ (roleSent => Has(out, "role"))
  BY RoleTurn
<1> HIDE DEF E, D
<1>4. GoesOn(told) /\ (roleSent => Has(told, "role"))
  BY <1>1, <1>2, <1>3, TurnOn
<1> HIDE DEF told
<1> QED
  BY <1>1, <1>2, <1>4, TurnOn

LEMMA EOFTurn ==
  ASSUME OutInv, ReadInv, client = "writing", EOF
  PROVE  InTurn(out', includeUsage) /\ DoneLast(out') /\ Done(out')
<1> DEFINE D == Plain("DONE")
<1>1. /\ D \in ChunkType /\ D.kind = "DONE"
      /\ out' = IF terminalSent THEN out ELSE Append(out, D)
  BY ChunksTyped, EOFOut
<1>2. "DONE" \notin AfterRole /\ "DONE" # "arguments" /\ "DONE" # "usage"
  BY DEF AfterRole
<1> HIDE DEF D
<1>3. CASE terminalSent
  BY <1>1, <1>3 DEF ReadInv
<1>4. CASE ~terminalSent
  <2>1. GoesOn(out)
    BY <1>4, RoleTurn
  <2> QED
    BY <1>1, <1>2, <1>4, <2>1, TurnOn
<1> QED
  BY <1>3, <1>4

LEMMA ReadStep ==
  ASSUME ReadInv, OutInv, ChatTypeOK, ToolsInv, StandInv, [ChatNext]_chatVars
  PROVE  ReadInv'
<1>1. includeUsage' = includeUsage
  BY DEF ChatNext, Created, AddItem, Delta, Complete, FailUpstream, EOF, Break, HangUp,
         chatVars
<1>2. InTurn(out, includeUsage) /\ DoneLast(out)
  BY DEF ReadInv
<1>3. CASE UNCHANGED chatVars
  BY <1>3 DEF ReadInv, Streamed, InTurn, DoneLast, Done, Has, HasCall, CallsMade, chatVars,
              upstream, state
<1>4. CASE client' = "gone"
  <2>1. out' = out \/ client = "writing"
    BY Frozen
  <2>2. out' = out
    BY <1>4, <2>1 DEF ChatNext, Created, AddItem, Delta, Complete, FailUpstream, EOF, Break,
                      HangUp, chatVars, state
  <2> QED
    BY <1>1, <1>2, <1>4, <2>2, ReadFrom
<1>5. CASE client = "writing" /\ Created
  <2>1. /\ out' = WithRole /\ ~terminalSent /\ ~terminalSent' /\ client' = "writing"
        /\ Still
    BY <1>5, CreatedOut, AsideStill DEF Created, StandInv, Aside
  <2>2. GoesOn(WithRole) /\ Has(WithRole, "role") /\ DoneLast(WithRole)
    BY <1>5, <2>1, RoleTurn
  <2>3. CallsMade' = CallsMade /\ tools' = tools
    BY <2>1, StillTools DEF Still
  <2> QED
    BY <1>1, <2>1, <2>2, <2>3, ReadFrom DEF GoesOn
<1>6. CASE client = "writing" /\ Complete
  <2>1. ~terminalSent /\ terminalSent' /\ Still
    BY <1>6, AsideStill DEF Complete, StandInv, Aside
  <2>2. /\ InTurn(out', includeUsage) /\ DoneLast(out') /\ Done(out')
        /\ Has(out', "role") /\ \A i \in CallsMade : HasCall(out', tools[i])
    BY <1>6, <2>1, CompleteTurn
  <2>3. CallsMade' = CallsMade /\ tools' = tools
    BY <2>1, StillTools DEF Still
  <2> QED
    BY <1>1, <2>1, <2>2, <2>3, ReadFrom
<1>7. CASE client = "writing" /\ FailUpstream
  <2>1. ~terminalSent /\ terminalSent' /\ Still /\ roleSent' = roleSent
    BY <1>7, AsideStill DEF FailUpstream, StandInv, Aside
  <2>2. /\ InTurn(out', includeUsage) /\ DoneLast(out') /\ Done(out')
        /\ roleSent => Has(out', "role")
        /\ \A i \in CallsMade : HasCall(out', tools[i])
    BY <1>7, <2>1, FailTurn
  <2>3. CallsMade' = CallsMade /\ tools' = tools
    BY <2>1, StillTools DEF Still
  <2> QED
    BY <1>1, <2>1, <2>2, <2>3, ReadFrom
<1>8. CASE client = "writing" /\ EOF
  <2>1. InTurn(out', includeUsage) /\ DoneLast(out') /\ Done(out')
    BY <1>8, EOFTurn
  <2>2. client' # "writing"
    BY <1>8 DEF EOF
  <2> QED
    BY <1>1, <2>1, <2>2, ReadFrom
<1>9. CASE client = "writing" /\ Break
  <2>1. client' = "finished" /\ ended' = "broken" /\ out' = out
    BY <1>9 DEF Break
  <2> QED
    BY <1>1, <1>2, <2>1, ReadFrom
<1>10. CASE HangUp
  BY <1>4, <1>10 DEF HangUp
<1>11. ASSUME client = "writing", NEW type \in Kinds, AddItem(type)
       PROVE  ReadInv'
  <2>1. client' = "writing" /\ ~terminalSent /\ ~terminalSent'
    BY <1>11 DEF AddItem, StandInv
  <2>2. /\ GoesOn(out) /\ (roleSent => Has(out, "role"))
        /\ GoesOn(WithRole) /\ Has(WithRole, "role") /\ DoneLast(out)
    BY <1>2, <1>11, <2>1, RoleTurn
  <2>3. CASE type # "function_call"
    <3>1. out' = out /\ roleSent' = roleSent /\ tools' = tools
      BY <1>11, <2>3 DEF AddItem
    <3>2. CallsMade' = CallsMade
      BY <1>11, <2>3, ItemCalls
    <3> QED
      BY <1>1, <2>1, <2>2, <3>1, <3>2, ReadFrom DEF GoesOn
  <2>4. CASE type = "function_call"
    <3> DEFINE x == Len(output) + 1
               call == Chunk("tool", nextTool, x)
    <3>1. "tool" # "role" /\ "tool" # "arguments" /\ "tool" # "usage" /\ "tool" # "DONE"
      OBVIOUS
    <3>2. /\ out' = Append(WithRole, call)
          /\ call \in ChunkType /\ call.kind = "tool" /\ call.index = nextTool
      BY <1>11, <2>4, <3>1, CallViews
    <3>3. /\ CallsMade' = CallsMade \cup {x} /\ tools'[x] = nextTool
          /\ \A i \in CallsMade : tools'[i] = tools[i]
      BY <1>11, <2>4, ItemCalls, ItemTools DEF ToolsInv
    <3> HIDE DEF call, x
    <3>4. GoesOn(out') /\ Has(out', "role") /\ DoneLast(out')
      BY <2>2, <3>1, <3>2, TurnOn
    <3>5. HasCall(out', nextTool)
      <4>1. WithRole \in Seq(ChunkType)
        BY <2>2 DEF GoesOn
      <4> QED
        BY <3>2, <4>1, HasLonger
    <3>6. \A i \in CallsMade' : HasCall(out', tools'[i])
      BY <3>3, <3>4, <3>5 DEF GoesOn
    <3> QED
      BY <1>1, <2>1, <3>4, <3>6, ReadFrom DEF GoesOn
  <2> QED
    BY <2>3, <2>4
<1>12. ASSUME client = "writing", NEW i \in 1..MaxItems, Delta(i)
       PROVE  ReadInv'
  <2>1. client' = "writing" /\ ~terminalSent /\ ~terminalSent' /\ tools' = tools
    BY <1>12 DEF Delta, StandInv
  <2>2. /\ GoesOn(out) /\ (roleSent => Has(out, "role"))
        /\ GoesOn(WithRole) /\ Has(WithRole, "role")
    BY <1>12, <2>1, RoleTurn
  <2>3. CallsMade' = CallsMade
    BY <1>12, PieceCalls
  <2>4. GoesOn(out') /\ DoneLast(out') /\ (roleSent' => Has(out', "role"))
    <3>1. CASE output[i].type = "function_call"
      <4> DEFINE piece == Chunk("arguments", tools[i], pieces + 1)
      <4>1. "arguments" # "role" /\ "arguments" # "usage" /\ "arguments" # "DONE"
            /\ "arguments" \notin AfterRole
        BY DEF AfterRole
      <4>2. /\ i \in CallsMade /\ out' = Append(out, piece) /\ piece \in ChunkType
            /\ piece.kind = "arguments" /\ piece.index = tools[i]
        BY <1>12, <3>1, <4>1, ArgumentsViews
      <4>3. HasCall(out, tools[i])
        BY <2>2, <4>2 DEF GoesOn
      <4>4. roleSent' = roleSent
        BY <1>12, <3>1 DEF Delta
      <4> HIDE DEF piece
      <4> QED
        BY <2>2, <4>1, <4>2, <4>3, <4>4, TurnOn
    <3>2. CASE output[i].type # "function_call"
      <4> DEFINE piece == Chunk(output[i].type, None, pieces + 1)
      <4>1. "message" # "role"
        OBVIOUS
      <4>2. /\ output[i].type \in Texts /\ out' = Append(WithRole, piece)
            /\ piece \in ChunkType /\ piece.kind = output[i].type
        BY <1>12, <3>2, <4>1, TextViews
      <4>3. piece.kind # "arguments" /\ piece.kind # "usage" /\ piece.kind # "DONE"
        BY <4>2 DEF Texts
      <4> HIDE DEF piece
      <4> QED
        BY <2>2, <4>2, <4>3, TurnOn
    <3> QED
      BY <3>1, <3>2
  <2> QED
    BY <1>1, <2>1, <2>3, <2>4, ReadFrom DEF GoesOn
<1>13. CASE client # "writing" /\ client' # "gone"
  BY <1>3, <1>13, Reading
<1> QED
  BY <1>3, <1>4, <1>5, <1>6, <1>7, <1>8, <1>9, <1>10, <1>11, <1>12, <1>13 DEF ChatNext

\* The inductive invariant.
ChatInv ==
  /\ ChatTypeOK /\ ToolsInv /\ NumbersInv /\ StandInv /\ OutInv
  /\ TextInv /\ CallInv /\ FinishInv /\ OnceInv /\ ReadInv

LEMMA Nothing ==
  /\ \A kind, indices : Select(<<>>, kind, indices) = <<>>
  /\ Pieces(<<>>) = <<>>
<1>1. Cardinality({}) = 0 /\ 1..0 = {}
  BY FS_EmptySet
<1>2. ASSUME NEW kind, NEW indices
      PROVE  Select(<<>>, kind, indices) = <<>>
  <2>1. {c \in DOMAIN <<>> : <<>>[c].kind = kind /\ <<>>[c].index \in indices} = {}
    OBVIOUS
  <2>2. At(<<>>, {}) = <<>>
    BY <1>1 DEF At
  <2> QED
    BY <2>1, <2>2 DEF Select
<1>3. Pieces(<<>>) = <<>>
  BY DEF Pieces
<1> QED
  BY <1>2, <1>3

LEMMA ChatInitInv ==
  ASSUME ChatInit
  PROVE  ChatInv
<1>1. /\ output = <<>> /\ pieces = 0 /\ tools = <<>> /\ nextTool = 0 /\ out = <<>>
      /\ final = None /\ ended = "open" /\ client = "writing" /\ collected = "reading"
      /\ roleSent = FALSE /\ terminalSent = FALSE /\ upstreamErr = FALSE /\ started = FALSE
      /\ includeUsage \in BOOLEAN
  BY DEF ChatInit
<1>2. CallsMade = {} /\ Cardinality({}) = 0 /\ 1..0 = {}
  BY <1>1, FS_EmptySet DEF CallsMade
<1>3. ChatTypeOK
  <2>1. /\ tools \in [DOMAIN tools -> 0..(nextTool - 1)] /\ DOMAIN tools = {}
        /\ output \in Seq(Item) /\ Len(output) = 0 /\ DOMAIN output = {}
    BY <1>1
  <2>2. /\ 0 \in 0..MaxItems /\ 0 <= MaxItems /\ 0 \in 0..MaxPieces
    BY BoundsAssumption
  <2> QED
    BY <1>1, <2>1, <2>2 DEF ChatTypeOK, Ends
<1>4. ToolsInv
  BY <1>1, <1>2 DEF ToolsInv
<1>5. StandInv
  BY <1>1 DEF StandInv
<1>6. OutInv
  BY <1>1 DEF OutInv
<1>7. \A kind : Of(kind) = <<>>
  BY <1>1, Nothing DEF Of
<1>8. TextInv
  <2>1. ASSUME NEW text
        PROVE  Arrived(text) = <<>>
    <3>1. Places(text) = {}
      BY <1>1 DEF Places
    <3> QED
      BY <1>2, <3>1 DEF Arrived
  <2> QED
    BY <1>7, <2>1, Nothing DEF TextInv
<1>9. CallInv
  <2>1. Len(<<>>) = 0
    OBVIOUS
  <2> QED
    BY <1>1, <1>2, <1>7, <2>1, Nothing DEF CallInv
<1>10. FinishInv
  BY <1>1, <1>7 DEF FinishInv
<1>11. OnceInv
  <2>1. Len(<<>>) <= 1
    OBVIOUS
  <2> QED
    BY <1>7, <2>1 DEF OnceInv
<1>12. ReadInv
  <2>1. DOMAIN out = {}
    BY <1>1
  <2> QED
    BY <1>1, <1>2, <2>1 DEF ReadInv, InTurn, DoneLast, Has, Streamed
<1>13. NumbersInv
  <2>1. DOMAIN output = {}
    BY <1>1
  <2> QED
    BY <2>1 DEF NumbersInv
<1> QED
  BY <1>3, <1>4, <1>5, <1>6, <1>8, <1>9, <1>10, <1>11, <1>12, <1>13 DEF ChatInv

LEMMA ChatStep ==
  ASSUME ChatInv, [ChatNext]_chatVars
  PROVE  ChatInv'
<1>1. /\ ChatTypeOK /\ ToolsInv /\ NumbersInv /\ StandInv /\ OutInv
      /\ TextInv /\ CallInv /\ FinishInv /\ OnceInv /\ ReadInv
  BY DEF ChatInv
<1>2. /\ ChatTypeOK' /\ ToolsInv' /\ NumbersInv' /\ StandInv' /\ OutInv'
      /\ TextInv' /\ CallInv' /\ FinishInv' /\ OnceInv' /\ ReadInv'
  BY <1>1, AnswerTypeStep, NumbersStep, StandStep, OutStep, TextStep, CallStep, FinishStep, OnceStep, ReadStep
<1> QED
  BY <1>2 DEF ChatInv

LEMMA ChatInvariant == ChatSpec => []ChatInv
<1>1. ChatInit => ChatInv
  BY ChatInitInv
<1>2. ChatInv /\ [ChatNext]_chatVars => ChatInv'
  BY ChatStep
<1> QED
  BY <1>1, <1>2, PTL DEF ChatSpec

\* The index of a call is its number less one.
LEMMA Indexed ==
  ASSUME ChatTypeOK, ToolsInv, NEW c \in 1..nextTool
  PROVE  Calls[c] \in CallsMade /\ tools[Calls[c]] = c - 1
<1> DEFINE i == Calls[c]
           t == tools[i]
<1>1. nextTool = Cardinality(CallsMade) /\ output \in Seq(Item) /\ DOMAIN tools = CallsMade
  BY DEF ChatTypeOK, ToolsInv
<1>2. i \in CallsMade
  BY <1>1, CallsPlaced
<1>3. t \in 0..(nextTool - 1) /\ Calls[t + 1] = i /\ nextTool \in Nat
  BY <1>1, <1>2 DEF ChatTypeOK, ToolsInv
<1>4. t + 1 \in 1..nextTool
  <2> HIDE DEF t
  <2> QED
    BY <1>3
<1>5. t + 1 = c
  BY <1>1, <1>3, <1>4, CallsPlaced
<1>6. t = c - 1
  <2> HIDE DEF t
  <2> QED
    BY <1>3, <1>5
<1> QED
  BY <1>2, <1>6

\* In an order, InOrder lists every member once, and in that order.
LEMMA Listed ==
  ASSUME NEW S, NEW before, Linear(S, before)
  PROVE  /\ Cardinality(S) \in Nat
         /\ \A r \in 1..Cardinality(S) : InOrder(S, before)[r] \in S
         /\ \A x \in S : \E r \in 1..Cardinality(S) : InOrder(S, before)[r] = x
         /\ \A r, q \in 1..Cardinality(S) : InOrder(S, before)[r] = InOrder(S, before)[q] => r = q
         /\ \A r, q \in 1..Cardinality(S) :
              r < q <=> <<InOrder(S, before)[r], InOrder(S, before)[q]>> \in before
<1> DEFINE N == Cardinality(S)
           f == InOrder(S, before)
           C(x) == Cardinality(Below(S, before, x))
<1>1. /\ N \in Nat
      /\ \A r \in 1..N : f[r] \in S /\ C(f[r]) = r - 1
      /\ \A x \in S : C(x) + 1 \in 1..N /\ f[C(x) + 1] = x
  BY Placed
<1>2. ASSUME NEW x \in S, NEW y \in S, <<x, y>> \in before
      PROVE  C(x) <= C(y)
  <2>1. Below(S, before, x) \subseteq Below(S, before, y)
    BY <1>2 DEF Below, Linear
  <2>2. IsFiniteSet(Below(S, before, y))
    <3>1. Below(S, before, y) \subseteq S /\ IsFiniteSet(S)
      BY DEF Below, Linear
    <3> QED
      BY <3>1, FS_Subset
  <2> QED
    BY <2>1, <2>2, FS_Subset
<1> HIDE DEF N, f, C
<1>3. \A r, q \in 1..N : f[r] = f[q] => r = q
  <2> SUFFICES ASSUME NEW r \in 1..N, NEW q \in 1..N, f[r] = f[q]
               PROVE  r = q
    OBVIOUS
  <2>1. r - 1 = q - 1
    BY <1>1
  <2> QED
    BY <1>1, <2>1
<1>4. ASSUME NEW r \in 1..N, NEW q \in 1..N, <<f[r], f[q]>> \in before
      PROVE  r < q
  <2>1. f[r] \in S /\ f[q] \in S /\ C(f[r]) = r - 1 /\ C(f[q]) = q - 1
    BY <1>1
  <2>2. C(f[r]) <= C(f[q])
    BY <1>2, <1>4, <2>1
  <2>3. r # q
    BY <1>4, <2>1 DEF Linear
  <2> QED
    BY <1>1, <2>1, <2>2, <2>3
<1>5. ASSUME NEW r \in 1..N, NEW q \in 1..N, r < q
      PROVE  <<f[r], f[q]>> \in before
  <2>1. f[r] # f[q] /\ f[r] \in S /\ f[q] \in S
    BY <1>1, <1>3, <1>5
  <2>2. ~(<<f[q], f[r]>> \in before)
    BY <1>1, <1>4, <1>5
  <2> QED
    BY <2>1, <2>2 DEF Linear
<1>6. \A x \in S : \E r \in 1..N : f[r] = x
  BY <1>1
<1>7. \A r, q \in 1..N : r < q <=> <<f[r], f[q]>> \in before
  BY <1>4, <1>5
<1> QED
  BY <1>1, <1>3, <1>6, <1>7 DEF N, f

\* The order of convertChatResponse.
Sooner(x, y) ==
  \/ x[1] < y[1]
  \/ x[1] = y[1] /\ Part(x) < Part(y)
  \/ x[1] = y[1] /\ Part(x) = Part(y) /\ x[2] < y[2]

LEMMA SoonerFirst ==
  ASSUME NEW S, NEW x \in S, NEW y \in S
  PROVE  <<x, y>> \in SummaryBefore(S) <=> Sooner(x, y)
<1>1. <<x, y>>[1] = x /\ <<x, y>>[2] = y /\ <<x, y>> \in S \X S
  OBVIOUS
<1> QED
  BY <1>1 DEF SummaryBefore, Sooner

LEMMA EarlierFirst ==
  ASSUME NEW S, NEW x \in S, NEW y \in S
  PROVE  <<x, y>> \in Earlier(S) <=> x[1] < y[1] \/ (x[1] = y[1] /\ x[2] < y[2])
<1>1. <<x, y>>[1] = x /\ <<x, y>>[2] = y /\ <<x, y>> \in S \X S
  OBVIOUS
<1> QED
  BY <1>1 DEF Earlier

LEMMA SummaryLinear ==
  ASSUME NEW m \in Nat, NEW n \in Nat, NEW S \in SUBSET ((1..m) \X (1..n))
  PROVE  Linear(S, SummaryBefore(S))
<1>1. IsFiniteSet(S)
  BY EarlierLinear DEF Linear
<1>2. \A x \in S : x[1] \in Nat /\ x[2] \in Nat /\ x = <<x[1], x[2]>>
  OBVIOUS
<1>3. \A x : Part(x) \in {1, 2}
  BY DEF Part
<1>4. ASSUME NEW x \in S, NEW y \in S
      PROVE  x = y \/ Sooner(x, y) \/ Sooner(y, x)
  <2>1. x[1] = y[1] /\ x[2] = y[2] => x = y
    BY <1>2
  <2>2. /\ x[1] \in Nat /\ x[2] \in Nat /\ y[1] \in Nat /\ y[2] \in Nat
        /\ Part(x) \in {1, 2} /\ Part(y) \in {1, 2}
    BY <1>2, <1>3
  <2> QED
    BY <2>1, <2>2 DEF Sooner
<1>5. ASSUME NEW x \in S, NEW y \in S, NEW z \in S, Sooner(x, y), Sooner(y, z)
      PROVE  Sooner(x, z)
  <2>1. /\ x[1] \in Nat /\ x[2] \in Nat /\ y[1] \in Nat /\ y[2] \in Nat
        /\ z[1] \in Nat /\ z[2] \in Nat
        /\ Part(x) \in {1, 2} /\ Part(y) \in {1, 2} /\ Part(z) \in {1, 2}
    BY <1>2, <1>3
  <2> QED
    BY <1>5, <2>1 DEF Sooner
<1>6. ASSUME NEW x \in S
      PROVE  ~Sooner(x, x)
  <2>1. x[1] \in Nat /\ x[2] \in Nat /\ Part(x) \in {1, 2}
    BY <1>2, <1>3
  <2> QED
    BY <2>1 DEF Sooner
<1> QED
  BY <1>1, <1>4, <1>5, <1>6, SoonerFirst DEF Linear

\* Two pieces of a type are taken in the other order where the second is late.
LEMMA LateSwaps ==
  ASSUME ChatTypeOK, NumbersInv, NEW type,
         NEW x \in Places(type), NEW y \in Places(type), <<x, y>> \in Earlier(Places(type))
  PROVE  Sooner(y, x) <=> Late(PieceAt(x), PieceAt(y))
<1>1. /\ x[1] \in DOMAIN output /\ x[2] \in DOMAIN output[x[1]].pieces
      /\ y[1] \in DOMAIN output /\ y[2] \in DOMAIN output[y[1]].pieces
      /\ x[1] \in Nat /\ x[2] \in Nat /\ y[1] \in Nat /\ y[2] \in Nat
  BY DEF Places
<1>2. x[1] < y[1] \/ (x[1] = y[1] /\ x[2] < y[2])
  BY EarlierFirst
<1>3. PieceAt(x) = output[x[1]].pieces[x[2]] /\ PieceAt(y) = output[y[1]].pieces[y[2]]
  BY DEF PieceAt
<1>4. ASSUME NEW i \in DOMAIN output, {PieceAt(x), PieceAt(y)} \subseteq ToSet(output[i].pieces)
      PROVE  x[1] = i /\ y[1] = i
  <2>1. PICK k \in DOMAIN output[i].pieces : output[i].pieces[k] = PieceAt(x)
    BY <1>4 DEF ToSet
  <2>2. PICK l \in DOMAIN output[i].pieces : output[i].pieces[l] = PieceAt(y)
    BY <1>4 DEF ToSet
  <2>3. \A a, b \in DOMAIN output :
          a # b => \A p \in DOMAIN output[a].pieces, q \in DOMAIN output[b].pieces :
                     output[a].pieces[p] # output[b].pieces[q]
    BY DEF NumbersInv
  <2> QED
    BY <1>1, <1>3, <2>1, <2>2, <2>3
<1>5. ASSUME x[1] = y[1]
      PROVE  PieceAt(x) < PieceAt(y)
  <2>1. x[2] < y[2]
    BY <1>1, <1>2, <1>5
  <2> QED
    BY <1>1, <1>3, <1>5, <2>1 DEF NumbersInv
<1>6. ASSUME Sooner(y, x)
      PROVE  Late(PieceAt(x), PieceAt(y))
  <2>1. x[1] = y[1] /\ Part(y) < Part(x)
    BY <1>1, <1>2, <1>6 DEF Sooner
  <2>2. PieceAt(y) \in output[y[1]].summary /\ PieceAt(x) \notin output[x[1]].summary
    BY <2>1 DEF Part
  <2>3. {PieceAt(x), PieceAt(y)} \subseteq ToSet(output[x[1]].pieces)
    BY <1>1, <1>3, <2>1 DEF ToSet
  <2> QED
    BY <1>1, <1>5, <2>1, <2>2, <2>3 DEF Late
<1>7. ASSUME Late(PieceAt(x), PieceAt(y))
      PROVE  Sooner(y, x)
  <2>1. PICK i \in DOMAIN output :
          /\ {PieceAt(x), PieceAt(y)} \subseteq ToSet(output[i].pieces)
          /\ PieceAt(x) \notin output[i].summary /\ PieceAt(y) \in output[i].summary
    BY <1>7 DEF Late
  <2>2. x[1] = i /\ y[1] = i
    BY <1>4, <2>1
  <2>3. Part(x) = 2 /\ Part(y) = 1
    BY <2>1, <2>2 DEF Part
  <2> QED
    BY <2>2, <2>3 DEF Sooner
<1> QED
  BY <1>6, <1>7

LEMMA PiecesBounded ==
  ASSUME ChatTypeOK, NumbersInv, NEW type, NEW x \in Places(type)
  PROVE  PieceAt(x) \in 1..MaxPieces
<1>1. /\ PieceAt(x) = output[x[1]].pieces[x[2]]
      /\ x[1] \in DOMAIN output /\ x[2] \in DOMAIN output[x[1]].pieces
  BY DEF Places, PieceAt
<1>2. PieceAt(x) \in 1..pieces /\ pieces \in 0..MaxPieces /\ MaxPieces \in Nat
  BY <1>1, BoundsAssumption DEF NumbersInv, ChatTypeOK
<1> QED
  BY <1>2

LEMMA BothLinear ==
  ASSUME NEW type
  PROVE  /\ Linear(Places(type), Earlier(Places(type)))
         /\ Linear(Places(type), SummaryBefore(Places(type)))
<1> DEFINE P == Places(type)
<1>1. MaxItems \in Nat /\ MaxPieces \in Nat
  BY BoundsAssumption
<1>2. P \in SUBSET ((1..MaxItems) \X (1..MaxPieces))
  BY DEF Places
<1> HIDE DEF P
<1>3. Linear(P, Earlier(P)) /\ Linear(P, SummaryBefore(P))
  BY <1>1, <1>2, EarlierLinear, SummaryLinear
<1> QED
  BY <1>3 DEF P

\* Where no summary is late, the order is that in which the pieces came.
LEMMA OrderKept ==
  ASSUME ChatTypeOK, NumbersInv, NEW type,
         \A x, y \in Places(type) : ~Late(PieceAt(x), PieceAt(y))
  PROVE  Joined(type) = Arrived(type)
<1> DEFINE P == Places(type)
<1>1. Linear(P, Earlier(P)) /\ Linear(P, SummaryBefore(P))
  BY BothLinear
<1>2. ASSUME NEW x \in P, NEW y \in P
      PROVE  <<x, y>> \in Earlier(P) <=> <<x, y>> \in SummaryBefore(P)
  <2>1. <<x, y>> \in Earlier(P) => ~Sooner(y, x)
    BY LateSwaps
  <2>2. <<y, x>> \in Earlier(P) => ~Sooner(x, y)
    BY LateSwaps
  <2> HIDE DEF P
  <2>3. /\ <<x, y>> \in SummaryBefore(P) <=> Sooner(x, y)
        /\ <<y, x>> \in SummaryBefore(P) <=> Sooner(y, x)
    BY SoonerFirst
  <2>4. x = y => <<x, y>> \notin Earlier(P) /\ <<x, y>> \notin SummaryBefore(P)
    BY <1>1 DEF Linear
  <2>5. x # y => <<x, y>> \in Earlier(P) \/ <<y, x>> \in Earlier(P)
    BY <1>1 DEF Linear
  <2>6. x # y => <<x, y>> \in SummaryBefore(P) \/ <<y, x>> \in SummaryBefore(P)
    BY <1>1 DEF Linear
  <2>7. ~(<<x, y>> \in SummaryBefore(P) /\ <<y, x>> \in SummaryBefore(P))
    BY <1>1 DEF Linear
  <2> QED
    BY <2>1, <2>2, <2>3, <2>4, <2>5, <2>6, <2>7
<1>3. Earlier(P) = SummaryBefore(P)
  <2> HIDE DEF P
  <2>1. Earlier(P) \subseteq P \X P /\ SummaryBefore(P) \subseteq P \X P
    BY DEF Earlier, SummaryBefore
  <2>2. ASSUME NEW pair \in P \X P
        PROVE  pair \in Earlier(P) <=> pair \in SummaryBefore(P)
    <3>1. pair[1] \in P /\ pair[2] \in P /\ pair = <<pair[1], pair[2]>>
      OBVIOUS
    <3>2. <<pair[1], pair[2]>> \in Earlier(P) <=> <<pair[1], pair[2]>> \in SummaryBefore(P)
      BY <1>2, <3>1
    <3> QED
      BY <3>1, <3>2
  <2> QED
    BY <2>1, <2>2
<1> QED
  BY <1>3 DEF Joined, Arrived, PieceAt

\* The two orders of the reasoning compared.
LEMMA ReasoningRearranged ==
  ASSUME ChatTypeOK, NumbersInv
  PROVE  Rearranged(Arrived("reasoning"), Joined("reasoning"))
<1> DEFINE P == Places("reasoning")
           N == Cardinality(P)
           f == InOrder(P, Earlier(P))
           g == InOrder(P, SummaryBefore(P))
           s == Arrived("reasoning")
           j == Joined("reasoning")
<1>1. Linear(P, Earlier(P)) /\ Linear(P, SummaryBefore(P))
  BY BothLinear
<1>2. /\ s = [r \in 1..N |-> PieceAt(f[r])]
      /\ j = [r \in 1..N |-> PieceAt(g[r])]
  BY DEF Arrived, Joined, PieceAt
<1>3. ASSUME NEW x \in P, NEW y \in P, PieceAt(x) = PieceAt(y)
      PROVE  x = y
  <2>1. /\ x[1] \in DOMAIN output /\ x[2] \in DOMAIN output[x[1]].pieces
        /\ y[1] \in DOMAIN output /\ y[2] \in DOMAIN output[y[1]].pieces
        /\ x[2] \in Nat /\ y[2] \in Nat /\ x = <<x[1], x[2]>> /\ y = <<y[1], y[2]>>
    BY DEF Places
  <2>2. output[x[1]].pieces[x[2]] = output[y[1]].pieces[y[2]]
    BY <1>3 DEF PieceAt
  <2>3. x[1] = y[1]
    BY <2>1, <2>2 DEF NumbersInv
  <2>4. ~(x[2] < y[2]) /\ ~(y[2] < x[2])
    <3> DEFINE piece == output[x[1]].pieces
    <3>1. /\ x[2] \in DOMAIN piece /\ y[2] \in DOMAIN piece /\ piece[x[2]] = piece[y[2]]
          /\ \A k, l \in DOMAIN piece : k < l => piece[k] < piece[l]
          /\ piece[x[2]] \in 1..pieces
      BY <2>1, <2>2, <2>3 DEF NumbersInv
    <3>2. piece[x[2]] \in Int /\ piece[y[2]] \in Int
      BY <3>1
    <3> HIDE DEF piece
    <3> QED
      BY <3>1, <3>2
  <2>5. x[2] = y[2]
    BY <2>1, <2>4
  <2> QED
    BY <2>1, <2>3, <2>5
<1>4. ASSUME NEW x \in P, NEW y \in P, <<x, y>> \in Earlier(P)
      PROVE  <<y, x>> \in SummaryBefore(P) <=> Late(PieceAt(x), PieceAt(y))
  BY <1>4, LateSwaps, SoonerFirst
<1> HIDE DEF P
<1>5. /\ N \in Nat
      /\ \A r \in 1..N : f[r] \in P /\ g[r] \in P
      /\ \A x \in P : (\E r \in 1..N : f[r] = x) /\ (\E r \in 1..N : g[r] = x)
      /\ \A r, q \in 1..N : f[r] = f[q] => r = q
      /\ \A r, q \in 1..N : r < q <=> <<f[r], f[q]>> \in Earlier(P)
      /\ \A r, q \in 1..N : r < q <=> <<g[r], g[q]>> \in SummaryBefore(P)
  BY <1>1, Listed
<1> HIDE DEF N, f, g, s, j
<1>6. DOMAIN s = 1..N /\ DOMAIN j = 1..N /\ Len(s) = N /\ Len(j) = N
  BY <1>2, <1>5
<1>7. \A r \in 1..N : s[r] = PieceAt(f[r]) /\ j[r] = PieceAt(g[r])
  BY <1>2
<1>8. ToSet(s) = ToSet(j)
  <2>1. \A r \in 1..N : \E q \in 1..N : j[q] = s[r]
    BY <1>5, <1>7
  <2>2. \A r \in 1..N : \E q \in 1..N : s[q] = j[r]
    BY <1>5, <1>7
  <2>3. ToSet(s) = {s[r] : r \in 1..N} /\ ToSet(j) = {j[r] : r \in 1..N}
    BY <1>6 DEF ToSet
  <2>4. {s[r] : r \in 1..N} = {j[r] : r \in 1..N}
    BY <2>1, <2>2
  <2> QED
    BY <2>3, <2>4
<1>9. \A k, l \in 1..N : s[k] = s[l] => k = l
  BY <1>3, <1>5, <1>7
<1>10. ASSUME NEW k \in 1..N, NEW l \in 1..N, NEW m \in 1..N, NEW n \in 1..N,
              k < l, j[m] = s[k], j[n] = s[l]
       PROVE  n < m <=> Late(s[k], s[l])
  <2>1. g[m] = f[k] /\ g[n] = f[l]
    BY <1>3, <1>5, <1>7, <1>10
  <2>2. f[k] \in P /\ f[l] \in P /\ <<f[k], f[l]>> \in Earlier(P)
    BY <1>5, <1>10
  <2>3. n < m <=> <<f[l], f[k]>> \in SummaryBefore(P)
    BY <1>5, <2>1
  <2>4. <<f[l], f[k]>> \in SummaryBefore(P) <=> Late(PieceAt(f[k]), PieceAt(f[l]))
    BY <1>4, <2>2
  <2> QED
    BY <1>7, <2>3, <2>4
<1>11. Rearranged(s, j)
  BY <1>6, <1>8, <1>9, <1>10 DEF Rearranged
<1> QED
  BY <1>11 DEF s, j

\* What is put together from the chunks is what the response is converted to,
\* but for the order of the reasoning.
LEMMA Agreed ==
  ASSUME ChatInv, Streamed, collected = "answer"
  PROVE  /\ Assembled.content = Converted.content
         /\ Assembled.tool_calls = Converted.tool_calls
         /\ Assembled.reasoning_content = Arrived("reasoning")
         /\ Assembled = [Converted EXCEPT !.reasoning_content = Arrived("reasoning")]
<1>1. ChatTypeOK /\ ToolsInv /\ NumbersInv /\ output \in Seq(Item) /\ client = "finished" /\ client # "gone"
  BY DEF ChatInv, ChatTypeOK, Streamed
<1>2. /\ Pieces(Of("message")) = Arrived("message")
      /\ Pieces(Of("reasoning")) = Arrived("reasoning")
  BY <1>1 DEF ChatInv, TextInv, Texts
<1>3. /\ nextTool = Cardinality(CallsMade) /\ DOMAIN tools = CallsMade
      /\ DOMAIN Calls = 1..nextTool /\ nextTool \in Nat
  BY <1>1, CallsPlaced DEF ToolsInv
<1>4. /\ Len(Of("tool")) = nextTool
      /\ \A i \in CallsMade :
           /\ Select(out, "tool", {tools[i]})[1].piece = i
           /\ Pieces(Select(out, "arguments", {tools[i]})) = output[i].pieces
  BY <1>1 DEF ChatInv, CallInv
<1>5. DOMAIN Of("tool") = DOMAIN Calls
  <2>1. Of("tool") \in Seq(ChunkType)
    <3>1. out \in Seq(ChunkType) /\ Plain("DONE") \in ChunkType
      BY ChunksTyped DEF ChatInv, OutInv
    <3> QED
      BY <3>1, SelectLonger DEF Of
  <2> DEFINE told == Of("tool")
  <2>2. Len(told) = nextTool /\ told \in Seq(ChunkType)
    BY <1>4, <2>1
  <2> HIDE DEF told
  <2>3. DOMAIN told = 1..nextTool
    BY <2>2
  <2> QED
    BY <1>3, <2>3 DEF told
<1>6. ASSUME NEW c \in DOMAIN Calls
      PROVE  /\ Select(out, "tool", {c - 1})[1].piece = Calls[c]
             /\ Pieces(Select(out, "arguments", {c - 1})) = output[Calls[c]].pieces
  <2>1. Calls[c] \in CallsMade /\ tools[Calls[c]] = c - 1
    BY <1>1, <1>3, <1>6, Indexed
  <2> QED
    BY <1>4, <2>1
<1>7. Of("finish")[1].piece = IF Calls # <<>> THEN "tool_calls" ELSE "stop"
  <2>1. final # None
    BY DEF ChatInv, StandInv
  <2>2. Of("finish")[1].piece = Finish
    BY <1>1, <2>1 DEF ChatInv, FinishInv
  <2>3. Calls # <<>> <=> DOMAIN tools # {}
    <3>1. CASE nextTool = 0
      <4>1. DOMAIN Calls = {} /\ 1..nextTool = {}
        BY <1>3, <3>1
      <4>2. Calls = <<>>
        BY <4>1, <1>3, <3>1 DEF Calls, InOrder
      <4>3. CallsMade = {}
        <5>1. \A i \in CallsMade : tools[i] \in 0..(0 - 1)
          BY <1>1, <1>3, <3>1 DEF ChatTypeOK
        <5> QED
          BY <5>1
      <4> QED
        BY <1>3, <4>2, <4>3
    <3>2. CASE nextTool # 0
      <4>1. 1 \in 1..nextTool
        BY <1>3, <3>2
      <4>2. Calls[1] \in CallsMade
        BY <1>1, <4>1, Indexed
      <4>3. Calls # <<>>
        <5>1. DOMAIN <<>> = {}
          OBVIOUS
        <5> QED
          BY <1>3, <4>1, <5>1
      <4> QED
        BY <1>3, <4>2, <4>3
    <3> QED
      BY <3>1, <3>2
  <2> QED
    BY <2>2, <2>3 DEF Finish
<1>8. [c \in DOMAIN Of("tool") |->
         [id |-> Select(out, "tool", {c - 1})[1].piece,
          arguments |-> Pieces(Select(out, "arguments", {c - 1}))]]
        = [c \in DOMAIN Calls |-> [id |-> Calls[c], arguments |-> output[Calls[c]].pieces]]
  BY <1>5, <1>6
<1>9. Arrived("message") = Joined("message")
  <2>1. ASSUME NEW x \in Places("message"), NEW y \in Places("message"),
               Late(PieceAt(x), PieceAt(y))
        PROVE  FALSE
    <3>1. PICK i \in DOMAIN output :
            PieceAt(y) \in ToSet(output[i].pieces) /\ PieceAt(y) \in output[i].summary
      BY <2>1 DEF Late
    <3>2. PICK k \in DOMAIN output[i].pieces : output[i].pieces[k] = PieceAt(y)
      BY <3>1 DEF ToSet
    <3>3. /\ y[1] \in DOMAIN output /\ output[y[1]].type = "message"
          /\ y[2] \in DOMAIN output[y[1]].pieces
          /\ PieceAt(y) = output[y[1]].pieces[y[2]]
      BY DEF Places, PieceAt
    <3>4. i = y[1]
      BY <1>1, <3>2, <3>3 DEF NumbersInv
    <3> QED
      BY <1>1, <3>1, <3>3, <3>4 DEF NumbersInv
  <2> QED
    BY <1>1, <2>1, OrderKept
<1> DEFINE record(reasoning) ==
             [content |-> Joined("message"), reasoning_content |-> reasoning,
              tool_calls |-> Converted.tool_calls, finish_reason |-> Converted.finish_reason]
<1>10. Converted = record(Joined("reasoning"))
  BY DEF Converted
<1>11. Assembled = record(Arrived("reasoning"))
  BY <1>2, <1>7, <1>8, <1>9 DEF Assembled, Converted
<1> QED
  BY <1>10, <1>11

\* A streaming client gets the collected answer, but for the order of late
\* summaries, in chunks it can read (chat.go:311-403, 442-583).
THEOREM StreamedAsCollected == ChatSpec => []StreamedAnswer
<1>1. ASSUME ChatInv
      PROVE  StreamAgrees
  <2> SUFFICES ASSUME Streamed
               PROVE  IF collected = "answer"
                      THEN /\ [Assembled EXCEPT !.reasoning_content = Joined("reasoning")]
                                = Converted
                           /\ Rearranged(Assembled.reasoning_content,
                                         Converted.reasoning_content)
                           /\ SummariesFirst => Assembled = Converted
                      ELSE Of("finish") = <<>>
    BY DEF StreamAgrees
  <2>1. CASE collected = "answer"
    <3>1. ChatTypeOK /\ NumbersInv
      BY <1>1 DEF ChatInv
    <3>2. /\ Assembled.reasoning_content = Arrived("reasoning")
          /\ Assembled = [Converted EXCEPT !.reasoning_content = Arrived("reasoning")]
      BY <1>1, <2>1, Agreed
    <3>3. Converted.reasoning_content = Joined("reasoning")
      BY DEF Converted
    <3>4. [Assembled EXCEPT !.reasoning_content = Joined("reasoning")] = Converted
      <4> DEFINE with(answer, kept) == [answer EXCEPT !.reasoning_content = kept]
      <4>1. PICK c, r, t, f :
              Converted = [content |-> c, reasoning_content |-> r,
                           tool_calls |-> t, finish_reason |-> f]
        BY DEF Converted
      <4>2. r = Joined("reasoning")
        BY <3>3, <4>1
      <4>3. \A old, kept :
              with([content |-> c, reasoning_content |-> old,
                    tool_calls |-> t, finish_reason |-> f], kept)
                = [content |-> c, reasoning_content |-> kept,
                   tool_calls |-> t, finish_reason |-> f]
        OBVIOUS
      <4>4. Assembled = with(Converted, Arrived("reasoning"))
        BY <3>2
      <4>5. with(Assembled, r) = Converted
        <5> HIDE DEF with
        <5> QED
          BY <4>1, <4>3, <4>4, Zenon
      <4> QED
        BY <4>2, <4>5, Zenon
    <3>5. Rearranged(Assembled.reasoning_content, Converted.reasoning_content)
      BY <3>1, <3>2, <3>3, ReasoningRearranged
    <3>6. ASSUME SummariesFirst
          PROVE  Assembled = Converted
      <4>1. Joined("reasoning") = Arrived("reasoning")
        BY <3>1, <3>6, PiecesBounded, OrderKept DEF SummariesFirst
      <4>2. Assembled = [Assembled EXCEPT !.reasoning_content = Arrived("reasoning")]
        BY <3>2 DEF Converted
      <4> QED
        BY <3>4, <4>1, <4>2
    <3> QED
      BY <2>1, <3>4, <3>5, <3>6
  <2>2. CASE collected # "answer"
    <3>1. final = None /\ client # "gone"
      BY <1>1, <2>2 DEF ChatInv, StandInv, Streamed
    <3> QED
      BY <1>1, <2>2, <3>1 DEF ChatInv, FinishInv
  <2> QED
    BY <2>1, <2>2
<1>2. ASSUME ChatInv
      PROVE  Readable
  <2>1. Len(Of("role")) <= 1 /\ Len(Of("finish")) <= 1
    BY <1>2 DEF ChatInv, OnceInv
  <2>2. /\ InTurn(out, includeUsage) /\ DoneLast(out)
        /\ Streamed => Done(out)
    BY <1>2 DEF ChatInv, ReadInv
  <2> QED
    BY <2>1, <2>2 DEF Readable, InTurn, DoneLast, Done, AfterRole
<1>3. ChatInv => StreamedAnswer
  BY <1>1, <1>2 DEF StreamedAnswer
<1> QED
  BY <1>3, ChatInvariant, PTL

\* Every variable stays in its type, and no tool index is given out twice
\* (chat.go:533-551).
THEOREM ChatTyped == ChatSpec => []ChatTypeOK
<1>1. ChatInv => ChatTypeOK
  BY DEF ChatInv
<1> QED
  BY <1>1, ChatInvariant, PTL

\* The items of an interval.
LEMMA AtInterval ==
  ASSUME NEW items, NEW a \in Nat, NEW n \in Nat
  PROVE  At(items, (a + 1)..(a + n)) = [r \in 1..n |-> items[a + r]]
<1> DEFINE S == (a + 1)..(a + n)
           order == Ascending(S)
<1>1. Cardinality(S) = n
  <2>1. a + 1 \in Int /\ a + n \in Int
    OBVIOUS
  <2>2. Cardinality(S) = IF a + 1 > a + n THEN 0 ELSE (a + n) - (a + 1) + 1
    BY <2>1, FS_Interval
  <2> DEFINE k == Cardinality(S)
  <2>3. k = IF a + 1 > a + n THEN 0 ELSE (a + n) - (a + 1) + 1
    BY <2>2
  <2> HIDE DEF k
  <2>4. k = n
    BY <2>3
  <2> QED
    BY <2>4 DEF k
<1>2. Linear(S, order)
  <2>1. a + n \in Nat /\ S \in SUBSET (1..(a + n))
    OBVIOUS
  <2> HIDE DEF S
  <2> QED
    BY <2>1, AscendingLinear
<1>3. ASSUME NEW r \in 1..n
      PROVE  InOrder(S, order)[r] = a + r
  <2>1. Below(S, order, a + r) = (a + 1)..(a + r - 1)
    BY DEF Below, Ascending
  <2>2. Cardinality((a + 1)..(a + r - 1)) = r - 1
    <3>1. a + 1 \in Int /\ a + r - 1 \in Int
      OBVIOUS
    <3> DEFINE k == Cardinality((a + 1)..(a + r - 1))
    <3>2. k = IF a + 1 > a + r - 1 THEN 0 ELSE (a + r - 1) - (a + 1) + 1
      BY <3>1, FS_Interval
    <3> HIDE DEF k
    <3>3. k = r - 1
      BY <3>2
    <3> QED
      BY <3>3 DEF k
  <2>3. a + r \in S /\ (r - 1) + 1 = r
    OBVIOUS
  <2> HIDE DEF S, order
  <2>4. InOrder(S, order)[Cardinality(Below(S, order, a + r)) + 1] = a + r
    BY <1>2, <2>3, Placed
  <2> QED
    BY <2>1, <2>2, <2>3, <2>4
<1> HIDE DEF S
<1>4. At(items, S) = [r \in 1..n |-> items[InOrder(S, order)[r]]]
  BY <1>1 DEF At
<1> HIDE DEF order
<1>5. At(items, S) = [r \in 1..n |-> items[a + r]]
  BY <1>3, <1>4
<1> QED
  BY <1>5 DEF S

\* What is sent back: the message, if there is one, the calls and their results.
LEMMA SentBack ==
  ASSUME NEW X, NEW A \in Seq(X), NEW B \in Seq(X), NEW C \in Seq(X), NEW n \in Nat,
         Len(B) = n, Len(C) = n
  PROVE  LET input == (A \o B) \o C
         IN  /\ Len(A) \in Nat /\ DOMAIN input = 1..(Len(A) + n + n)
             /\ \A i \in 1..Len(A) : input[i] = A[i]
             /\ \A r \in 1..n : input[Len(A) + r] = B[r]
             /\ \A r \in 1..n : input[Len(A) + n + r] = C[r]
<1> DEFINE a == Len(A)
           AB == A \o B
           input == AB \o C
<1>1. /\ a \in Nat /\ AB \in Seq(X) /\ Len(AB) = a + n
      /\ \A i \in 1..(a + n) : AB[i] = IF i <= a THEN A[i] ELSE B[i - a]
  BY ConcatProperties
<1> HIDE DEF AB
<1>2. /\ input \in Seq(X) /\ Len(input) = Len(AB) + Len(C)
      /\ \A i \in 1..(Len(AB) + Len(C)) :
           input[i] = IF i <= Len(AB) THEN AB[i] ELSE C[i - Len(AB)]
  BY <1>1, ConcatProperties
<1> HIDE DEF a, input
<1>3. /\ Len(input) = a + n + n
      /\ \A i \in 1..(a + n + n) :
           input[i] = IF i <= a + n THEN AB[i] ELSE C[i - (a + n)]
  BY <1>1, <1>2
<1>4. ASSUME NEW i \in 1..a
      PROVE  input[i] = A[i]
  <2>1. i \in 1..(a + n) /\ i \in 1..(a + n + n) /\ i <= a /\ i <= a + n
    BY <1>1
  <2> QED
    BY <1>1, <1>3, <2>1
<1>5. ASSUME NEW r \in 1..n
      PROVE  input[a + r] = B[r] /\ input[a + n + r] = C[r]
  <2>1. /\ a + r \in 1..(a + n) /\ a + r \in 1..(a + n + n) /\ ~(a + r <= a) /\ a + r <= a + n
        /\ (a + r) - a = r
        /\ a + n + r \in 1..(a + n + n) /\ ~(a + n + r <= a + n) /\ (a + n + r) - (a + n) = r
    BY <1>1
  <2> QED
    BY <1>1, <1>3, <2>1
<1>6. DOMAIN input = 1..(a + n + n)
  BY <1>2, <1>3
<1> QED
  BY <1>1, <1>4, <1>5, <1>6 DEF a, input, AB

Sent == [type : {"message", "function_call", "function_call_output"}, id : Nat \cup {None}]

LEMMA Resent ==
  ASSUME ChatInv, Streamed, collected = "answer"
  PROVE  LET input == AssistantInput(Assembled) \o ToolInput(Assembled)
             some(type) == At(input, {i \in DOMAIN input : input[i].type = type})
             ids(type) == [c \in DOMAIN some(type) |-> some(type)[c].id]
         IN  ids("function_call") = Calls /\ ids("function_call_output") = Calls
<1> DEFINE content == Converted.content
           A == IF content # <<>> THEN <<[type |-> "message", id |-> None]>> ELSE <<>>
           B == [c \in 1..nextTool |-> [type |-> "function_call", id |-> Calls[c]]]
           C == [c \in 1..nextTool |-> [type |-> "function_call_output", id |-> Calls[c]]]
           n == nextTool
           a == Len(A)
           input == (A \o B) \o C
<1>1. /\ ChatTypeOK /\ ToolsInv /\ output \in Seq(Item)
      /\ Assembled.content = Converted.content
      /\ Assembled.tool_calls = Converted.tool_calls
  BY Agreed DEF ChatInv, ChatTypeOK
<1>2. /\ n = Cardinality(CallsMade) /\ DOMAIN Calls = 1..n /\ n \in Nat
      /\ \A c \in 1..n : Calls[c] \in Nat
  BY <1>1, CallsPlaced DEF ToolsInv
<1>3. Calls = [c \in 1..n |-> Calls[c]]
  <2>1. ASSUME NEW S, NEW before
        PROVE  InOrder(S, before) = [r \in 1..Cardinality(S) |-> InOrder(S, before)[r]]
    <3> DEFINE at(r) == CHOOSE x \in S : Cardinality({y \in S : <<y, x>> \in before}) = r - 1
    <3>1. InOrder(S, before) = [r \in 1..Cardinality(S) |-> at(r)]
      BY DEF InOrder
    <3> HIDE DEF at
    <3> QED
      BY <3>1
  <2> QED
    BY <1>2, <2>1 DEF Calls
<1>4. /\ DOMAIN Converted.tool_calls = 1..n
      /\ \A c \in 1..n : Converted.tool_calls[c].id = Calls[c]
  BY <1>2 DEF Converted
<1>5. AssistantInput(Assembled) \o ToolInput(Assembled) = input
  BY <1>1, <1>4 DEF AssistantInput, ToolInput
<1> HIDE DEF content
<1>6. /\ B \in [1..n -> Sent] /\ C \in [1..n -> Sent] /\ A \in Seq(Sent)
      /\ a = 0 \/ (a = 1 /\ A[1].type = "message")
  <2>1. A \in Seq(Sent) /\ (a = 0 \/ (a = 1 /\ A[1].type = "message"))
    <3>1. CASE content = <<>>
      BY <3>1
    <3>2. CASE content # <<>>
      <4> DEFINE m == [type |-> "message", id |-> None]
      <4>1. m \in Sent /\ m.type = "message"
        BY DEF Sent
      <4>2. A = <<m>>
        BY <3>2
      <4> HIDE DEF m, A
      <4> QED
        BY <4>1, <4>2
    <3> QED
      BY <3>1, <3>2
  <2>2. ASSUME NEW c \in 1..n
        PROVE  B[c] \in Sent /\ C[c] \in Sent
    BY <1>2 DEF Sent
  <2> QED
    BY <2>1, <2>2
<1>7. \A c \in 1..n : /\ B[c].type = "function_call" /\ B[c].id = Calls[c]
                      /\ C[c].type = "function_call_output" /\ C[c].id = Calls[c]
  OBVIOUS
<1> HIDE DEF A, B, C, n
<1>8. /\ B \in Seq(Sent) /\ Len(B) = n /\ C \in Seq(Sent) /\ Len(C) = n
  BY <1>2, <1>6, Listing
<1>9. /\ a \in Nat /\ DOMAIN input = 1..(a + n + n)
      /\ \A i \in 1..a : input[i] = A[i]
      /\ \A r \in 1..n : input[a + r] = B[r]
      /\ \A r \in 1..n : input[a + n + r] = C[r]
  <2>1. /\ A \in Seq(Sent) /\ B \in Seq(Sent) /\ C \in Seq(Sent) /\ n \in Nat
        /\ Len(B) = n /\ Len(C) = n
    BY <1>2, <1>6, <1>8
  <2> DEFINE X == Sent
  <2>2. /\ A \in Seq(X) /\ B \in Seq(X) /\ C \in Seq(X)
    BY <2>1
  <2> HIDE DEF X
  <2>3. LET sent == (A \o B) \o C
        IN  /\ Len(A) \in Nat /\ DOMAIN sent = 1..(Len(A) + n + n)
            /\ \A i \in 1..Len(A) : sent[i] = A[i]
            /\ \A r \in 1..n : sent[Len(A) + r] = B[r]
            /\ \A r \in 1..n : sent[Len(A) + n + r] = C[r]
    BY <2>1, <2>2, SentBack, SMTT(20)
  <2> QED
    BY <2>3
<1> HIDE DEF a, input
<1> DEFINE S(type) == {i \in DOMAIN input : input[i].type = type}
<1>10. ASSUME NEW i \in DOMAIN input
       PROVE  /\ i \in 1..a => input[i].type = "message"
              /\ i \in (a + 1)..(a + n) => input[i].type = "function_call"
              /\ i \in ((a + n) + 1)..((a + n) + n) => input[i].type = "function_call_output"
              /\ i \in 1..a \/ i \in (a + 1)..(a + n) \/ i \in ((a + n) + 1)..((a + n) + n)
  <2>1. i \in 1..(a + n + n)
    BY <1>9
  <2>2. i \in 1..a => i = 1 /\ a = 1
    BY <1>6, <1>9 DEF a
  <2>3. i \in (a + 1)..(a + n) => i - a \in 1..n /\ a + (i - a) = i
    BY <1>2, <1>9, <2>1
  <2>4. i \in ((a + n) + 1)..((a + n) + n) => i - a - n \in 1..n /\ a + n + (i - a - n) = i
    BY <1>2, <1>9, <2>1
  <2>5. i \in 1..a \/ i \in (a + 1)..(a + n) \/ i \in ((a + n) + 1)..((a + n) + n)
    BY <1>2, <1>9, <2>1
  <2>6. i \in 1..a => input[i].type = "message"
    BY <1>6, <1>9, <2>2 DEF a
  <2>7. i \in (a + 1)..(a + n) => input[i].type = "function_call"
    BY <1>7, <1>9, <2>3
  <2>8. i \in ((a + n) + 1)..((a + n) + n) => input[i].type = "function_call_output"
    BY <1>7, <1>9, <2>4
  <2> QED
    BY <2>5, <2>6, <2>7, <2>8
<1>11. S("function_call") = (a + 1)..(a + n)
  <2>1. (a + 1)..(a + n) \subseteq DOMAIN input
    BY <1>2, <1>9
  <2> QED
    BY <1>10, <2>1
<1>12. S("function_call_output") = ((a + n) + 1)..((a + n) + n)
  <2>1. ((a + n) + 1)..((a + n) + n) \subseteq DOMAIN input
    BY <1>2, <1>9
  <2> QED
    BY <1>10, <2>1
<1>13. At(input, S("function_call")) = [r \in 1..n |-> B[r]]
  <2>1. At(input, (a + 1)..(a + n)) = [r \in 1..n |-> input[a + r]]
    <3>1. a \in Nat /\ n \in Nat
      BY <1>2, <1>9
    <3> QED
      BY <3>1, AtInterval
  <2>2. [r \in 1..n |-> input[a + r]] = [r \in 1..n |-> B[r]]
    <3> DEFINE sent(r) == input[a + r]
    <3>1. \A r \in 1..n : sent(r) = B[r]
      BY <1>9
    <3> HIDE DEF sent
    <3>2. [r \in 1..n |-> sent(r)] = [r \in 1..n |-> B[r]]
      BY <3>1
    <3> QED
      BY <3>2 DEF sent
  <2> HIDE DEF S
  <2> QED
    BY <1>11, <2>1, <2>2
<1>14. At(input, S("function_call_output")) = [r \in 1..n |-> C[r]]
  <2>1. a + n \in Nat
    BY <1>2, <1>9
  <2>2. At(input, ((a + n) + 1)..((a + n) + n)) = [r \in 1..n |-> input[(a + n) + r]]
    <3> DEFINE k == a + n
    <3>1. k \in Nat /\ n \in Nat
      BY <1>2, <2>1
    <3> HIDE DEF k
    <3>2. At(input, (k + 1)..(k + n)) = [r \in 1..n |-> input[k + r]]
      BY <3>1, AtInterval
    <3> QED
      BY <3>2 DEF k
  <2>3. [r \in 1..n |-> input[(a + n) + r]] = [r \in 1..n |-> C[r]]
    <3> DEFINE sent(r) == input[(a + n) + r]
    <3>1. \A r \in 1..n : sent(r) = C[r]
      BY <1>9
    <3> HIDE DEF sent
    <3>2. [r \in 1..n |-> sent(r)] = [r \in 1..n |-> C[r]]
      BY <3>1
    <3> QED
      BY <3>2 DEF sent
  <2> HIDE DEF S
  <2> QED
    BY <1>12, <2>2, <2>3
<1> DEFINE some(type) == At(input, S(type))
           ids(type) == [c \in DOMAIN some(type) |-> some(type)[c].id]
<1>15. ASSUME NEW sent, NEW type, some(type) = [r \in 1..n |-> sent[r]],
              \A c \in 1..n : sent[c].id = Calls[c]
       PROVE  ids(type) = Calls
  <2>1. DOMAIN some(type) = 1..n /\ \A c \in 1..n : some(type)[c].id = Calls[c]
    BY <1>15
  <2> HIDE DEF some
  <2>2. ids(type) = [c \in 1..n |-> Calls[c]]
    BY <2>1
  <2> QED
    BY <1>3, <2>2
<1> HIDE DEF ids
<1>16. ids("function_call") = Calls
  BY <1>7, <1>13, <1>15
<1>17. ids("function_call_output") = Calls
  BY <1>7, <1>14, <1>15
<1> QED
  BY <1>5, <1>16, <1>17 DEF ids

\* Sent back with the client's results, each call of the answer reaches
\* upstream with its result behind it, in the order the calls were made
\* (chat.go:164-184).
THEOREM CallsSentBack == ChatSpec => []ResentPaired
<1>1. ChatInv => ResentPaired
  BY Resent DEF ResentPaired
<1> QED
  BY <1>1, ChatInvariant, PTL
=============================================================================
