------------------------------ MODULE Lifecycle ------------------------------
(***************************************************************************)
(* Accepting, finishing and cutting off the proxy's requests while the     *)
(* server shuts down: run of cmd/server/main.go, beginRequest, endRequest, *)
(* BeginShutdown and WaitForIdle of internal/proxy/service.go, and the     *)
(* registry of downstream WebSockets of internal/proxy/websocket.go.       *)
(*                                                                         *)
(* A request is a goroutine of net/http.  What it does with upstream is    *)
(* left out: it goes on until it finishes by itself, its client leaves or  *)
(* the server closes its connection.  The request-log cleanup is the third *)
(* user of the database.                                                   *)
(***************************************************************************)
EXTENDS Naturals, FiniteSets

CONSTANTS Requests,    \* requests that reach the proxy
          WebSockets   \* those to GET /v1/responses that upgrade

ASSUME WebSocketsAssumption == WebSockets \subseteq Requests /\ IsFiniteSet(Requests)

VARIABLES
  main,          \* where run is
  result,        \* what run returns
  shuttingDown,  \* s.shuttingDown
  active,        \* s.activeRequests
  idle,          \* s.idle, its channels numbered
  closedIdle,    \* the channels that are closed
  awaited,       \* the channel WaitForIdle waits on
  pc,            \* where each request is
  conn,          \* its client connection
  registry,      \* websocketRegistry.connections
  registryClosed,\* websocketRegistry.closed
  toClose,       \* the connections closeAll has copied and not yet closed
  cleaner,       \* runRequestLogCleanup
  database       \* whether the database is open

service == <<shuttingDown, active, idle, closedIdle>>
sockets == <<registry, registryClosed, toClose>>
vars == <<main, result, service, awaited, pc, conn, sockets, cleaner, database>>

Over == {"waiting", "refused", "done"}

Accepted == {r \in Requests : pc[r] \notin Over}

TypeOK ==
  /\ main \in {"up", "signalled", "flagged", "closing", "shutdown", "drain",
               "await", "stop", "join", "closed"}
  /\ result \in {"none", "clean", "error"}
  /\ shuttingDown \in BOOLEAN
  /\ active \in 0..Cardinality(Requests)
  /\ idle \in Nat
  /\ closedIdle \subseteq 0..idle
  /\ awaited \in 0..idle
  /\ pc \in [Requests -> Over \cup {"upgrading", "upgraded", "serving",
                                    "recording", "leaving", "ending"}]
  /\ conn \in [Requests -> {"open", "closed"}]
  /\ registry \subseteq WebSockets
  /\ registryClosed \in BOOLEAN
  /\ toClose \subseteq WebSockets
  /\ cleaner \in {"idle", "deleting", "done"}
  /\ database \in {"open", "closed"}

Init ==
  /\ main = "up"
  /\ result = "none"
  /\ shuttingDown = FALSE
  /\ active = 0
  /\ idle = 0
  /\ closedIdle = {0}
  /\ awaited = 0
  /\ pc = [r \in Requests |-> "waiting"]
  /\ conn = [r \in Requests |-> "open"]
  /\ registry = {}
  /\ registryClosed = FALSE
  /\ toClose = {}
  /\ cleaner = "idle"
  /\ database = "open"

-----------------------------------------------------------------------------
\* A request.

Goto(r, where) == pc' = [pc EXCEPT ![r] = where]

\* beginRequest counts it under the lock, with a new channel for the first.
BeginKeepingIdle(r) ==
  /\ pc[r] = "waiting"
  /\ ~shuttingDown
  /\ active' = active + 1
  /\ Goto(r, IF r \in WebSockets THEN "upgrading" ELSE "serving")
  /\ UNCHANGED <<main, result, shuttingDown, idle, closedIdle, awaited, conn,
                 sockets, cleaner, database>>

Begin(r) ==
  /\ pc[r] = "waiting"
  /\ ~shuttingDown
  /\ idle' = IF active = 0 THEN idle + 1 ELSE idle
  /\ active' = active + 1
  /\ Goto(r, IF r \in WebSockets THEN "upgrading" ELSE "serving")
  /\ UNCHANGED <<main, result, shuttingDown, closedIdle, awaited, conn, sockets,
                 cleaner, database>>

RefuseAfterDefer(r) ==
  /\ pc[r] = "waiting"
  /\ shuttingDown
  /\ Goto(r, "ending")
  /\ UNCHANGED <<main, result, service, awaited, conn, sockets, cleaner, database>>

\* 503 server_shutting_down.
Refuse(r) ==
  /\ pc[r] = "waiting"
  /\ shuttingDown
  /\ Goto(r, "refused")
  /\ UNCHANGED <<main, result, service, awaited, conn, sockets, cleaner, database>>

\* From Upgrade on net/http no longer knows the connection.
Upgrade(r) ==
  /\ pc[r] = "upgrading"
  /\ IF conn[r] = "open" THEN Goto(r, "upgraded") ELSE Goto(r, "ending")
  /\ UNCHANGED <<main, result, service, awaited, conn, sockets, cleaner, database>>

RegisterAlways(r) ==
  /\ pc[r] = "upgraded"
  /\ registry' = registry \cup {r}
  /\ Goto(r, "serving")
  /\ UNCHANGED <<main, result, service, awaited, conn, registryClosed, toClose,
                 cleaner, database>>

\* registry.add.
Register(r) ==
  /\ pc[r] = "upgraded"
  /\ IF registryClosed
     THEN /\ conn' = [conn EXCEPT ![r] = "closed"]
          /\ Goto(r, "ending")
          /\ UNCHANGED registry
     ELSE /\ registry' = registry \cup {r}
          /\ Goto(r, "serving")
          /\ UNCHANGED conn
  /\ UNCHANGED <<main, result, service, awaited, registryClosed, toClose, cleaner,
                 database>>

ClientLeaves(r) ==
  /\ pc[r] \in {"upgrading", "upgraded", "serving"}
  /\ conn[r] = "open"
  /\ conn' = [conn EXCEPT ![r] = "closed"]
  /\ UNCHANGED <<main, result, service, awaited, pc, sockets, cleaner, database>>

\* The response is complete, or the session ends by itself.
Served(r) ==
  /\ pc[r] = "serving"
  /\ conn[r] = "open"
  /\ Goto(r, "recording")
  /\ UNCHANGED <<main, result, service, awaited, conn, sockets, cleaner, database>>

\* The closed connection cancels the context; a session between two turns has
\* nothing to record.
Interrupted(r) ==
  /\ pc[r] = "serving"
  /\ conn[r] = "closed"
  /\ \/ Goto(r, "recording")
     \/ r \in WebSockets /\ Goto(r, "leaving")
  /\ UNCHANGED <<main, result, service, awaited, conn, sockets, cleaner, database>>

\* record, at the latest 3 seconds later.
Logged(r) ==
  /\ pc[r] = "recording"
  /\ Goto(r, IF r \in WebSockets THEN "leaving" ELSE "ending")
  /\ UNCHANGED <<main, result, service, awaited, conn, sockets, cleaner, database>>

\* registry.remove and the close of the connection.
Leave(r) ==
  /\ pc[r] = "leaving"
  /\ registry' = registry \ {r}
  /\ conn' = [conn EXCEPT ![r] = "closed"]
  /\ Goto(r, "ending")
  /\ UNCHANGED <<main, result, service, awaited, registryClosed, toClose, cleaner,
                 database>>

\* endRequest.
End(r) ==
  /\ pc[r] = "ending"
  /\ active' = active - 1
  /\ closedIdle' = IF active = 1 THEN closedIdle \cup {idle} ELSE closedIdle
  /\ Goto(r, "done")
  /\ UNCHANGED <<main, result, shuttingDown, idle, awaited, conn, sockets, cleaner,
                 database>>

-----------------------------------------------------------------------------
\* The request-log cleanup.

CleanerTick ==
  /\ cleaner = "idle"
  /\ cleaner' = "deleting"
  /\ UNCHANGED <<main, result, service, awaited, pc, conn, sockets, database>>

Deleted ==
  /\ cleaner = "deleting"
  /\ cleaner' = "idle"
  /\ UNCHANGED <<main, result, service, awaited, pc, conn, sockets, database>>

\* Its context is done; select may still take a tick that is due first.
CleanerStops ==
  /\ cleaner = "idle"
  /\ main \in {"join", "closed"}
  /\ cleaner' = "done"
  /\ UNCHANGED <<main, result, service, awaited, pc, conn, sockets, database>>

-----------------------------------------------------------------------------
\* run.

Step(from, to) == main = from /\ main' = to

Return(from, what) ==
  /\ Step(from, "stop")
  /\ result' = what
  /\ UNCHANGED <<service, pc, conn, sockets, cleaner, database>>

\* ListenAndServe fails.
ServeFails == Return("up", "error") /\ UNCHANGED awaited

Signal ==
  /\ Step("up", "signalled")
  /\ UNCHANGED <<result, service, awaited, pc, conn, sockets, cleaner, database>>

\* BeginShutdown.
RaiseFlag ==
  /\ Step("signalled", "flagged")
  /\ shuttingDown' = TRUE
  /\ UNCHANGED <<result, active, idle, closedIdle, awaited, pc, conn, sockets,
                 cleaner, database>>

CloseAll ==
  /\ Step("flagged", "closing")
  /\ registryClosed' = TRUE
  /\ toClose' = registry
  /\ UNCHANGED <<result, service, awaited, pc, conn, registry, cleaner, database>>

CloseOne(r) ==
  /\ main = "closing"
  /\ r \in toClose
  /\ toClose' = toClose \ {r}
  /\ conn' = [conn EXCEPT ![r] = "closed"]
  /\ UNCHANGED <<main, result, service, awaited, pc, registry, registryClosed,
                 cleaner, database>>

AllClosed ==
  /\ Step("closing", "shutdown")
  /\ toClose = {}
  /\ UNCHANGED <<result, service, awaited, pc, conn, sockets, cleaner, database>>

\* The connections net/http still has, those of the WebSockets not among them.
KnownToServer ==
  {r \in Requests : pc[r] = "upgrading" \/ (r \notin WebSockets /\ pc[r] \notin Over)}

\* server.Shutdown waits for them.
Shutdown ==
  /\ Step("shutdown", "drain")
  /\ KnownToServer = {}
  /\ UNCHANGED <<result, service, awaited, pc, conn, sockets, cleaner, database>>

ShutdownKeepingConnections ==
  /\ Step("shutdown", "drain")
  /\ UNCHANGED <<result, service, awaited, pc, conn, sockets, cleaner, database>>

\* After 15 seconds server.Close closes them.
ShutdownTimesOut ==
  /\ Step("shutdown", "drain")
  /\ conn' = [r \in Requests |-> IF r \in KnownToServer THEN "closed" ELSE conn[r]]
  /\ UNCHANGED <<result, service, awaited, pc, sockets, cleaner, database>>

\* WaitForIdle: one look under the lock, then one channel.
FindIdle == active = 0 /\ Return("drain", "clean") /\ UNCHANGED awaited

WaitForIdle ==
  /\ Step("drain", "await")
  /\ active # 0
  /\ awaited' = idle
  /\ UNCHANGED <<result, service, pc, conn, sockets, cleaner, database>>

BecomeIdle == awaited \in closedIdle /\ Return("await", "clean") /\ UNCHANGED awaited

\* After 5 seconds.
DrainTimesOut == Return("await", "error") /\ UNCHANGED awaited

\* The deferred calls: the cleanup is stopped and joined, then the session
\* store and the database are closed.
StopCleaner ==
  /\ Step("stop", "join")
  /\ UNCHANGED <<result, service, awaited, pc, conn, sockets, cleaner, database>>

CloseDatabase ==
  /\ Step("join", "closed")
  /\ cleaner = "done"
  /\ database' = "closed"
  /\ UNCHANGED <<result, service, awaited, pc, conn, sockets, cleaner>>

Main ==
  \/ ServeFails \/ Signal \/ RaiseFlag \/ CloseAll
  \/ \E r \in Requests : CloseOne(r)
  \/ AllClosed \/ Shutdown \/ ShutdownTimesOut \/ FindIdle \/ WaitForIdle
  \/ BecomeIdle \/ DrainTimesOut \/ StopCleaner \/ CloseDatabase

Request(r) ==
  \/ Begin(r) \/ Refuse(r) \/ Upgrade(r) \/ Register(r) \/ ClientLeaves(r)
  \/ Served(r) \/ Interrupted(r) \/ Logged(r) \/ Leave(r) \/ End(r)

Cleanup == CleanerTick \/ Deleted \/ CleanerStops

Next ==
  \/ Main
  \/ \E r \in Requests : Request(r)
  \/ Cleanup

Spec == Init /\ [][Next]_vars

\* A signal and the drain's timeout may never come, and a request need not
\* finish by itself; everything else the code does it does without waiting
\* for anybody: the calls of run, the end of a request whose connection is
\* closed, and the timer of server.Shutdown.
Fairness ==
  /\ WF_vars(RaiseFlag \/ CloseAll \/ AllClosed \/ Shutdown \/ ShutdownTimesOut
             \/ WaitForIdle \/ FindIdle \/ BecomeIdle \/ StopCleaner \/ CloseDatabase)
  /\ \A r \in Requests :
       /\ WF_vars(CloseOne(r))
       /\ WF_vars(Upgrade(r) \/ Register(r) \/ Interrupted(r) \/ Logged(r)
                  \/ Leave(r) \/ End(r))

FairSpec == Spec /\ Fairness

-----------------------------------------------------------------------------
\* The channel is closed exactly while no accepted request is unfinished, so
\* endRequest never closes it twice (service.go:167-181).
IdleSignal ==
  /\ active = Cardinality(Accepted)
  /\ active = 0 <=> idle \in closedIdle

\* The database closes behind those that use it: a shutdown reported as clean
\* has let every accepted request finish and write its log, and the cleanup is
\* over in any case (service.go:184-194, main.go:82-86).
DatabaseClosesLast ==
  /\ result = "clean" => Accepted = {}
  /\ database = "closed" => cleaner = "done"

\* No session is served on an open connection once closeAll is through, also
\* if its upgrade was under way (service.go:186-191, websocket.go:72-76).
SessionsCutOff ==
  main \in {"shutdown", "drain", "await"} =>
    \A r \in registry : conn[r] = "closed"

\* After a signal every accepted request ends, without the drain's timeout
\* being needed for it: those that would go on forever are cut off.
ShutdownEndsRequests == main = "signalled" ~> (Accepted = {} \/ result = "error")

\* The order of a shutdown: sessions are cut off before requests are waited
\* for, and the database closes last (main.go:82-126, service.go:184-194).
ShutdownInOrder == SessionsCutOff /\ DatabaseClosesLast
=============================================================================
