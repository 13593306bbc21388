------------------------------ MODULE AdminAccess ------------------------------
(***************************************************************************)
(* The administrator's sign-in of internal/web: EnsureAdminPassword,       *)
(* loginHandler with the login limiter, requireAdmin, logoutHandler and    *)
(* changePassword, over the settings row and the session store.            *)
(*                                                                         *)
(* A call is a goroutine serving one request; it gives way wherever it     *)
(* reads or writes the database, the session store or the limiter.  All    *)
(* calls come from one address, since the limiter's entries of two never   *)
(* touch.  A hash is known by the password and by the number of the change *)
(* that made it: bcrypt's salt makes two hashes of one password differ.    *)
(***************************************************************************)
EXTENDS Integers, FiniteSets, Sequences

CONSTANTS Calls,      \* goroutines that serve administration requests
          Passwords,
          Tokens,     \* bound: session tokens handed out
          Limit,      \* failures of a window that block an address
          Window,     \* its length
          Block,      \* length of a block
          MaxTime,    \* bound: the clock
          MaxChanges, \* bound: changes of the password
          None

\* Blocks outlast windows: 30 minutes and 15, five failures (middleware.go:212, 225-226).
ASSUME BoundsAssumption ==
  /\ Calls # {} /\ IsFiniteSet(Calls)
  /\ {Limit, Window, Block, MaxTime, MaxChanges} \subseteq Nat
  /\ 2 <= Limit /\ 0 < Window /\ Window < Block

VARIABLES
  up,       \* the server is running
  hash,     \* the settings row admin_password_hash
  sessions, \* the value stored for a token
  attempt,  \* the limiter's entry, or None
  now,      \* the clock
  pc,       \* where each call is
  call,     \* what it holds
  issued,   \* history: the hash a token was handed out for
  fails,    \* history: when attempts failed, within a window and since a success
  promise   \* history: the last block, and who had been let in before it

server == <<up, hash, sessions>>
serving == <<pc, call>>
history == <<issued, fails, promise>>
vars == <<server, attempt, now, serving, history>>

Hash == [password : Passwords, change : 0..MaxChanges]

Attempt == [count : 0..Limit, start : 0..MaxTime, till : 0..(MaxTime + Block)]

ASSUME NoneAssumption == None \notin Hash \cup Tokens \cup Passwords \cup Attempt

Promise == [till : 0..(MaxTime + Block), lifted : BOOLEAN, before : SUBSET Calls]

\* What a call holds: the password it was given, the hash it has read, the
\* token it uses or makes, and the new password.
Held == [given : Passwords \cup {None}, hash : Hash \cup {None},
         token : Tokens \cup {None}, next : Passwords \cup {None}]
Idle == [given |-> None, hash |-> None, token |-> None, next |-> None]

SigningIn == {"admitted", "wrong", "right", "stored"}
Working == {a \in Calls : pc[a] \in SigningIn}

\* The type invariant; a blocked address has no count (middleware.go:224-229).
TypeOK ==
  /\ up \in BOOLEAN
  /\ hash \in Hash \cup {None}
  /\ sessions \in [Tokens -> Hash \cup {None}]
  /\ attempt \in Attempt \cup {None}
  /\ attempt # None => attempt.count < Limit
  /\ now \in 0..MaxTime
  /\ pc \in [Calls -> SigningIn \cup {"idle", "fetched", "acting", "changing"}]
  /\ call \in [Calls -> Held]
  /\ issued \in [Tokens -> Hash \cup {None}]
  /\ fails \in Seq(0..MaxTime)
  /\ promise \in Promise \cup {None}

Init ==
  /\ up = FALSE
  /\ hash = None
  /\ sessions = [t \in Tokens |-> None]
  /\ attempt = None
  /\ now = 0
  /\ pc = [a \in Calls |-> "idle"]
  /\ call = [a \in Calls |-> Idle]
  /\ issued = [t \in Tokens |-> None]
  /\ fails = <<>>
  /\ promise = None

-----------------------------------------------------------------------------
\* The server and the clock.

\* EnsureAdminPassword: a configured or generated password, if there is none.
Ensured(password) ==
  IF hash = None THEN [password |-> password, change |-> 0] ELSE hash

Start(password) ==
  /\ ~up
  /\ up' = TRUE
  /\ hash' = Ensured(password)
  /\ UNCHANGED <<sessions, attempt, now, serving, history>>

\* Sessions in memory are lost, those in Redis are not.
Crash ==
  /\ up
  /\ up' = FALSE
  /\ sessions' \in {sessions, [t \in Tokens |-> None]}
  /\ attempt' = None
  /\ pc' = [a \in Calls |-> "idle"]
  /\ call' = [a \in Calls |-> Idle]
  /\ fails' = <<>>
  /\ promise' = None
  /\ UNCHANGED <<hash, now, issued>>

\* Times, oldest first, without those that are out of the window at an instant.
Recent(times, at) ==
  LET kept  == {i \in 1..Len(times) : at - times[i] <= Window} \cup {Len(times) + 1}
      first == CHOOSE i \in kept : \A j \in kept : i <= j
  IN  SubSeq(times, first, Len(times))

Tick ==
  /\ now < MaxTime
  /\ now' = now + 1
  /\ fails' = Recent(fails, now + 1)
  /\ UNCHANGED <<server, attempt, serving, issued, promise>>

Expire(t) ==
  /\ sessions[t] # None
  /\ sessions' = [sessions EXCEPT ![t] = None]
  /\ UNCHANGED <<up, hash, attempt, now, serving, history>>

-----------------------------------------------------------------------------
\* The login limiter.

BlockedByCount == attempt # None /\ attempt.count >= Limit

Blocked == attempt # None /\ now < attempt.till

Lapsed == attempt = None \/ now - attempt.start > Window

\* Allow, where it allows.
Allowed == IF Lapsed THEN None ELSE attempt

FailureKeepingCount ==
  LET current == IF Lapsed THEN [count |-> 0, start |-> now, till |-> 0] ELSE attempt
      count == current.count + 1
  IN  [current EXCEPT !.count = count,
                      !.till = IF count >= Limit THEN now + Block ELSE @]

\* Failure.
Failure ==
  LET current == IF Lapsed THEN [count |-> 0, start |-> now, till |-> 0] ELSE attempt
      count == current.count + 1
  IN  IF count >= Limit
      THEN [current EXCEPT !.till = now + Block, !.count = 0]
      ELSE [current EXCEPT !.count = count]

-----------------------------------------------------------------------------
\* loginHandler.

Goto(a, label) == pc' = [pc EXCEPT ![a] = label]

Return(a) == Goto(a, "idle") /\ call' = [call EXCEPT ![a] = Idle]

Admit(a, password) ==
  /\ up
  /\ pc[a] = "idle"
  /\ ~Blocked
  /\ attempt' = Allowed
  /\ Goto(a, "admitted")
  /\ call' = [call EXCEPT ![a].given = password]
  /\ UNCHANGED <<server, now, history>>

\* GetSetting and CheckPassword.
ReadHash(a) ==
  /\ pc[a] = "admitted"
  /\ Goto(a, IF hash.password = call[a].given THEN "right" ELSE "wrong")
  /\ call' = [call EXCEPT ![a].hash = hash]
  /\ UNCHANGED <<server, attempt, now, history>>

\* The body cannot be decoded, or a store fails.
Abort(a) ==
  /\ pc[a] \in {"admitted", "right"}
  /\ Return(a)
  /\ UNCHANGED <<server, attempt, now, history>>

\* A call let in before a block has come to its end.
Late(a) ==
  promise' = IF promise # None /\ a \in promise.before
             THEN [promise EXCEPT !.lifted = TRUE]
             ELSE promise

Fail(a) ==
  /\ pc[a] = "wrong"
  /\ attempt' = Failure
  /\ fails' = Append(fails, now)
  /\ IF Failure.till > now /\ ~Blocked
     THEN promise' = [till |-> Failure.till, lifted |-> FALSE,
                      before |-> Working \ {a}]
     ELSE Late(a)
  /\ Return(a)
  /\ UNCHANGED <<server, now, issued>>

\* adminSessionValue.
Value(h) == h

PutSessionNow(a, t) ==
  /\ pc[a] = "right"
  /\ issued[t] = None
  /\ \A b \in Calls : call[b].token # t
  /\ sessions' = [sessions EXCEPT ![t] = Value(hash)]
  /\ Goto(a, "stored")
  /\ call' = [call EXCEPT ![a].token = t]
  /\ UNCHANGED <<up, hash, attempt, now, history>>

PutSession(a, t) ==
  /\ pc[a] = "right"
  /\ issued[t] = None
  /\ \A b \in Calls : call[b].token # t
  /\ sessions' = [sessions EXCEPT ![t] = Value(call[a].hash)]
  /\ Goto(a, "stored")
  /\ call' = [call EXCEPT ![a].token = t]
  /\ UNCHANGED <<up, hash, attempt, now, history>>

\* Success and the cookie.
Welcome(a) ==
  /\ pc[a] = "stored"
  /\ attempt' = None
  /\ issued' = [issued EXCEPT ![call[a].token] = call[a].hash]
  /\ fails' = <<>>
  /\ Late(a)
  /\ Return(a)
  /\ UNCHANGED <<server, now>>

-----------------------------------------------------------------------------
\* requireAdmin and the calls behind it.

\* The stored value is read; without one the call is refused.
Authenticate(a, t) ==
  /\ up
  /\ pc[a] = "idle"
  /\ issued[t] # None
  /\ sessions[t] # None
  /\ Goto(a, "fetched")
  /\ call' = [call EXCEPT ![a].token = t, ![a].hash = sessions[t]]
  /\ UNCHANGED <<server, attempt, now, history>>

\* GetSetting and the comparison.
Verify(a) ==
  /\ pc[a] = "fetched"
  /\ IF call[a].hash = Value(hash)
     THEN Goto(a, "acting") /\ UNCHANGED call
     ELSE Return(a)
  /\ UNCHANGED <<server, attempt, now, history>>

\* An operation that is not about access, or one that fails.
Leave(a) ==
  /\ pc[a] \in {"acting", "changing"}
  /\ Return(a)
  /\ UNCHANGED <<server, attempt, now, history>>

Logout(a) ==
  /\ pc[a] = "acting"
  /\ sessions' = [sessions EXCEPT ![call[a].token] = None]
  /\ Return(a)
  /\ UNCHANGED <<up, hash, attempt, now, history>>

\* changePassword: GetSetting and CheckPassword of the current one; where it
\* was not given the call ends in Leave.
ReadCurrent(a, next) ==
  /\ pc[a] = "acting"
  /\ Goto(a, "changing")
  /\ call' = [call EXCEPT ![a].given = hash.password, ![a].hash = hash, ![a].next = next]
  /\ UNCHANGED <<server, attempt, now, history>>

SetPassword(a) ==
  /\ pc[a] = "changing"
  /\ hash.change < MaxChanges
  /\ hash' = [password |-> call[a].next, change |-> hash.change + 1]
  /\ Return(a)
  /\ UNCHANGED <<up, sessions, attempt, now, history>>

Next ==
  \/ \E password \in Passwords : Start(password)
  \/ Crash \/ Tick
  \/ \E t \in Tokens : Expire(t)
  \/ \E a \in Calls :
       \/ \E password \in Passwords : Admit(a, password) \/ ReadCurrent(a, password)
       \/ ReadHash(a) \/ Abort(a) \/ Fail(a) \/ Welcome(a)
       \/ \E t \in Tokens : PutSession(a, t) \/ Authenticate(a, t)
       \/ Verify(a) \/ Leave(a) \/ Logout(a) \/ SetPassword(a)

Spec == Init /\ [][Next]_vars

-----------------------------------------------------------------------------
\* A call is let through only with a session whose login gave the password
\* that is in force at that moment, be the login, the change and the call
\* interleaved in any way (admin.go:82-98, middleware.go:122-142).
SessionDiesWithPassword ==
  [][\A a \in Calls : pc[a] = "fetched" /\ pc'[a] = "acting"
       => issued[call[a].token] = hash]_vars

\* Attempts cannot slip past the count by running side by side.  Those that fail
\* within a window fill at most the end of one of the limiter's windows and the
\* start of another, which a call that was let in before a block may have opened
\* and lifted the block by; either holds one less than the limit, and the calls
\* that were let in with the last of them (middleware.go:203-231).
AttemptsBounded == Len(fails) <= 2 * (Limit + Cardinality(Calls) - 2)

\* The limiter holds against attempts side by side: none slips past the count,
\* and a blocked address is let in again before the end of the block only after
\* a call that had been let in before the block came to its end: an attempt
\* that has begun may still succeed (middleware.go:190-237).
LimiterHolds ==
  [][/\ AttemptsBounded'
     /\ \A a \in Calls : pc[a] = "idle" /\ pc'[a] = "admitted"
          => promise = None \/ now >= promise.till \/ promise.lifted]_vars
=============================================================================
