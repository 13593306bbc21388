--------------------------- MODULE AdminAccessProofs ---------------------------
(***************************************************************************)
(* Proofs about AdminAccess, for any sets of calls, passwords and tokens   *)
(* and any limits.  That no session outlives its password rests on where a *)
(* session's value comes from: it is the one its login read, from the time *)
(* it is stored, before the token is handed out, until a call compares it. *)
(* That the limiter holds rests on how many calls may still fail: while an *)
(* address is blocked none is let in, so each failure takes one of them.   *)
(***************************************************************************)
EXTENDS AdminAccess, FiniteSetTheorems, SequenceTheorems, WellFoundedInduction, TLAPS

Labels == SigningIn \cup {"idle", "fetched", "acting", "changing"}

\* The part of the type invariant the sessions need.
Typed ==
  /\ up \in BOOLEAN
  /\ hash \in Hash \cup {None}
  /\ sessions \in [Tokens -> Hash \cup {None}]
  /\ issued \in [Tokens -> Hash \cup {None}]
  /\ pc \in [Calls -> Labels]
  /\ call \in [Calls -> Held]

\* Calls are served by a running server, which has a password.
ServingInv ==
  /\ up => hash # None
  /\ \A a \in Calls :
       /\ pc[a] # "idle" => up
       /\ pc[a] = "changing" => call[a].next \in Passwords

\* A token that was handed out stands for the hash its login read, if for any.
StoredInv ==
  \A t \in Tokens : issued[t] # None => sessions[t] \in {None, issued[t]}

\* A token that is stored and not yet handed out is known to one call alone.
FreshInv ==
  \A a \in Calls : pc[a] = "stored" =>
    /\ call[a].token \in Tokens
    /\ issued[call[a].token] = None
    /\ sessions[call[a].token] \in {None, call[a].hash}
    /\ \A b \in Calls \ {a} : pc[b] = "stored" => call[b].token # call[a].token

\* What a call has fetched is what the token was handed out for, whatever has
\* become of the session since.
FetchedInv ==
  \A a \in Calls : pc[a] = "fetched" =>
    /\ call[a].token \in Tokens
    /\ issued[call[a].token] # None
    /\ call[a].hash = issued[call[a].token]

SessionInv == StoredInv /\ FreshInv /\ FetchedInv

\* The limiter's part of the type invariant.
LimiterTyped ==
  /\ attempt \in Attempt \cup {None}
  /\ attempt # None => attempt.count < Limit /\ attempt.start <= now
  /\ now \in 0..MaxTime
  /\ fails \in Seq(0..MaxTime)
  /\ promise \in Promise \cup {None}

Busy == Cardinality(Working)
Others == Cardinality(Calls) - 1
Share == Limit - 1 + Others

\* At most n of the times, oldest first, are after an instant.
After(times, time, n) == Len(times) > n => times[Len(times) - n] <= time

Ordered(times) == \A i, j \in 1..Len(times) : i <= j => times[i] <= times[j]

FailsInv ==
  /\ \A i \in 1..Len(fails) : fails[i] <= now /\ now - fails[i] <= Window
  /\ Ordered(fails)

\* Nothing is counted: what failed before leaves room for a window.
ForgottenInv == attempt = None => Len(fails) < Share

\* The window that is open has counted each failure since its first.
CountedInv ==
  attempt # None /\ attempt.till = 0 =>
    /\ attempt.count >= 1
    /\ Len(fails) < Share + attempt.count
    /\ After(fails, attempt.start, attempt.count - 1)

\* While a block lasts each call at work may fail, in the window or beyond.
BlockedInv ==
  attempt # None /\ now < attempt.till =>
    /\ attempt.start + Block <= attempt.till /\ attempt.till <= now + Block
    /\ Busy <= Others
    /\ Len(fails) + Busy <= 2 * Share
    /\ After(fails, attempt.start, Share - Busy)
    /\ After(fails, attempt.till - Block, Others - Busy)

\* After it only failures of such calls are left.
ServedInv ==
  attempt # None /\ attempt.till # 0 =>
    /\ attempt.start + Block <= attempt.till
    /\ attempt.till <= now => Len(fails) < Share

LimitInv == FailsInv /\ ForgottenInv /\ CountedInv /\ BlockedInv /\ ServedInv

\* A promise that stands is kept by the limiter's entry, and every call at work
\* was let in before.
Standing == promise # None /\ ~promise.lifted /\ now < promise.till
PromiseInv ==
  Standing => attempt # None /\ attempt.till = promise.till /\ Working \subseteq promise.before

LimiterInv == LimiterTyped /\ LimitInv /\ PromiseInv

IInv == Typed /\ ServingInv /\ SessionInv /\ LimiterInv

-----------------------------------------------------------------------------
\* A call that takes a step keeps the types.
LEMMA CallStep ==
  ASSUME Typed, ServingInv, up, NEW a \in Calls, NEW label \in Labels, NEW held \in Held,
         up' = up, hash' = hash \/ hash' \in Hash,
         sessions' \in [Tokens -> Hash \cup {None}], issued' \in [Tokens -> Hash \cup {None}],
         pc' = [pc EXCEPT ![a] = label], call' = [call EXCEPT ![a] = held],
         label = "changing" => held.next \in Passwords
  PROVE  (Typed /\ ServingInv)'
<1>1. pc' \in [Calls -> Labels] /\ call' \in [Calls -> Held]
  BY DEF Typed
<1>2. up' \in BOOLEAN /\ hash' \in Hash \cup {None} /\ hash' # None
  BY NoneAssumption DEF Typed, ServingInv
<1>3. ASSUME NEW b \in Calls, pc'[b] = "changing"
      PROVE  call'[b].next \in Passwords
  BY <1>3 DEF Typed, ServingInv
<1> QED
  BY <1>1, <1>2, <1>3 DEF Typed, ServingInv

\* The types, with what makes a read or a change of the password find one.
LEMMA TypedStep ==
  ASSUME Typed, ServingInv, [Next]_vars
  PROVE  (Typed /\ ServingInv)'
<1> DEFINE Kept == sessions' = sessions /\ issued' = issued /\ hash' = hash /\ up' = up
<1>0. /\ sessions \in [Tokens -> Hash \cup {None}] /\ issued \in [Tokens -> Hash \cup {None}]
      /\ \A a \in Calls : call[a] \in Held /\ (pc[a] # "idle" => up)
      /\ up => hash \in Hash
      /\ Idle \in Held
      /\ {"idle", "admitted", "wrong", "right", "stored", "fetched", "acting", "changing"}
           \subseteq Labels
  BY DEF Typed, ServingInv, Idle, Held, Labels, SigningIn
<1>1. ASSUME NEW password \in Passwords, Start(password)
      PROVE  (Typed /\ ServingInv)'
  <2>1. [password |-> password, change |-> 0] \in Hash
    BY BoundsAssumption DEF Hash
  <2>2. hash' \in Hash /\ up' = TRUE
        /\ UNCHANGED <<sessions, issued, pc, call>>
    BY <1>1, <2>1 DEF Start, Ensured, Typed, serving, history
  <2> QED
    BY <2>2, NoneAssumption DEF Typed, ServingInv
<1>2. CASE Crash
  <2>1. /\ up' = FALSE /\ hash' = hash /\ issued' = issued
        /\ sessions' \in [Tokens -> Hash \cup {None}]
        /\ pc' = [a \in Calls |-> "idle"] /\ call' = [a \in Calls |-> Idle]
    BY <1>0, <1>2 DEF Crash
  <2> QED
    BY <1>0, <2>1 DEF Typed, ServingInv
<1>3. CASE Tick \/ UNCHANGED vars
  BY <1>3 DEF Typed, ServingInv, Tick, vars, server, serving, history
<1>4. ASSUME NEW t \in Tokens, Expire(t)
      PROVE  (Typed /\ ServingInv)'
  BY <1>4 DEF Typed, ServingInv, Expire, serving, history
<1>5. ASSUME NEW a \in Calls, NEW password \in Passwords, Admit(a, password)
      PROVE  (Typed /\ ServingInv)'
  <2> DEFINE held == [call[a] EXCEPT !.given = password]
  <2>1. held \in Held /\ call' = [call EXCEPT ![a] = held] /\ Kept /\ up
        /\ pc' = [pc EXCEPT ![a] = "admitted"]
    BY <1>0, <1>5 DEF Admit, Goto, Held, server, history
  <2> HIDE DEF held
  <2> QED
    BY <1>0, <2>1, CallStep
<1>6. ASSUME NEW a \in Calls, NEW password \in Passwords, ReadCurrent(a, password)
      PROVE  (Typed /\ ServingInv)'
  <2> DEFINE held == [call[a] EXCEPT !.given = hash.password, !.hash = hash, !.next = password]
  <2>1. up /\ hash.password \in Passwords
    BY <1>0, <1>6 DEF ReadCurrent, Hash
  <2>2. held \in Held /\ held.next = password
    BY <1>0, <2>1 DEF Held
  <2>3. call' = [call EXCEPT ![a] = held] /\ Kept
        /\ pc' = [pc EXCEPT ![a] = "changing"]
    BY <1>6 DEF ReadCurrent, Goto, server, history
  <2> HIDE DEF held
  <2> QED
    BY <1>0, <2>1, <2>2, <2>3, CallStep
<1>7. ASSUME NEW a \in Calls, ReadHash(a)
      PROVE  (Typed /\ ServingInv)'
  <2> DEFINE held == [call[a] EXCEPT !.hash = hash]
  <2>1. up
    BY <1>0, <1>7 DEF ReadHash
  <2>2. held \in Held
    BY <1>0, <2>1 DEF Held
  <2>3. call' = [call EXCEPT ![a] = held] /\ Kept
        /\ \E label \in {"right", "wrong"} : pc' = [pc EXCEPT ![a] = label]
    BY <1>7 DEF ReadHash, Goto, server, history
  <2> HIDE DEF held
  <2> QED
    BY <1>0, <2>1, <2>2, <2>3, CallStep
<1>8. ASSUME NEW a \in Calls, NEW t \in Tokens, PutSession(a, t)
      PROVE  (Typed /\ ServingInv)'
  <2> DEFINE held == [call[a] EXCEPT !.token = t]
  <2>1. held \in Held
    BY <1>0 DEF Held
  <2>2. call' = [call EXCEPT ![a] = held] /\ pc' = [pc EXCEPT ![a] = "stored"] /\ up
        /\ up' = up /\ hash' = hash /\ issued' = issued
    BY <1>0, <1>8 DEF PutSession, Goto, history
  <2>3. sessions' \in [Tokens -> Hash \cup {None}]
    BY <1>0, <1>8 DEF PutSession, Value, Held
  <2> HIDE DEF held
  <2> QED
    BY <1>0, <2>1, <2>2, <2>3, CallStep
<1>9. ASSUME NEW a \in Calls, NEW t \in Tokens, Authenticate(a, t)
      PROVE  (Typed /\ ServingInv)'
  <2> DEFINE held == [call[a] EXCEPT !.token = t, !.hash = sessions[t]]
  <2>1. held \in Held
    BY <1>0 DEF Held
  <2>2. call' = [call EXCEPT ![a] = held] /\ Kept /\ up
        /\ pc' = [pc EXCEPT ![a] = "fetched"]
    BY <1>9 DEF Authenticate, Goto, server, history
  <2> HIDE DEF held
  <2> QED
    BY <1>0, <2>1, <2>2, CallStep
<1>10. ASSUME NEW a \in Calls, Verify(a), pc'[a] # "idle"
       PROVE  (Typed /\ ServingInv)'
  <2>1. call' = [call EXCEPT ![a] = call[a]] /\ pc' = [pc EXCEPT ![a] = "acting"]
        /\ Kept /\ up
    BY <1>0, <1>10 DEF Verify, Goto, Return, server, history, Typed
  <2> QED
    BY <1>0, <2>1, CallStep
<1>11. ASSUME NEW a \in Calls, up, Return(a), up' = up, hash' = hash \/ hash' \in Hash,
              sessions' \in [Tokens -> Hash \cup {None}],
              issued' \in [Tokens -> Hash \cup {None}]
       PROVE  (Typed /\ ServingInv)'
  BY <1>0, <1>11, CallStep DEF Return, Goto
<1>12. ASSUME NEW a \in Calls, Verify(a), pc'[a] = "idle"
       PROVE  (Typed /\ ServingInv)'
  BY <1>0, <1>11, <1>12 DEF Verify, Goto, server, history, Typed
<1>13. ASSUME NEW a \in Calls, Abort(a) \/ Leave(a) \/ Fail(a)
       PROVE  (Typed /\ ServingInv)'
  BY <1>0, <1>11, <1>13 DEF Abort, Leave, Fail, server, history
<1>14. ASSUME NEW a \in Calls, Welcome(a)
       PROVE  (Typed /\ ServingInv)'
  <2>1. issued' \in [Tokens -> Hash \cup {None}]
    BY <1>0, <1>14 DEF Welcome, Held
  <2> QED
    BY <1>0, <1>11, <1>14, <2>1 DEF Welcome, server
<1>15. ASSUME NEW a \in Calls, Logout(a)
       PROVE  (Typed /\ ServingInv)'
  <2>1. sessions' \in [Tokens -> Hash \cup {None}]
    BY <1>0, <1>15 DEF Logout
  <2> QED
    BY <1>0, <1>11, <1>15, <2>1 DEF Logout, history
<1>16. ASSUME NEW a \in Calls, SetPassword(a)
       PROVE  (Typed /\ ServingInv)'
  <2>1. up /\ call[a].next \in Passwords /\ hash.change \in 0..MaxChanges
    BY <1>0, <1>16 DEF SetPassword, ServingInv, Hash
  <2>2. hash' \in Hash
    BY <1>16, <2>1, BoundsAssumption DEF SetPassword, Hash
  <2> QED
    BY <1>0, <1>11, <1>16, <2>1, <2>2 DEF SetPassword, history
<1> QED
  BY <1>1, <1>2, <1>3, <1>4, <1>5, <1>6, <1>7, <1>8, <1>9, <1>10, <1>12, <1>13,
     <1>14, <1>15, <1>16 DEF Next

\* Where sessions, tokens and what calls fetched meet.
LEMMA SessionStep ==
  IInv /\ [Next]_vars => SessionInv'
<1> USE NoneAssumption DEF SigningIn, Held, Idle, server, serving, history
<1> SUFFICES ASSUME Typed, SessionInv, [Next]_vars
             PROVE  SessionInv'
  BY DEF IInv
<1>1. ASSUME NEW password \in Passwords, Start(password)
      PROVE  SessionInv'
  BY <1>1 DEF Typed, SessionInv, StoredInv, FreshInv, FetchedInv, Start, Ensured
<1>2. ASSUME Crash
      PROVE  SessionInv'
  BY <1>2 DEF Typed, SessionInv, StoredInv, FreshInv, FetchedInv, Crash
<1>3. ASSUME Tick
      PROVE  SessionInv'
  BY <1>3 DEF Typed, SessionInv, StoredInv, FreshInv, FetchedInv, Tick
<1>4. ASSUME NEW t \in Tokens, Expire(t)
      PROVE  SessionInv'
  BY <1>4 DEF Typed, SessionInv, StoredInv, FreshInv, FetchedInv, Expire
<1>5. ASSUME NEW a \in Calls, NEW password \in Passwords, Admit(a, password)
      PROVE  SessionInv'
  BY <1>5 DEF Typed, SessionInv, StoredInv, FreshInv, FetchedInv, Admit, Goto
<1>6. ASSUME NEW a \in Calls, NEW password \in Passwords, ReadCurrent(a, password)
      PROVE  SessionInv'
  BY <1>6 DEF Typed, SessionInv, StoredInv, FreshInv, FetchedInv, ReadCurrent, Goto
<1>7. ASSUME NEW a \in Calls, ReadHash(a)
      PROVE  SessionInv'
  BY <1>7 DEF Typed, SessionInv, StoredInv, FreshInv, FetchedInv, ReadHash, Goto
<1>8. ASSUME NEW a \in Calls, Abort(a) \/ Leave(a)
      PROVE  SessionInv'
  BY <1>8 DEF Typed, SessionInv, StoredInv, FreshInv, FetchedInv, Abort, Leave,
     Goto, Return
<1>9. ASSUME NEW a \in Calls, Fail(a)
      PROVE  SessionInv'
  BY <1>9 DEF Typed, SessionInv, StoredInv, FreshInv, FetchedInv, Fail, Goto, Return
<1>10. ASSUME NEW a \in Calls, Welcome(a)
      PROVE  SessionInv'
  BY <1>10 DEF Typed, SessionInv, StoredInv, FreshInv, FetchedInv, Welcome, Goto,
     Return
<1>11. ASSUME NEW a \in Calls, NEW t \in Tokens, PutSession(a, t)
      PROVE  SessionInv'
  BY <1>11 DEF Typed, SessionInv, StoredInv, FreshInv, FetchedInv, PutSession,
     Goto, Value
<1>12. ASSUME NEW a \in Calls, NEW t \in Tokens, Authenticate(a, t)
      PROVE  SessionInv'
  BY <1>12 DEF Typed, SessionInv, StoredInv, FreshInv, FetchedInv, Authenticate,
     Goto
<1>13. ASSUME NEW a \in Calls, Verify(a)
      PROVE  SessionInv'
  BY <1>13 DEF Typed, SessionInv, StoredInv, FreshInv, FetchedInv, Verify, Goto,
     Return, Value
<1>14. ASSUME NEW a \in Calls, Logout(a)
      PROVE  SessionInv'
  BY <1>14 DEF Typed, SessionInv, StoredInv, FreshInv, FetchedInv, Logout, Goto,
     Return
<1>15. ASSUME NEW a \in Calls, SetPassword(a)
      PROVE  SessionInv'
  BY <1>15 DEF Typed, SessionInv, StoredInv, FreshInv, FetchedInv, SetPassword,
     Goto, Return
<1>16. CASE UNCHANGED vars
  BY <1>16 DEF Typed, SessionInv, StoredInv, FreshInv, FetchedInv, vars
<1> QED
  BY <1>1, <1>2, <1>3, <1>4, <1>5, <1>6, <1>7, <1>8,
     <1>9, <1>10, <1>11, <1>12, <1>13, <1>14, <1>15, <1>16 DEF Next

-----------------------------------------------------------------------------
\* The limiter.

LEMMA Bounds ==
  /\ Limit \in Nat /\ Window \in Nat /\ Block \in Nat /\ MaxTime \in Nat
  /\ 2 <= Limit /\ Window < Block
  /\ Others \in Nat /\ Share \in Nat /\ Limit <= Share + 1 /\ Others < Share
<1>1. IsFiniteSet(Calls) /\ Calls # {}
  BY BoundsAssumption
<1>2. Cardinality(Calls) \in Nat /\ Cardinality(Calls) # 0
  BY <1>1, FS_CardinalityType, FS_EmptySet
<1> QED
  BY <1>2, BoundsAssumption DEF Others, Share

LEMMA BusyType ==
  /\ IsFiniteSet(Working) /\ Busy \in Nat /\ Busy <= Others + 1
BY BoundsAssumption, FS_Subset, FS_CardinalityType DEF Working, Busy, Others

\* A call that ends is one less.
LEMMA BusyLess ==
  ASSUME NEW a \in Working, Working' = Working \ {a}
  PROVE  Busy' = Busy - 1 /\ Busy >= 1
<1>1. Cardinality(Working \ {a}) = Busy - 1 /\ Cardinality(Working \ {a}) \in Nat
  BY BusyType, FS_RemoveElement, FS_CardinalityType DEF Busy
<1> QED
  BY <1>1, BusyType DEF Busy

LEMMA WorkingSame ==
  ASSUME Typed, NEW a \in Calls, NEW label \in Labels, pc' = [pc EXCEPT ![a] = label],
         label \in SigningIn <=> pc[a] \in SigningIn
  PROVE  Working' = Working
BY DEF Typed, Working

LEMMA WorkingLess ==
  ASSUME Typed, NEW a \in Calls, pc' = [pc EXCEPT ![a] = "idle"]
  PROVE  Working' = Working \ {a}
BY DEF Typed, Working, SigningIn

LEMMA WorkingMore ==
  ASSUME Typed, NEW a \in Calls, pc' = [pc EXCEPT ![a] = "admitted"]
  PROVE  Working' = Working \cup {a}
BY DEF Typed, Working, SigningIn

\* A set of naturals that is not empty has a least member.
LEMMA Least ==
  ASSUME NEW T \in SUBSET Nat, T # {}
  PROVE  \E i \in T : \A j \in T : i <= j
<1>1. PICK i \in T : \A j \in T : ~(<<j, i>> \in OpToRel(<, Nat))
  BY NatLessThanWellFounded, WFMin
<1>2. ASSUME NEW j \in T
      PROVE  i <= j
  <2>1. SUFFICES ASSUME j < i PROVE FALSE
    OBVIOUS
  <2>2. <<j, i>> \in Nat \X Nat /\ <<j, i>>[1] < <<j, i>>[2]
    BY <2>1
  <2>3. <<j, i>> \in OpToRel(<, Nat)
    BY <2>2, Zenon DEF OpToRel
  <2> QED
    BY <1>1, <2>3
<1> QED
  BY <1>2

\* What is kept of the failures is their end, from the first that is recent on.
LEMMA RecentIsEnd ==
  ASSUME NEW times \in Seq(0..MaxTime), NEW at \in Nat
  PROVE  \E cut \in 0..Len(times) :
           /\ Recent(times, at) \in Seq(0..MaxTime)
           /\ Len(Recent(times, at)) = Len(times) - cut
           /\ \A i \in 1..(Len(times) - cut) : Recent(times, at)[i] = times[cut + i]
           /\ cut < Len(times) => at - times[cut + 1] <= Window
<1> DEFINE kept == {i \in 1..Len(times) : at - times[i] <= Window} \cup {Len(times) + 1}
           first == CHOOSE i \in kept : \A j \in kept : i <= j
<1>1. Len(times) \in Nat /\ \A i \in 1..Len(times) : times[i] \in 0..MaxTime
  BY LenProperties, ElementOfSeq
<1>2. kept \in SUBSET Nat /\ kept # {}
  BY <1>1
<1> HIDE DEF kept
<1>3. \E i \in kept : \A j \in kept : i <= j
  BY <1>2, Least
<1>4. first \in kept
  BY <1>3
<1>5. Recent(times, at) = SubSeq(times, first, Len(times))
  BY DEF Recent, kept
<1> HIDE DEF first
<1>6. first \in 1..(Len(times) + 1)
      /\ (first <= Len(times) => at - times[first] <= Window)
  BY <1>1, <1>4 DEF kept
<1>7. /\ SubSeq(times, first, Len(times)) \in Seq(0..MaxTime)
      /\ Len(SubSeq(times, first, Len(times))) = Len(times) - first + 1
      /\ \A i \in 1..(Len(times) - first + 1) :
           SubSeq(times, first, Len(times))[i] = times[first + i - 1]
  BY <1>1, <1>6, SubSeqProperties
<1>8. /\ first - 1 \in 0..Len(times) /\ Len(times) - (first - 1) = Len(times) - first + 1
      /\ (first - 1) + 1 = first /\ (first - 1 < Len(times) => first <= Len(times))
      /\ \A i \in 1..(Len(times) - first + 1) : (first - 1) + i = first + i - 1
  BY <1>1, <1>6
<1> QED
  BY <1>5, <1>6, <1>7, <1>8

LEMMA TimesType ==
  ASSUME NEW times \in Seq(0..MaxTime)
  PROVE  Len(times) \in Nat /\ \A i \in 1..Len(times) : times[i] \in Nat
<1>1. Len(times) \in Nat
  BY LenProperties
<1>2. \A i \in 1..Len(times) : times[i] \in 0..MaxTime
  BY ElementOfSeq
<1> QED
  BY <1>1, <1>2

LEMMA AfterMore ==
  ASSUME NEW times \in Seq(0..MaxTime), Ordered(times), NEW time \in Int,
         NEW m \in Nat, NEW n \in Nat, m <= n, After(times, time, m)
  PROVE  After(times, time, n)
<1>1. SUFFICES ASSUME Len(times) > n PROVE times[Len(times) - n] <= time
  BY DEF After
<1>2. Len(times) - n \in 1..Len(times) /\ Len(times) - m \in 1..Len(times)
      /\ Len(times) - n <= Len(times) - m
  BY <1>1, TimesType
<1>3. times[Len(times) - m] <= time
  BY <1>1, TimesType DEF After
<1> QED
  <2>1. times[Len(times) - n] <= times[Len(times) - m]
    BY <1>2 DEF Ordered
  <2>2. times[Len(times) - n] \in Nat /\ times[Len(times) - m] \in Nat
    BY <1>2, TimesType
  <2> QED
    BY <1>3, <2>1, <2>2

\* A time that is added is one more.
LEMMA AfterAppend ==
  ASSUME NEW times \in Seq(0..MaxTime), NEW at \in 0..MaxTime, NEW time \in Int,
         NEW n \in Nat, After(times, time, n)
  PROVE  After(Append(times, at), time, n + 1)
<1>1. Len(times) \in Nat /\ Len(Append(times, at)) = Len(times) + 1
      /\ \A i \in 1..Len(times) : Append(times, at)[i] = times[i]
  BY AppendProperties, TimesType
<1>2. SUFFICES ASSUME Len(times) > n
               PROVE  Append(times, at)[(Len(times) + 1) - (n + 1)] <= time
  BY <1>1 DEF After
<1>3. (Len(times) + 1) - (n + 1) = Len(times) - n /\ Len(times) - n \in 1..Len(times)
  BY <1>1, <1>2
<1> QED
  BY <1>1, <1>2, <1>3 DEF After

LEMMA OrderedAppend ==
  ASSUME NEW times \in Seq(0..MaxTime), NEW at \in 0..MaxTime, Ordered(times),
         \A i \in 1..Len(times) : times[i] <= at
  PROVE  /\ Append(times, at) \in Seq(0..MaxTime) /\ Ordered(Append(times, at))
         /\ Len(Append(times, at)) = Len(times) + 1
         /\ Append(times, at)[Len(times) + 1] = at
         /\ \A i \in 1..Len(times) : Append(times, at)[i] = times[i]
<1>1. /\ Append(times, at) \in Seq(0..MaxTime) /\ Len(times) \in Nat
      /\ Len(Append(times, at)) = Len(times) + 1
      /\ Append(times, at)[Len(times) + 1] = at
      /\ \A i \in 1..Len(times) : Append(times, at)[i] = times[i]
  BY AppendProperties, TimesType
<1>2. ASSUME NEW i \in 1..(Len(times) + 1), NEW j \in 1..(Len(times) + 1), i <= j
      PROVE  Append(times, at)[i] <= Append(times, at)[j]
  <2>1. CASE j = Len(times) + 1
    BY <1>1, <1>2, <2>1, TimesType
  <2>2. CASE j # Len(times) + 1
    <3>1. i \in 1..Len(times) /\ j \in 1..Len(times)
      BY <1>1, <1>2, <2>2
    <3> QED
      BY <1>1, <1>2, <3>1 DEF Ordered
  <2> QED
    BY <2>1, <2>2
<1> QED
  BY <1>1, <1>2 DEF Ordered

\* The end of the times holds what is late in them.
LEMMA AfterEnd ==
  ASSUME NEW times \in Seq(0..MaxTime), NEW end \in Seq(0..MaxTime),
         NEW cut \in 0..Len(times), Len(end) = Len(times) - cut,
         \A i \in 1..Len(end) : end[i] = times[cut + i],
         NEW time \in Int, NEW n \in Nat, After(times, time, n)
  PROVE  After(end, time, n)
<1>1. SUFFICES ASSUME Len(end) > n PROVE end[Len(end) - n] <= time
  BY DEF After
<1>2. /\ Len(end) - n \in 1..Len(end) /\ Len(times) > n
      /\ cut + (Len(end) - n) = Len(times) - n
  BY <1>1, TimesType
<1>3. end[Len(end) - n] = times[Len(times) - n]
  BY <1>2
<1> QED
  BY <1>2, <1>3 DEF After

LEMMA AttemptType ==
  ASSUME LimiterTyped
  PROVE  /\ now \in Nat
         /\ attempt # None =>
              /\ attempt \in Attempt
              /\ attempt.count \in Nat /\ attempt.count < Limit
              /\ attempt.start \in Nat /\ attempt.start <= now /\ attempt.till \in Nat
BY Bounds DEF LimiterTyped, Attempt

\* Without an entry and without failures there is nothing to keep.
LEMMA ClearedLimiter ==
  ASSUME now \in 0..MaxTime, now' = now, attempt' = None, fails' = <<>>, ~Standing',
         promise' \in Promise \cup {None}
  PROVE  LimiterInv'
<1>1. Len(fails') = 0 /\ fails' \in Seq(0..MaxTime)
  BY EmptySeq
<1>2. LimiterTyped'
  BY <1>1 DEF LimiterTyped
<1>3. LimitInv'
  BY <1>1, Bounds DEF LimitInv, FailsInv, Ordered, ForgottenInv, CountedInv, BlockedInv,
     ServedInv
<1> QED
  BY <1>2, <1>3 DEF LimiterInv, PromiseInv

\* Nothing about the limiter, and none of the calls at work.
LEMMA SameLimiter ==
  ASSUME LimiterInv, UNCHANGED <<attempt, now, fails, promise>>, Working' = Working
  PROVE  LimiterInv'
<1>1. LimiterTyped'
  BY DEF LimiterInv, LimiterTyped
<1>2. Busy' = Busy
  BY DEF Busy
<1>3. LimitInv'
  BY <1>2 DEF LimiterInv, LimitInv, FailsInv, ForgottenInv, CountedInv, BlockedInv, ServedInv
<1> QED
  BY <1>1, <1>3 DEF LimiterInv, PromiseInv, Standing

\* A call that leaves without an answer of its own.
LEMMA LessLimiter ==
  ASSUME LimiterInv, UNCHANGED <<attempt, now, fails, promise>>,
         NEW a \in Working, Working' = Working \ {a}
  PROVE  LimiterInv'
<1>1. LimiterTyped'
  BY DEF LimiterInv, LimiterTyped
<1>2. Busy' = Busy - 1 /\ Busy \in Nat /\ Busy' \in Nat /\ Busy <= Others + 1
  BY BusyLess, BusyType
<1>3. (FailsInv /\ ForgottenInv /\ CountedInv /\ ServedInv)'
  BY DEF LimiterInv, LimitInv, FailsInv, ForgottenInv, CountedInv, ServedInv
<1>4. BlockedInv'
  <2> SUFFICES ASSUME attempt # None, now < attempt.till
               PROVE  BlockedInv'
    BY DEF BlockedInv
  <2> DEFINE n == Share - Busy  m == Others - Busy
             n1 == Share - Busy'  m1 == Others - Busy'
  <2>1. /\ attempt.start + Block <= attempt.till /\ attempt.till <= now + Block
        /\ Busy <= Others /\ Len(fails) + Busy <= 2 * Share
        /\ After(fails, attempt.start, n) /\ After(fails, attempt.till - Block, m)
    BY DEF LimiterInv, LimitInv, BlockedInv
  <2>2. n \in Nat /\ m \in Nat /\ n1 \in Nat /\ m1 \in Nat /\ n <= n1 /\ m <= m1
    BY <1>2, <2>1, Bounds
  <2>3. /\ fails \in Seq(0..MaxTime) /\ Ordered(fails) /\ Len(fails) \in Nat
        /\ attempt.start \in Int /\ attempt.till - Block \in Int
    BY Bounds, TimesType, AttemptType DEF LimiterInv, LimiterTyped, LimitInv, FailsInv
  <2> HIDE DEF n, m, n1, m1
  <2>4. After(fails, attempt.start, n1) /\ After(fails, attempt.till - Block, m1)
    BY <2>1, <2>2, <2>3, AfterMore
  <2>5. Len(fails) + Busy' <= 2 * Share /\ Busy' <= Others
    BY <1>2, <2>1, <2>3, Bounds
  <2> QED
    BY <2>1, <2>4, <2>5 DEF BlockedInv, n1, m1
<1> QED
  BY <1>1, <1>3, <1>4 DEF LimiterInv, LimitInv, PromiseInv, Standing

\* Once a window has passed, few of the failures in it are left.
LEMMA LapsedRoom ==
  ASSUME LimiterTyped, LimitInv, Lapsed
  PROVE  \/ Len(fails) < Share
         \/ attempt # None /\ now < attempt.till /\ Len(fails) <= Share - Busy
<1>0. /\ fails \in Seq(0..MaxTime) /\ Len(fails) \in Nat /\ now \in Nat
      /\ \A i \in 1..Len(fails) : fails[i] \in Nat /\ now - fails[i] <= Window
  BY TimesType DEF LimiterTyped, LimitInv, FailsInv
<1>1. CASE attempt = None
  BY <1>1 DEF LimitInv, ForgottenInv
<1>2. ASSUME attempt # None, NEW n \in Nat, After(fails, attempt.start, n)
      PROVE  Len(fails) <= n
  <2>1. now - attempt.start > Window /\ attempt.start \in Nat
    BY <1>2, AttemptType DEF Lapsed
  <2>2. SUFFICES ASSUME Len(fails) > n PROVE FALSE
    BY <1>0
  <2>3. Len(fails) - n \in 1..Len(fails) /\ fails[Len(fails) - n] <= attempt.start
    BY <1>0, <1>2, <2>2 DEF After
  <2> DEFINE last == fails[Len(fails) - n]
  <2>4. last \in Nat /\ now - last <= Window /\ last <= attempt.start
    BY <1>0, <2>3
  <2> HIDE DEF last
  <2> QED
    BY <1>0, <2>1, <2>4, Bounds
<1>3. CASE attempt # None /\ attempt.till = 0
  <2>1. attempt.count - 1 \in Nat /\ attempt.count - 1 < Share
        /\ After(fails, attempt.start, attempt.count - 1)
    BY <1>3, Bounds, AttemptType DEF LimitInv, CountedInv
  <2> QED
    BY <1>0, <1>2, <1>3, <2>1, Bounds
<1>4. CASE attempt # None /\ attempt.till <= now /\ attempt.till # 0
  BY <1>4 DEF LimitInv, ServedInv
<1>5. CASE attempt # None /\ now < attempt.till
  <2>1. Share - Busy \in Nat
    BY <1>5, Bounds, BusyType DEF LimitInv, BlockedInv
  <2>2. After(fails, attempt.start, Share - Busy)
    BY <1>5 DEF LimitInv, BlockedInv
  <2> QED
    BY <1>2, <1>5, <2>1, <2>2
<1> QED
  BY <1>1, <1>3, <1>4, <1>5, AttemptType

\* As the clock moves the oldest failures are forgotten.
LEMMA TickLimiter ==
  ASSUME LimiterInv, Tick
  PROVE  LimiterInv'
<1>0. /\ now' = now + 1 /\ now \in Nat /\ now' \in 0..MaxTime
      /\ attempt' = attempt /\ promise' = promise /\ Working' = Working /\ Busy' = Busy
      /\ fails' = Recent(fails, now') /\ fails \in Seq(0..MaxTime) /\ Len(fails) \in Nat
      /\ \A i \in 1..Len(fails) : fails[i] \in Nat
  BY Bounds, TimesType DEF Tick, LimiterInv, LimiterTyped, serving, Working, Busy
<1>1. PICK cut \in 0..Len(fails) :
        /\ fails' \in Seq(0..MaxTime) /\ Len(fails') = Len(fails) - cut
        /\ \A i \in 1..(Len(fails) - cut) : fails'[i] = fails[cut + i]
        /\ cut < Len(fails) => now' - fails[cut + 1] <= Window
  <2> DEFINE end == Recent(fails, now')
  <2>1. now' \in Nat
    BY <1>0
  <2>2. \E cut \in 0..Len(fails) :
          /\ end \in Seq(0..MaxTime) /\ Len(end) = Len(fails) - cut
          /\ \A i \in 1..(Len(fails) - cut) : end[i] = fails[cut + i]
          /\ cut < Len(fails) => now' - fails[cut + 1] <= Window
    BY <1>0, <2>1, RecentIsEnd
  <2>3. fails' = end
    BY <1>0
  <2> HIDE DEF end
  <2> QED
    BY <2>2, <2>3
<1>2. /\ Len(fails') \in Nat /\ Len(fails') <= Len(fails)
      /\ \A i \in 1..Len(fails') : fails'[i] = fails[cut + i]
      /\ \A i \in 1..Len(fails') : cut + i \in (cut + 1)..Len(fails)
  <2>1. Len(fails') \in Nat /\ Len(fails') <= Len(fails)
    BY <1>0, <1>1
  <2>2. \A i \in 1..Len(fails') : fails'[i] = fails[cut + i]
    BY <1>1
  <2>3. ASSUME NEW i \in 1..(Len(fails) - cut)
        PROVE  cut + i \in (cut + 1)..Len(fails)
    BY <1>0, <2>3
  <2> QED
    BY <1>1, <2>1, <2>2, <2>3
<1>3. LimiterTyped'
  BY <1>0, <1>1 DEF LimiterInv, LimiterTyped, Attempt, Promise
<1>4. FailsInv'
  <2>0. Ordered(fails) /\ \A i \in 1..Len(fails) : fails[i] <= now
    BY DEF LimiterInv, LimitInv, FailsInv
  <2>1. ASSUME NEW i \in 1..Len(fails')
        PROVE  fails'[i] <= now' /\ now' - fails'[i] <= Window
    <3>1. cut + i \in 1..Len(fails) /\ cut + 1 \in 1..Len(fails) /\ cut + 1 <= cut + i
      BY <1>0, <1>2
    <3>2. fails[cut + 1] <= fails[cut + i] /\ fails[cut + i] <= now /\ cut < Len(fails)
      BY <2>0, <3>1 DEF Ordered
    <3>3. now' - fails[cut + 1] <= Window
      BY <1>1, <3>2
    <3> DEFINE oldest == fails[cut + 1]  time == fails[cut + i]
    <3>4. oldest \in Nat /\ time \in Nat /\ fails'[i] = time
      BY <1>0, <1>2, <3>1
    <3> HIDE DEF oldest, time
    <3>5. time <= now' /\ now' - time <= Window
      <4>1. oldest <= time /\ time <= now /\ now' - oldest <= Window
        BY <3>2, <3>3 DEF oldest, time
      <4> QED
        BY <1>0, <3>4, <4>1, Bounds
    <3> QED
      BY <3>4, <3>5
  <2>2. Ordered(fails')
    BY <1>0, <1>2, <2>0 DEF Ordered
  <2> QED
    BY <2>1, <2>2 DEF FailsInv
<1>5. ASSUME NEW time \in Int, NEW n \in Nat, After(fails, time, n)
      PROVE  After(fails', time, n)
  BY <1>0, <1>1, <1>2, <1>5, AfterEnd
<1>6. (ForgottenInv /\ CountedInv)'
  <2>1. ForgottenInv'
    BY <1>0, <1>2, Bounds DEF LimiterInv, LimitInv, ForgottenInv
  <2>2. CASE attempt # None /\ attempt.till = 0
    <3>1. attempt.start \in Int /\ attempt.count - 1 \in Nat /\ attempt.count \in Nat
          /\ After(fails, attempt.start, attempt.count - 1)
          /\ Len(fails) < Share + attempt.count /\ attempt.count >= 1
      BY <2>2, AttemptType DEF LimiterInv, LimitInv, CountedInv
    <3>2. Len(fails') < Share + attempt.count
      BY <1>0, <1>2, <3>1, Bounds
    <3> QED
      BY <1>0, <1>5, <2>1, <3>1, <3>2 DEF CountedInv
  <2> QED
    BY <1>0, <2>1, <2>2 DEF CountedInv
<1>7. (BlockedInv /\ ServedInv)'
  <2>1. CASE attempt # None /\ now < attempt.till
    <3>1. /\ attempt.start + Block <= attempt.till /\ attempt.till <= now + Block
          /\ Busy <= Others /\ Len(fails) + Busy <= 2 * Share
          /\ After(fails, attempt.start, Share - Busy)
          /\ After(fails, attempt.till - Block, Others - Busy)
          /\ attempt.start \in Int /\ attempt.till \in Nat /\ Busy \in Nat
      BY <2>1, BusyType, AttemptType DEF LimiterInv, LimitInv, BlockedInv
    <3>2. Share - Busy \in Nat /\ Others - Busy \in Nat /\ attempt.till - Block \in Int
      BY <3>1, Bounds
    <3>3. /\ After(fails', attempt.start, Share - Busy)
          /\ After(fails', attempt.till - Block, Others - Busy)
      BY <1>5, <3>1, <3>2
    <3>4. Len(fails') + Busy <= 2 * Share /\ attempt.till <= now' + Block
      BY <1>0, <1>2, <3>1, Bounds
    <3>5. BlockedInv'
      BY <1>0, <3>1, <3>3, <3>4 DEF BlockedInv
    <3>6. ASSUME attempt.till <= now'
          PROVE  Len(fails') < Share
      <4> DEFINE n == Others - Busy  last == fails'[Len(fails') - n]
      <4>1. n \in Nat /\ n < Share /\ now' = attempt.till
        BY <1>0, <2>1, <3>1, <3>2, <3>6, Bounds
      <4>2. SUFFICES ASSUME Len(fails') > n PROVE FALSE
        BY <1>2, <4>1, Bounds
      <4>3. Len(fails') - n \in 1..Len(fails') /\ last <= attempt.till - Block
        BY <1>2, <3>3, <4>1, <4>2 DEF After
      <4>4. last \in Nat /\ now' - last <= Window
        BY <1>3, <1>4, <4>3, TimesType DEF FailsInv, LimiterTyped
      <4> HIDE DEF n, last
      <4> QED
        BY <3>1, <4>1, <4>3, <4>4, Bounds
    <3> QED
      BY <1>0, <3>1, <3>5, <3>6 DEF ServedInv
  <2>2. CASE attempt # None /\ attempt.till <= now
    <3>1. attempt.till <= now' /\ attempt.till \in Nat
      BY <1>0, <2>2, AttemptType DEF LimiterInv
    <3>2. attempt.till # 0 => Len(fails) < Share /\ attempt.start + Block <= attempt.till
      BY <2>2 DEF LimiterInv, LimitInv, ServedInv
    <3>3. Len(fails) < Share => Len(fails') < Share
      BY <1>0, <1>2, Bounds
    <3>4. ~(now' < attempt.till)
      BY <1>0, <3>1
    <3> QED
      BY <1>0, <3>2, <3>3, <3>4 DEF BlockedInv, ServedInv
  <2>3. attempt # None => now < attempt.till \/ attempt.till <= now
    BY AttemptType DEF LimiterInv
  <2> QED
    BY <1>0, <2>1, <2>2, <2>3 DEF BlockedInv, ServedInv
<1>8. PromiseInv'
  <2>1. promise # None => promise.till \in Nat
    BY Bounds DEF LimiterInv, LimiterTyped, Promise
  <2>2. Standing' => Standing
    BY <1>0, <2>1 DEF Standing
  <2> QED
    BY <1>0, <2>2 DEF LimiterInv, PromiseInv
<1> QED
  BY <1>3, <1>4, <1>6, <1>7, <1>8 DEF LimiterInv, LimitInv

\* A call is let in, if no block stands; what was counted long ago is forgotten.
LEMMA AdmitLimiter ==
  ASSUME LimiterInv, UNCHANGED <<now, fails, promise>>, ~Blocked, attempt' = Allowed
  PROVE  LimiterInv' /\ ~Standing
<1>1. ~Standing /\ ~Standing'
  BY DEF Standing, LimiterInv, PromiseInv, Blocked
<1>2. CASE Lapsed
  <2>1. attempt' = None
    BY <1>2 DEF Allowed
  <2>2. LimiterTyped'
    BY <2>1 DEF LimiterInv, LimiterTyped
  <2>3. Len(fails) < Share
    BY <1>2, LapsedRoom DEF LimiterInv, Blocked
  <2> QED
    BY <1>1, <2>1, <2>2, <2>3 DEF LimiterInv, LimitInv, FailsInv, ForgottenInv, CountedInv,
       BlockedInv, ServedInv, PromiseInv
<1>3. CASE ~Lapsed
  <2>1. attempt' = attempt /\ (attempt # None => ~(now < attempt.till))
    BY <1>3 DEF Allowed, Blocked
  <2>2. LimiterTyped'
    BY <2>1 DEF LimiterInv, LimiterTyped
  <2>3. BlockedInv'
    BY <2>1 DEF BlockedInv
  <2>4. (FailsInv /\ ForgottenInv /\ CountedInv /\ ServedInv)'
    BY <2>1 DEF LimiterInv, LimitInv, FailsInv, ForgottenInv, CountedInv, ServedInv
  <2> QED
    BY <1>1, <2>2, <2>3, <2>4 DEF LimiterInv, LimitInv, PromiseInv
<1> QED
  BY <1>1, <1>2, <1>3

\* A failure is counted, opens a window or blocks; the call is at work no more.
LEMMA FailLimit ==
  ASSUME LimiterInv, now' = now, attempt' = Failure, fails' = Append(fails, now),
         NEW a \in Working, Working' = Working \ {a}
  PROVE  attempt' \in Attempt /\ attempt'.count < Limit /\ attempt'.start <= now /\ LimitInv'
<1>0. /\ now \in 0..MaxTime /\ now \in Nat /\ fails \in Seq(0..MaxTime) /\ Len(fails) \in Nat
      /\ \A i \in 1..Len(fails) : fails[i] <= now /\ now - fails[i] <= Window
      /\ Ordered(fails)
  BY TimesType, AttemptType DEF LimiterInv, LimiterTyped, LimitInv, FailsInv
<1>1. /\ fails' \in Seq(0..MaxTime) /\ Ordered(fails') /\ Len(fails') = Len(fails) + 1
      /\ fails'[Len(fails) + 1] = now
      /\ \A i \in 1..Len(fails) : fails'[i] = fails[i]
  BY <1>0, OrderedAppend
<1>2. FailsInv'
  <2>1. ASSUME NEW i \in 1..(Len(fails) + 1)
        PROVE  fails'[i] <= now /\ now - fails'[i] <= Window
    BY <1>0, <1>1, <2>1, Bounds
  <2> QED
    BY <1>1, <2>1 DEF FailsInv
<1>3. Busy' = Busy - 1 /\ Busy \in Nat /\ Busy' \in Nat /\ Busy >= 1 /\ Busy' <= Others
  BY BusyLess, BusyType, Bounds
<1>4. ASSUME NEW time \in Int, NEW n \in Nat, After(fails, time, n)
      PROVE  After(fails', time, n + 1)
  BY <1>0, <1>4, AfterAppend
<1>5. CASE Lapsed
  <2>1. attempt' = [count |-> 1, start |-> now, till |-> 0]
    BY <1>5, Bounds DEF Failure
  <2>2. attempt' \in Attempt /\ attempt' # None /\ attempt'.count = 1
        /\ attempt'.till = 0 /\ attempt'.start = now
    BY <1>0, <2>1, Bounds, NoneAssumption DEF Attempt
  <2>3. Len(fails) < Share
    <3>1. Len(fails) < Share \/ Len(fails) <= Share - Busy
      BY <1>5, LapsedRoom DEF LimiterInv
    <3> QED
      BY <1>0, <1>3, <3>1, Bounds
  <2>4. After(fails', now, 0)
    BY <1>0, <1>1 DEF After
  <2>5. ForgottenInv' /\ BlockedInv' /\ ServedInv'
    BY <1>0, <2>2 DEF ForgottenInv, BlockedInv, ServedInv
  <2>6. CountedInv'
    BY <1>0, <1>1, <2>2, <2>3, <2>4, Bounds DEF CountedInv
  <2> QED
    BY <1>0, <1>2, <2>2, <2>5, <2>6, Bounds DEF LimitInv
<1>6. ASSUME ~Lapsed
      PROVE  /\ attempt # None /\ attempt \in Attempt
             /\ attempt.count \in Nat /\ attempt.count < Limit /\ attempt.till \in Nat
             /\ attempt.start \in Nat /\ attempt.start <= now /\ now - attempt.start <= Window
             /\ attempt.till # 0 => now < attempt.till
  <2>1. /\ attempt # None /\ attempt \in Attempt /\ ~(now - attempt.start > Window)
        /\ attempt.count \in Nat /\ attempt.count < Limit /\ attempt.till \in Nat
        /\ attempt.start \in Nat /\ attempt.start <= now
    BY <1>6, AttemptType DEF Lapsed, LimiterInv
  <2>2. attempt.till # 0 => attempt.start + Block <= attempt.till
    BY <2>1 DEF LimiterInv, LimitInv, ServedInv
  <2> QED
    BY <1>0, <2>1, <2>2, Bounds
<1>7. ASSUME ~Lapsed, attempt.till # 0
      PROVE  /\ attempt.start + Block <= attempt.till /\ attempt.till <= now + Block
             /\ Len(fails') + Busy' <= 2 * Share
             /\ After(fails', attempt.start, Share - Busy')
             /\ After(fails', attempt.till - Block, Others - Busy')
  <2>1. /\ attempt.start + Block <= attempt.till /\ attempt.till <= now + Block
        /\ Busy <= Others /\ Len(fails) + Busy <= 2 * Share
        /\ After(fails, attempt.start, Share - Busy)
        /\ After(fails, attempt.till - Block, Others - Busy)
    BY <1>6, <1>7 DEF LimiterInv, LimitInv, BlockedInv
  <2>2. /\ Share - Busy \in Nat /\ Others - Busy \in Nat /\ attempt.till - Block \in Int
        /\ attempt.start \in Int
    BY <1>3, <1>6, <1>7, <2>1, Bounds
  <2>3. /\ After(fails', attempt.start, (Share - Busy) + 1)
        /\ After(fails', attempt.till - Block, (Others - Busy) + 1)
    BY <1>4, <2>1, <2>2
  <2>4. (Share - Busy) + 1 = Share - Busy' /\ (Others - Busy) + 1 = Others - Busy'
    BY <1>3, Bounds
  <2>5. Len(fails') + Busy' = Len(fails) + Busy
    BY <1>0, <1>1, <1>3
  <2> QED
    BY <2>1, <2>3, <2>4, <2>5
<1>8. ASSUME ~Lapsed, attempt.till = 0
      PROVE  /\ attempt.count >= 1 /\ Len(fails') < Share + (attempt.count + 1)
             /\ After(fails', attempt.start, attempt.count)
  <2>1. attempt.count >= 1 /\ Len(fails) < Share + attempt.count
        /\ After(fails, attempt.start, attempt.count - 1)
    BY <1>6, <1>8 DEF LimiterInv, LimitInv, CountedInv
  <2>2. attempt.count - 1 \in Nat /\ attempt.start \in Int
        /\ (attempt.count - 1) + 1 = attempt.count
    BY <1>6, <1>8, <2>1
  <2>3. After(fails', attempt.start, (attempt.count - 1) + 1)
    BY <1>4, <2>1, <2>2
  <2>4. Len(fails') < Share + (attempt.count + 1)
    BY <1>0, <1>1, <1>6, <1>8, <2>1, Bounds
  <2> QED
    BY <2>1, <2>2, <2>3, <2>4
<1>9. CASE ~Lapsed /\ attempt.count + 1 < Limit
  <2>1. attempt' = [attempt EXCEPT !.count = attempt.count + 1]
    BY <1>6, <1>9, Bounds DEF Failure
  <2>2. /\ attempt' \in Attempt /\ attempt' # None /\ attempt'.count = attempt.count + 1
        /\ attempt'.start = attempt.start /\ attempt'.till = attempt.till
    <3> DEFINE c == attempt.count + 1
    <3>1. c \in 0..Limit /\ attempt' = [attempt EXCEPT !.count = c] /\ attempt \in Attempt
      BY <1>6, <1>9, <2>1, Bounds
    <3> HIDE DEF c
    <3>2. /\ attempt' \in Attempt /\ attempt'.count = c
          /\ attempt'.start = attempt.start /\ attempt'.till = attempt.till
      BY <3>1 DEF Attempt
    <3> QED
      BY <3>2, NoneAssumption DEF c
  <2>3. ForgottenInv' /\ ServedInv'
    <3>1. attempt.till # 0 => attempt.start + Block <= attempt.till /\ ~(attempt.till <= now)
      BY <1>0, <1>6, <1>7, <1>9
    <3> QED
      BY <2>2, <3>1 DEF ForgottenInv, ServedInv
  <2>4. CountedInv'
    <3>1. ASSUME attempt.till = 0
          PROVE  /\ attempt.count + 1 >= 1 /\ (attempt.count + 1) - 1 = attempt.count
                 /\ Len(fails') < Share + (attempt.count + 1)
                 /\ After(fails', attempt.start, attempt.count)
      BY <1>6, <1>8, <1>9, <3>1
    <3> QED
      BY <2>2, <3>1 DEF CountedInv
  <2>5. BlockedInv'
    <3>1. now < attempt.till => attempt.till # 0
      BY <1>0
    <3> QED
      BY <1>3, <1>7, <1>9, <2>2, <3>1 DEF BlockedInv
  <2> QED
    BY <1>2, <1>6, <1>9, <2>2, <2>3, <2>4, <2>5 DEF LimitInv
<1>10. CASE ~Lapsed /\ ~(attempt.count + 1 < Limit)
  <2>1. attempt' = [attempt EXCEPT !.till = now + Block, !.count = 0]
    BY <1>6, <1>10, Bounds DEF Failure
  <2>2. /\ attempt' \in Attempt /\ attempt' # None /\ attempt'.count = 0
        /\ attempt'.start = attempt.start /\ attempt'.till = now + Block
    <3> DEFINE end == now + Block
    <3>1. /\ end \in 0..(MaxTime + Block) /\ 0 \in 0..Limit /\ attempt \in Attempt
          /\ attempt' = [attempt EXCEPT !.till = end, !.count = 0]
      <4>1. end \in 0..(MaxTime + Block) /\ 0 \in 0..Limit
        BY <1>0, Bounds
      <4> QED
        BY <1>6, <1>10, <2>1, <4>1
    <3> HIDE DEF end
    <3>2. /\ attempt' \in Attempt /\ attempt'.count = 0
          /\ attempt'.start = attempt.start /\ attempt'.till = end
      BY <3>1 DEF Attempt
    <3> QED
      BY <3>2, NoneAssumption DEF end
  <2>3. attempt.count = Limit - 1 /\ now + Block \in Nat /\ now < now + Block
        /\ now + Block # 0 /\ attempt.start + Block <= now + Block
        /\ (now + Block) - Block = now
    <3>1. attempt.count = Limit - 1 /\ attempt.start <= now /\ attempt.start \in Nat
      BY <1>6, <1>10, Bounds
    <3> QED
      BY <1>0, <3>1, Bounds
  <2>4. ForgottenInv' /\ CountedInv' /\ ServedInv'
    <3>1. ~(now + Block <= now)
      BY <1>0, Bounds
    <3> QED
      BY <2>2, <2>3, <3>1 DEF ForgottenInv, CountedInv, ServedInv
  <2>5. Others - Busy' \in Nat /\ Share - Busy' \in Nat
    BY <1>3, Bounds
  <2>6. After(fails', now, Others - Busy')
    <3> DEFINE n == Others - Busy'
    <3>1. ASSUME Len(fails') > n
          PROVE  fails'[Len(fails') - n] <= now
      <4>1. Len(fails') - n \in 1..Len(fails')
        BY <1>0, <1>1, <2>5, <3>1
      <4> QED
        BY <1>2, <4>1 DEF FailsInv
    <3> QED
      BY <3>1 DEF After
  <2>7. After(fails', attempt.start, Share - Busy') /\ Len(fails') + Busy' <= 2 * Share
    <3>1. CASE attempt.till # 0
      BY <1>7, <1>10, <3>1
    <3>2. CASE attempt.till = 0
      <4>1. /\ attempt.count >= 1 /\ Len(fails') < Share + (attempt.count + 1)
            /\ After(fails', attempt.start, attempt.count)
        BY <1>8, <1>10, <3>2
      <4>2. attempt.count <= Share - Busy'
        BY <1>3, <2>3, Bounds DEF Share
      <4>3. attempt.start \in Int
        BY <1>6, <1>10
      <4>4. After(fails', attempt.start, Share - Busy')
        BY <1>1, <1>6, <1>10, <2>5, <4>1, <4>2, <4>3, AfterMore
      <4>5. Len(fails') + Busy' <= 2 * Share
        <5>1. attempt.count + Busy' <= Share
          BY <1>3, <1>6, <1>10, <4>2, Bounds
        <5> DEFINE c == attempt.count
        <5>2. c \in Nat /\ Len(fails') \in Nat /\ Len(fails') < Share + (c + 1) /\ c + Busy' <= Share
          BY <1>0, <1>1, <1>6, <1>10, <4>1, <5>1
        <5> HIDE DEF c
        <5> QED
          BY <1>3, <5>2, Bounds
      <4> QED
        BY <4>4, <4>5
    <3> QED
      BY <3>1, <3>2
  <2>8. BlockedInv'
    BY <1>0, <1>3, <2>2, <2>3, <2>6, <2>7 DEF BlockedInv
  <2> QED
    BY <1>2, <1>6, <1>10, <2>2, <2>4, <2>8, Bounds DEF LimitInv
<1> QED
  BY <1>5, <1>9, <1>10

\* A promise is made where a block begins, and lifted where a call that was let
\* in before it ends.
LEMMA FailPromise ==
  ASSUME Typed, LimiterInv, NEW a \in Calls, Fail(a), a \in Working, Working' = Working \ {a},
         attempt' \in Attempt
  PROVE  promise' \in Promise \cup {None} /\ PromiseInv'
<1>1. now' = now /\ attempt' = Failure /\ attempt' # None
  BY NoneAssumption DEF Fail
<1>2. CASE Failure.till > now /\ ~Blocked
  <2>1. promise' = [till |-> Failure.till, lifted |-> FALSE, before |-> Working \ {a}]
    BY <1>2 DEF Fail
  <2>2. Failure.till \in 0..(MaxTime + Block) /\ Working \ {a} \subseteq Calls
    BY <1>1 DEF Attempt, Working
  <2>3. promise' \in Promise /\ promise'.till = attempt'.till /\ promise'.before = Working'
    BY <1>1, <2>1, <2>2 DEF Promise
  <2> QED
    BY <1>1, <2>3 DEF PromiseInv
<1>3. CASE ~(Failure.till > now /\ ~Blocked)
  <2>1. Late(a)
    BY <1>3 DEF Fail
  <2>2. promise \in Promise \cup {None}
    BY DEF LimiterInv, LimiterTyped
  <2>3. CASE promise # None /\ a \in promise.before
    <3>1. promise' = [promise EXCEPT !.lifted = TRUE] /\ promise \in Promise
      BY <2>1, <2>2, <2>3 DEF Late
    <3>2. promise' \in Promise /\ promise'.lifted
      BY <3>1 DEF Promise
    <3> QED
      BY <3>2 DEF PromiseInv, Standing
  <2>4. CASE ~(promise # None /\ a \in promise.before)
    <3>1. promise' = promise
      BY <2>1, <2>4 DEF Late
    <3>2. ~Standing
      BY <2>4 DEF LimiterInv, PromiseInv, Standing
    <3> QED
      BY <1>1, <2>2, <3>1, <3>2 DEF PromiseInv, Standing
  <2> QED
    BY <2>3, <2>4
<1> QED
  BY <1>2, <1>3

LEMMA FailLimiter ==
  ASSUME Typed, LimiterInv, NEW a \in Calls, Fail(a)
  PROVE  LimiterInv'
<1>1. /\ now' = now /\ attempt' = Failure /\ fails' = Append(fails, now)
      /\ pc' = [pc EXCEPT ![a] = "idle"] /\ pc[a] = "wrong"
  BY DEF Fail, Return, Goto
<1>2. a \in Working /\ Working' = Working \ {a}
  BY <1>1, WorkingLess DEF Working, SigningIn
<1>3. attempt' \in Attempt /\ attempt'.count < Limit /\ attempt'.start <= now /\ LimitInv'
  BY <1>1, <1>2, FailLimit
<1>4. promise' \in Promise \cup {None} /\ PromiseInv'
  BY <1>2, <1>3, FailPromise
<1>5. fails' \in Seq(0..MaxTime)
  BY <1>1, AppendProperties DEF LimiterInv, LimiterTyped
<1>6. LimiterTyped'
  BY <1>1, <1>3, <1>4, <1>5 DEF LimiterInv, LimiterTyped
<1> QED
  BY <1>3, <1>4, <1>6 DEF LimiterInv

\* A success clears the entry, and a call let in before a block lifts it.
LEMMA WelcomeLimiter ==
  ASSUME Typed, LimiterInv, NEW a \in Calls, Welcome(a)
  PROVE  LimiterInv'
<1>1. attempt' = None /\ fails' = <<>> /\ now' = now /\ Late(a) /\ a \in Working
  BY DEF Welcome, Working, SigningIn, server
<1>2. promise \in Promise \cup {None} /\ now \in 0..MaxTime
  BY DEF LimiterInv, LimiterTyped
<1>3. CASE promise # None /\ a \in promise.before
  <2>1. promise' = [promise EXCEPT !.lifted = TRUE] /\ promise \in Promise
    BY <1>1, <1>2, <1>3 DEF Late
  <2>2. promise' \in Promise /\ promise'.lifted
    BY <2>1 DEF Promise
  <2> QED
    BY <1>1, <1>2, <2>2, ClearedLimiter DEF Standing
<1>4. CASE ~(promise # None /\ a \in promise.before)
  <2>1. promise' = promise
    BY <1>1, <1>4 DEF Late
  <2>2. ~Standing'
    BY <1>1, <1>4, <2>1 DEF LimiterInv, PromiseInv, Standing
  <2> QED
    BY <1>1, <1>2, <2>1, <2>2, ClearedLimiter
<1> QED
  BY <1>3, <1>4

LEMMA LimiterStep ==
  IInv /\ [Next]_vars => LimiterInv'
<1> SUFFICES ASSUME Typed, LimiterInv, [Next]_vars
             PROVE  LimiterInv'
  BY DEF IInv
<1> DEFINE Apart == UNCHANGED <<attempt, now, fails, promise>>
<1>0. {"idle", "wrong", "right", "stored", "fetched", "acting", "changing"} \subseteq Labels
  BY DEF Labels, SigningIn
<1>1. CASE Crash
  <2>1. attempt' = None /\ fails' = <<>> /\ promise' = None /\ now' = now
    BY <1>1 DEF Crash
  <2> QED
    BY <2>1, ClearedLimiter DEF LimiterInv, LimiterTyped, Standing
<1>2. CASE Tick
  BY <1>2, TickLimiter
<1>3. ASSUME \/ \E password \in Passwords : Start(password)
             \/ \E t \in Tokens : Expire(t)
             \/ UNCHANGED vars
      PROVE  LimiterInv'
  <2>1. Apart /\ pc' = pc
    BY <1>3 DEF Start, Expire, vars, serving, history
  <2>2. Working' = Working
    BY <2>1 DEF Working
  <2> QED
    BY <2>1, <2>2, SameLimiter
<1>4. ASSUME NEW a \in Calls, NEW password \in Passwords, Admit(a, password)
      PROVE  LimiterInv'
  BY <1>4, AdmitLimiter DEF Admit, history
<1>5. ASSUME NEW a \in Calls, NEW label \in Labels, Apart, Goto(a, label),
             label \in SigningIn <=> pc[a] \in SigningIn
      PROVE  LimiterInv'
  BY <1>5, WorkingSame, SameLimiter DEF Goto
<1>6. ASSUME NEW a \in Calls,
             \/ \E password \in Passwords : ReadCurrent(a, password)
             \/ \E t \in Tokens : PutSession(a, t) \/ Authenticate(a, t)
             \/ ReadHash(a)
      PROVE  LimiterInv'
  <2>1. Apart
    BY <1>6 DEF ReadCurrent, PutSession, Authenticate, ReadHash, history
  <2>2. \E label \in Labels : Goto(a, label) /\ (label \in SigningIn <=> pc[a] \in SigningIn)
    BY <1>0, <1>6 DEF ReadCurrent, PutSession, Authenticate, ReadHash, SigningIn
  <2> QED
    BY <1>5, <2>1, <2>2
<1>7. ASSUME NEW a \in Calls, Verify(a) \/ Leave(a) \/ Logout(a) \/ SetPassword(a)
      PROVE  LimiterInv'
  <2>1. Apart
    BY <1>7 DEF Verify, Leave, Logout, SetPassword, history
  <2>2. \E label \in Labels : Goto(a, label) /\ (label \in SigningIn <=> pc[a] \in SigningIn)
    BY <1>0, <1>7 DEF Verify, Leave, Logout, SetPassword, Return, SigningIn
  <2> QED
    BY <1>5, <2>1, <2>2
<1>8. ASSUME NEW a \in Calls, Abort(a)
      PROVE  LimiterInv'
  <2>1. Apart /\ a \in Working /\ pc' = [pc EXCEPT ![a] = "idle"]
    BY <1>8 DEF Abort, Return, Goto, Working, SigningIn, history
  <2> QED
    BY <2>1, WorkingLess, LessLimiter
<1>9. ASSUME NEW a \in Calls, Fail(a) \/ Welcome(a)
      PROVE  LimiterInv'
  BY <1>9, FailLimiter, WelcomeLimiter
<1> QED
  BY <1>1, <1>2, <1>3, <1>4, <1>6, <1>7, <1>8, <1>9 DEF Next

LEMMA InitLimiter == Init => LimiterInv
<1> SUFFICES ASSUME Init PROVE LimiterInv
  OBVIOUS
<1>1. attempt = None /\ now = 0 /\ fails = <<>> /\ promise = None /\ Len(fails) = 0
  BY EmptySeq DEF Init
<1>2. LimiterTyped
  BY <1>1, Bounds, EmptySeq DEF LimiterTyped
<1>3. LimitInv
  BY <1>1, Bounds DEF LimitInv, FailsInv, Ordered, ForgottenInv, CountedInv, BlockedInv,
     ServedInv
<1> QED
  BY <1>1, <1>2, <1>3 DEF LimiterInv, PromiseInv, Standing

LEMMA InitIInv == Init => IInv
<1> SUFFICES ASSUME Init PROVE IInv
  OBVIOUS
<1>1. Typed
  BY DEF Init, Typed, Held, Idle, Labels
<1>2. ServingInv
  BY DEF Init, ServingInv
<1>3. SessionInv
  BY DEF Init, SessionInv, StoredInv, FreshInv, FetchedInv
<1> QED
  BY <1>1, <1>2, <1>3, InitLimiter DEF IInv

\* The invariant holds throughout: a session that is still stored was issued for
\* the password in force, and what a call holds is what it read of its token
\* (admin.go:82-98, middleware.go:122-142).
THEOREM Invariance == Spec => []IInv
<1>1. IInv /\ [Next]_vars => IInv'
  BY TypedStep, SessionStep, LimiterStep DEF IInv
<1> QED
  BY InitIInv, <1>1, PTL DEF Spec

\* The type invariant: what the calls hold, the entries of the limiter, whose count
\* stays below the limit, and the histories (middleware.go:190-231).
THEOREM TypeCorrect == Spec => []TypeOK
<1>1. IInv => TypeOK
  BY DEF IInv, Typed, LimiterInv, LimiterTyped, TypeOK, Labels
<1> QED
  BY Invariance, <1>1, PTL

\* The invariant's share of the count: whoever runs beside whom, as many attempts
\* as the windows leave room for (middleware.go:203-231).
LEMMA CountHolds ==
  ASSUME LimiterInv
  PROVE  AttemptsBounded
<1>1. Len(fails) \in Nat /\ Busy \in Nat
  BY TimesType, BusyType DEF LimiterInv, LimiterTyped
<1>2. Limit + Cardinality(Calls) - 2 = Share
  BY BoundsAssumption, FS_CardinalityType DEF Share, Others
<1>3. Len(fails) <= 2 * Share
  <2>1. CASE attempt = None
    BY <1>1, <2>1, Bounds DEF LimiterInv, LimitInv, ForgottenInv
  <2>2. CASE attempt # None /\ attempt.till = 0
    BY <1>1, <2>2, Bounds, AttemptType DEF LimiterInv, LimitInv, CountedInv
  <2>3. CASE attempt # None /\ now < attempt.till
    BY <1>1, <2>3, Bounds DEF LimiterInv, LimitInv, BlockedInv
  <2>4. CASE attempt # None /\ attempt.till # 0 /\ attempt.till <= now
    BY <1>1, <2>4, Bounds DEF LimiterInv, LimitInv, ServedInv
  <2> QED
    BY <2>1, <2>2, <2>3, <2>4, AttemptType DEF LimiterInv
<1> QED
  BY <1>2, <1>3 DEF AttemptsBounded

\* However many attempts run side by side, those that fail within a window are
\* bounded, and a blocked address is let in before the end of the block only where
\* a call let in before the block has come to its end (middleware.go:203-237).
THEOREM LimiterHeld == Spec => LimiterHolds
<1> DEFINE Kept == \A a \in Calls : pc[a] = "idle" /\ pc'[a] = "admitted"
                     => promise = None \/ now >= promise.till \/ promise.lifted
<1>1. IInv /\ [Next]_vars => Kept
  <2> SUFFICES ASSUME IInv, [Next]_vars, NEW a \in Calls, pc[a] = "idle", pc'[a] = "admitted"
               PROVE  promise = None \/ now >= promise.till \/ promise.lifted
    OBVIOUS
  <2>1. pc \in [Calls -> Labels] /\ LimiterInv /\ now \in Nat
        /\ (promise # None => promise.till \in Nat)
    BY AttemptType, Bounds DEF IInv, Typed, LimiterInv, LimiterTyped, Promise
  <2>2. ASSUME NEW b \in Calls, NEW label \in Labels \ {"admitted"}, Goto(b, label)
        PROVE  FALSE
    BY <2>1, <2>2 DEF Goto
  <2>3. ASSUME Crash \/ Tick \/ UNCHANGED vars
        PROVE  FALSE
    BY <2>1, <2>3 DEF Crash, Tick, vars, serving
  <2>4. ASSUME \/ \E password \in Passwords : Start(password)
               \/ \E t \in Tokens : Expire(t)
        PROVE  FALSE
    BY <2>4 DEF Start, Expire, serving
  <2>5. ASSUME NEW b \in Calls,
               \/ \E password \in Passwords : ReadCurrent(b, password)
               \/ \E t \in Tokens : PutSession(b, t) \/ Authenticate(b, t)
               \/ Verify(b)
        PROVE  FALSE
    BY <2>2, <2>5 DEF ReadCurrent, PutSession, Authenticate, Verify, Return, Labels, SigningIn
  <2>6. ASSUME NEW b \in Calls,
               \/ ReadHash(b) \/ Abort(b) \/ Fail(b) \/ Welcome(b)
               \/ Leave(b) \/ Logout(b) \/ SetPassword(b)
        PROVE  FALSE
    BY <2>2, <2>6 DEF ReadHash, Abort, Fail, Welcome, Leave, Logout, SetPassword,
       Return, Labels, SigningIn
  <2>7. ASSUME NEW b \in Calls, NEW password \in Passwords, Admit(b, password)
        PROVE  ~Standing
    BY <2>1, <2>7, AdmitLimiter DEF Admit, history
  <2>8. ~Standing
    BY <2>3, <2>4, <2>5, <2>6, <2>7 DEF Next
  <2> QED
    BY <2>1, <2>8 DEF Standing
<1>2. IInv => AttemptsBounded
  BY CountHolds DEF IInv
<1>3. IInv /\ [Next]_vars => [Kept]_vars
  BY <1>1
<1> QED
  BY Invariance, <1>2, <1>3, PTL DEF Spec, LimiterHolds

\* A call is let through only with a session whose login gave the password in
\* force at that moment (admin.go:82-98, middleware.go:122-142).
THEOREM OldSessionsEnd == Spec => SessionDiesWithPassword
<1> DEFINE LetThrough == \A a \in Calls :
             pc[a] = "fetched" /\ pc'[a] = "acting" => issued[call[a].token] = hash
<1>1. IInv /\ [Next]_vars => LetThrough
  <2> SUFFICES ASSUME IInv, [Next]_vars, NEW a \in Calls,
                      pc[a] = "fetched", pc'[a] = "acting"
               PROVE  issued[call[a].token] = hash
    OBVIOUS
  <2>1. Verify(a)
    <3>1. pc \in [Calls -> Labels]
      BY DEF IInv, Typed
    <3>2. ASSUME NEW b \in Calls, NEW label \in Labels \ {"acting"}, Goto(b, label)
          PROVE  FALSE
      BY <3>1, <3>2 DEF Goto
    <3>3. CASE Crash \/ Tick \/ UNCHANGED vars
      BY <3>3 DEF Crash, Tick, vars, serving
    <3>4. ASSUME \/ \E password \in Passwords : Start(password)
                 \/ \E t \in Tokens : Expire(t)
          PROVE  FALSE
      BY <3>4 DEF Start, Expire, serving
    <3>5. ASSUME NEW b \in Calls,
                 \/ \E password \in Passwords : Admit(b, password) \/ ReadCurrent(b, password)
                 \/ \E t \in Tokens : PutSession(b, t) \/ Authenticate(b, t)
          PROVE  FALSE
      BY <3>2, <3>5 DEF Admit, ReadCurrent, PutSession, Authenticate, Labels, SigningIn
    <3>6. ASSUME NEW b \in Calls,
                 \/ ReadHash(b) \/ Abort(b) \/ Fail(b) \/ Welcome(b)
                 \/ Leave(b) \/ Logout(b) \/ SetPassword(b)
          PROVE  FALSE
      BY <3>2, <3>6 DEF ReadHash, Abort, Fail, Welcome, Leave, Logout, SetPassword,
         Return, Labels, SigningIn
    <3>7. ASSUME NEW b \in Calls, Verify(b)
          PROVE  b = a
      BY <3>1, <3>7 DEF Verify, Return, Goto
    <3> QED
      BY <3>3, <3>4, <3>5, <3>6, <3>7 DEF Next
  <2>2. call[a].hash = hash
    BY <2>1 DEF Verify, Value, Return, Goto, IInv, Typed, Held
  <2> QED
    BY <2>2 DEF IInv, SessionInv, FetchedInv
<1>2. [Next]_vars /\ IInv => [LetThrough]_vars
  BY <1>1
<1> QED
  BY Invariance, <1>2, PTL DEF Spec, SessionDiesWithPassword
=============================================================================
