-------------------------------- MODULE TtlMap --------------------------------
(***************************************************************************)
(* What session.Store promises its callers, the admin sessions of          *)
(* internal/web and the login flows of internal/codex: a map of bounded    *)
(* size whose entries last until a caller replaces or deletes them or      *)
(* their time is up, and for no other reason are lost.                     *)
(***************************************************************************)
EXTENDS Naturals, FiniteSets

CONSTANTS Keys, Capacity,
          Expiries   \* the instants an entry may be asked to last until

VARIABLES
  time,
  until,    \* when each live entry expires, 0 for a key that has none
  requests  \* the puts and deletions callers wait for

vars == <<time, until, requests>>

Requests == [op : {"put", "delete"}, key : Keys, expiry : Expiries]

\* The entries of a map that are live at an instant.
LiveAt(map, t) == [k \in Keys |-> IF map[k] > t THEN map[k] ELSE 0]

Present(map) == {k \in Keys : map[k] # 0}

Init ==
  /\ time = 0
  /\ until = [k \in Keys |-> 0]
  /\ requests = {}

Tick ==
  /\ time' = time + 1
  /\ until' = LiveAt(until, time')
  /\ UNCHANGED requests

Call(r) ==
  /\ requests' = requests \cup {r}
  /\ UNCHANGED <<time, until>>

\* Another caller may still wait for the same.
Answer(r) == r \in requests /\ requests' \in {requests, requests \ {r}}

\* A caller slower than its entry's lifetime stores what is dead already.
Put(r) ==
  /\ r.op = "put"
  /\ Answer(r)
  /\ Cardinality(Present(until) \cup {r.key}) <= Capacity
  /\ until' = LiveAt([until EXCEPT ![r.key] = r.expiry], time)
  /\ UNCHANGED time

Refuse(r) ==
  /\ r.op = "put"
  /\ Answer(r)
  /\ UNCHANGED <<time, until>>

Delete(r) ==
  /\ r.op = "delete"
  /\ Answer(r)
  /\ until' = [until EXCEPT ![r.key] = 0]
  /\ UNCHANGED time

Next ==
  \/ Tick
  \/ \E r \in Requests : Call(r)
  \/ \E r \in requests : Put(r) \/ Refuse(r) \/ Delete(r)

Spec == Init /\ [][Next]_vars
=============================================================================
