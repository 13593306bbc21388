----------------------------- MODULE SessionStore -----------------------------
(***************************************************************************)
(* memoryStore of internal/session/store.go under concurrent callers.      *)
(*                                                                         *)
(* An entry is its expiry, 0 where there is none; what it holds is left    *)
(* out, but for a Put replacing it.  A call is cut where the code lets go  *)
(* of the lock: Put reads the clock before it takes the lock, and Get      *)
(* looks, reads the clock and only then locks to remove what has expired.  *)
(***************************************************************************)
EXTENDS Naturals, FiniteSets, FiniteSetsExt

CONSTANTS Keys,      \* session and login-state keys
          Callers,   \* goroutines with a call in progress
          Capacity,  \* memoryStore.capacity
          TTLs,      \* the lifetimes callers ask for
          MaxTime    \* bound: the last instant of the clock

ASSUME SizeAssumption ==
  /\ Capacity \in Nat \ {0}
  /\ TTLs \subseteq Nat \ {0}
  /\ \E longest \in TTLs : \A ttl \in TTLs : ttl <= longest
  /\ IsFiniteSet(Keys)
  /\ MaxTime \in Nat

VARIABLES
  time,        \* time.Now()
  items,       \* s.items
  nextExpiry,  \* s.nextExpiry, 0 for the zero time
  call         \* what each caller is in the middle of

vars == <<time, items, nextExpiry, call>>

NoEntry == 0

Idle == [op |-> "idle", key |-> NoEntry, now |-> 0, expiry |-> 0]

Stored(map) == {k \in Keys : map[k] # NoEntry}

Earliest(map) ==
  IF Stored(map) = {} THEN 0 ELSE Min({map[k] : k \in Stored(map)})

LastExpiry == MaxTime + Max(TTLs)

TypeOK ==
  /\ time \in 0..MaxTime
  /\ items \in [Keys -> 0..LastExpiry]
  /\ nextExpiry \in 0..LastExpiry
  /\ call \in [Callers -> [op : {"idle", "put", "get", "expire", "delete"},
                           key : Keys \cup {NoEntry}, now : Nat, expiry : Nat]]
  /\ Cardinality(Stored(items)) <= Capacity

Init ==
  /\ time = 0
  /\ items = [k \in Keys |-> NoEntry]
  /\ nextExpiry = 0
  /\ call = [c \in Callers |-> Idle]

Tick ==
  /\ time < MaxTime
  /\ time' = time + 1
  /\ UNCHANGED <<items, nextExpiry, call>>

-----------------------------------------------------------------------------
\* removeExpiredLocked: it scans only when something can have expired.

DueLate(now) == nextExpiry # 0 /\ nextExpiry < now

Due(now) == nextExpiry = 0 \/ nextExpiry <= now

Swept(now) ==
  IF Due(now)
  THEN [k \in Keys |-> IF items[k] > now THEN items[k] ELSE NoEntry]
  ELSE items

NextAfterSweep(now) ==
  IF Stored(items) = {} THEN 0
  ELSE IF Due(now) THEN Earliest(Swept(now)) ELSE nextExpiry

PutStart(c, k, ttl) ==
  /\ call[c].op = "idle"
  /\ call' = [call EXCEPT
       ![c] = [op |-> "put", key |-> k, now |-> time, expiry |-> time + ttl]]
  /\ UNCHANGED <<time, items, nextExpiry>>

RoomAtCapacity(map, k) == map[k] # NoEntry \/ Cardinality(Stored(map)) <= Capacity

Room(map, k) == map[k] # NoEntry \/ Cardinality(Stored(map)) < Capacity

NearestLatest(next, expiry) == IF next = 0 \/ expiry > next THEN expiry ELSE next

Nearest(next, expiry) == IF next = 0 \/ expiry < next THEN expiry ELSE next

PutStored(c) ==
  LET put  == call[c]
      kept == Swept(put.now)
  IN  /\ put.op = "put"
      /\ Room(kept, put.key)
      /\ items' = [kept EXCEPT ![put.key] = put.expiry]
      /\ nextExpiry' = Nearest(NextAfterSweep(put.now), put.expiry)
      /\ call' = [call EXCEPT ![c] = Idle]
      /\ UNCHANGED time

\* ErrCapacity; the sweep stays done.
PutRefused(c) ==
  LET put  == call[c]
      kept == Swept(put.now)
  IN  /\ put.op = "put"
      /\ ~Room(kept, put.key)
      /\ items' = kept
      /\ nextExpiry' = NextAfterSweep(put.now)
      /\ call' = [call EXCEPT ![c] = Idle]
      /\ UNCHANGED time

-----------------------------------------------------------------------------
\* Get under the read lock; of a key that has no entry nothing more follows.
GetRead(c, k) ==
  /\ call[c].op = "idle"
  /\ items[k] # NoEntry
  /\ call' = [call EXCEPT
       ![c] = [op |-> "get", key |-> k, now |-> 0, expiry |-> items[k]]]
  /\ UNCHANGED <<time, items, nextExpiry>>

GetLive(c) ==
  /\ call[c].op = "get"
  /\ call[c].expiry > time
  /\ call' = [call EXCEPT ![c] = Idle]
  /\ UNCHANGED <<time, items, nextExpiry>>

GetExpired(c) ==
  /\ call[c].op = "get"
  /\ call[c].expiry <= time
  /\ call' = [call EXCEPT ![c] = [@ EXCEPT !.op = "expire", !.now = time]]
  /\ UNCHANGED <<time, items, nextExpiry>>

\* The entry goes; the zero time makes the next Put look for the earliest.
Removed(k) ==
  /\ items' = [items EXCEPT ![k] = NoEntry]
  /\ nextExpiry' = IF items[k] = nextExpiry THEN 0 ELSE nextExpiry
  /\ UNCHANGED time

RemoveUnread(c) ==
  /\ call[c].op = "expire"
  /\ Removed(call[c].key)
  /\ call' = [call EXCEPT ![c] = Idle]

\* Under the lock the entry is looked at again: it may be another by now.
RemoveExpired(c) ==
  /\ call[c].op = "expire"
  /\ IF items[call[c].key] # NoEntry /\ items[call[c].key] <= call[c].now
     THEN Removed(call[c].key)
     ELSE UNCHANGED <<time, items, nextExpiry>>
  /\ call' = [call EXCEPT ![c] = Idle]

DeleteStart(c, k) ==
  /\ call[c].op = "idle"
  /\ call' = [call EXCEPT
       ![c] = [op |-> "delete", key |-> k, now |-> 0, expiry |-> 0]]
  /\ UNCHANGED <<time, items, nextExpiry>>

Deleted(c) ==
  /\ call[c].op = "delete"
  /\ IF items[call[c].key] # NoEntry THEN Removed(call[c].key)
     ELSE UNCHANGED <<time, items, nextExpiry>>
  /\ call' = [call EXCEPT ![c] = Idle]

Next ==
  \/ Tick
  \/ \E c \in Callers, k \in Keys :
       \/ \E ttl \in TTLs : PutStart(c, k, ttl)
       \/ GetRead(c, k)
       \/ DeleteStart(c, k)
  \/ \E c \in Callers :
       \/ PutStored(c) \/ PutRefused(c) \/ Deleted(c)
       \/ GetLive(c) \/ GetExpired(c) \/ RemoveExpired(c)

Spec == Init /\ [][Next]_vars

-----------------------------------------------------------------------------
\* nextExpiry is never later than the first expiry, else a Put would skip the
\* sweep it depends on (store.go:70-72, 88-101, 117-119, 131-133).
NextExpiryNotLate ==
  Stored(items) # {} => nextExpiry <= Earliest(items)

\* A Put is refused only if the store is full of entries that were live when
\* it was called: dead ones never lock a login out (store.go:61-68).
RefusedOnlyWhenFull ==
  [][\A c \in Callers :
       call[c].op = "put" /\ call'[c].op = "idle"
         /\ items'[call[c].key] = NoEntry =>
         /\ Cardinality(Stored(items')) = Capacity
         /\ \A k \in Stored(items') : items'[k] > call[c].now]_vars

\* The puts and deletions that have been called and not yet answered.
Requested ==
  {[op |-> call[c].op, key |-> call[c].key, expiry |-> call[c].expiry] :
     c \in {d \in Callers : call[d].op \in {"put", "delete"}}}

\* The store is the map it promises to be.  Entries that expired and are not
\* yet removed are not there for a caller.
Promise == INSTANCE TtlMap WITH
  until <- [k \in Keys |-> IF items[k] > time THEN items[k] ELSE 0],
  requests <- Requested,
  Expiries <- 0..LastExpiry

\* No interleaving of the calls loses a live entry or brings back a dead one
\* (store.go:104-125).
KeepsPromise == Promise!Spec
=============================================================================
