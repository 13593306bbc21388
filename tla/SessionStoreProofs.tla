-------------------------- MODULE SessionStoreProofs --------------------------
(***************************************************************************)
(* Proofs about SessionStore, for any callers, any capacity and any        *)
(* lifetimes, ending in the one that it implements the map of TtlMap.      *)
(***************************************************************************)
EXTENDS SessionStore, FiniteSetTheorems, WellFoundedInduction, TLAPS

\* The least element of a set of naturals.
LEMMA LeastNatural ==
  ASSUME NEW S \in SUBSET Nat, S # {}
  PROVE  /\ Min(S) \in S
         /\ \A n \in S : Min(S) <= n
<1> PICK m : m \in S
  OBVIOUS
<1> DEFINE Initial == {0..n : n \in {i \in S : i <= m}}
           Strict == StrictSubsetOrdering(0..m)
<1>1. IsWellFoundedOn(Strict, SUBSET (0..m))
  <2>1. IsFiniteSet(0..m)
    BY FS_Interval
  <2>2. FiniteSubsetsOf(0..m) = SUBSET (0..m)
    BY <2>1, FS_FiniteSubsetsOfFinite
  <2>3. IsWellFoundedOn(Strict, FiniteSubsetsOf(0..m))
    BY FS_StrictSubsetOrderingWellFounded
  <2> QED
    BY <2>2, <2>3
<1>2. Initial \subseteq SUBSET (0..m) /\ Initial # {}
  <2>1. 0..m \in Initial
    OBVIOUS
  <2> QED
    BY <2>1
<1>3. PICK least \in Initial : \A T \in Initial : <<T, least>> \notin Strict
  <2> HIDE DEF Initial, Strict
  <2> QED
    BY <1>1, <1>2, WFMin
<1>4. PICK x \in S : x <= m /\ least = 0..x
  OBVIOUS
<1>5. ASSUME NEW y \in S, y < x
      PROVE  FALSE
  <2>1. 0..y \in Initial /\ 0..y \subseteq 0..x
    BY <1>4, <1>5
  <2>2. x \in 0..x /\ x \notin 0..y
    BY <1>5
  <2>3. <<0..y, least>> \in Strict
    BY <1>2, <1>4, <2>1, <2>2 DEF StrictSubsetOrdering
  <2> QED
    BY <1>3, <2>1, <2>3
<1>6. \A y \in S : x <= y
  BY <1>5
<1> HIDE DEF Initial, Strict
<1> QED
  BY <1>6 DEF Min

LEMMA Longest ==
  /\ Max(TTLs) \in Nat
  /\ \A ttl \in TTLs : ttl <= Max(TTLs)
BY SizeAssumption DEF Max

-----------------------------------------------------------------------------
\* What a call holds in its locals.  A Put has read the clock before it takes
\* the lock, and so has the removal of an expired entry.
CallInv ==
  \A c \in Callers :
    /\ call[c].op # "idle" => call[c].key \in Keys
    /\ call[c].op \in {"put", "expire"} => call[c].now <= time
    /\ call[c].op = "put" => call[c].expiry \in (call[c].now + 1)..LastExpiry
    /\ call[c].op = "delete" => call[c].expiry = 0

\* NextExpiryNotLate, entry by entry.
NotLate == \A k \in Keys : items[k] # NoEntry => nextExpiry <= items[k]

IInv == TypeOK /\ CallInv /\ NotLate

LEMMA TimesAreNat ==
  /\ MaxTime \in Nat /\ LastExpiry \in Nat
  /\ \A ttl \in TTLs : ttl \in Nat \ {0} /\ MaxTime + ttl <= LastExpiry
BY Longest, SizeAssumption DEF LastExpiry

\* What a sweep keeps: entries that are in the store, all that live on, and,
\* since nextExpiry is not late, no other.
LEMMA SweptKeeps ==
  ASSUME IInv, NEW instant \in Nat
  PROVE  /\ Swept(instant) \in [Keys -> 0..LastExpiry]
         /\ \A k \in Keys : IF items[k] > instant THEN Swept(instant)[k] = items[k]
                                               ELSE Swept(instant)[k] = NoEntry
BY TimesAreNat DEF IInv, TypeOK, NotLate, Swept, Due, NoEntry

\* After the sweep nextExpiry is still not late, and unset only if nothing is left.
LEMMA NextAfterSweepNotLate ==
  ASSUME IInv, NEW instant \in Nat
  PROVE  /\ NextAfterSweep(instant) \in 0..LastExpiry
         /\ \A k \in Keys : Swept(instant)[k] # NoEntry =>
              /\ NextAfterSweep(instant) <= Swept(instant)[k]
              /\ NextAfterSweep(instant) # 0
<1> DEFINE kept == Swept(instant)
           times == {kept[k] : k \in Stored(kept)}
<1>1. /\ kept \in [Keys -> 0..LastExpiry]
      /\ \A k \in Keys : kept[k] # NoEntry => kept[k] = items[k]
  BY SweptKeeps
<1> HIDE DEF kept
<1>2. CASE Stored(items) = {}
  BY <1>1, <1>2, TimesAreNat DEF NextAfterSweep, Stored, kept
<1>3. CASE Stored(items) # {} /\ Due(instant)
  <2>1. NextAfterSweep(instant) = IF Stored(kept) = {} THEN 0 ELSE Min(times)
    BY <1>3 DEF NextAfterSweep, Earliest, kept
  <2>2. times \in SUBSET (1..LastExpiry)
    BY <1>1, TimesAreNat DEF Stored, NoEntry
  <2>3. CASE Stored(kept) = {}
    BY <2>1, <2>3, TimesAreNat DEF Stored, kept
  <2>4. CASE Stored(kept) # {}
    <3>1. times # {}
      BY <2>4
    <3>2. times \in SUBSET Nat
      BY <2>2, TimesAreNat
    <3>3. Min(times) \in times /\ \A n \in times : Min(times) <= n
      BY <3>1, <3>2, LeastNatural
    <3>4. \A k \in Keys : kept[k] # NoEntry => kept[k] \in times
      BY DEF Stored
    <3> HIDE DEF times
    <3>5. /\ Min(times) \in 1..LastExpiry
          /\ \A k \in Keys : kept[k] # NoEntry => Min(times) <= kept[k]
      BY <2>2, <3>3, <3>4
    <3>6. NextAfterSweep(instant) = Min(times)
      BY <2>1, <2>4
    <3> QED
      BY <3>5, <3>6, TimesAreNat DEF kept
  <2> QED
    BY <2>3, <2>4
<1>4. CASE Stored(items) # {} /\ ~Due(instant)
  BY <1>1, <1>4, TimesAreNat DEF NextAfterSweep, Due, IInv, TypeOK, NotLate, kept
<1> QED
  BY <1>2, <1>3, <1>4

LEMMA FewerStored ==
  ASSUME NEW f, NEW g, Stored(f) \subseteq Stored(g)
  PROVE  /\ IsFiniteSet(Stored(f))
         /\ Cardinality(Stored(f)) \in Nat
         /\ Cardinality(Stored(f)) <= Cardinality(Stored(g))
<1>1. IsFiniteSet(Stored(g))
  BY SizeAssumption, FS_Subset DEF Stored
<1> QED
  BY <1>1, FS_Subset, FS_CardinalityType

\* A store with room for a key still holds no more than its capacity.
LEMMA OneMoreStored ==
  ASSUME IInv, NEW kept \in [Keys -> Nat], NEW k \in Keys, NEW expiry \in Nat \ {0},
         Stored(kept) \subseteq Stored(items), Room(kept, k)
  PROVE  /\ Stored([kept EXCEPT ![k] = expiry]) = Stored(kept) \cup {k}
         /\ Cardinality(Stored(kept) \cup {k}) <= Capacity
<1>1. Stored([kept EXCEPT ![k] = expiry]) = Stored(kept) \cup {k}
  BY DEF Stored, NoEntry
<1>2. /\ IsFiniteSet(Stored(kept)) /\ Cardinality(Stored(kept)) \in Nat
      /\ Cardinality(Stored(kept)) <= Cardinality(Stored(items))
  BY FewerStored
<1>3. Cardinality(Stored(items)) \in Nat /\ Cardinality(Stored(items)) <= Capacity
  BY FewerStored DEF IInv, TypeOK
<1>4. CASE kept[k] # NoEntry
  <2>1. Stored(kept) \cup {k} = Stored(kept)
    BY <1>4 DEF Stored
  <2>2. Cardinality(Stored(kept)) <= Capacity
    BY <1>2, <1>3, SizeAssumption
  <2> QED
    BY <1>1, <2>1, <2>2
<1>5. CASE Cardinality(Stored(kept)) < Capacity
  <2>1. Cardinality(Stored(kept) \cup {k})
          = IF k \in Stored(kept) THEN Cardinality(Stored(kept))
                                  ELSE Cardinality(Stored(kept)) + 1
    BY <1>2, FS_AddElement
  <2>2. Cardinality(Stored(kept) \cup {k}) <= Capacity
    BY <1>2, <1>5, <2>1, SizeAssumption
  <2> QED
    BY <1>1, <2>2
<1> QED
  BY <1>4, <1>5 DEF Room

LEMMA InitIInv == Init => IInv
<1> SUFFICES ASSUME Init PROVE IInv
  OBVIOUS
<1>1. Stored(items) = {}
  BY DEF Init, Stored
<1>2. TypeOK
  BY <1>1, FS_EmptySet, SizeAssumption, TimesAreNat DEF Init, TypeOK, Idle, NoEntry
<1> QED
  BY <1>2 DEF Init, IInv, CallInv, NotLate, Idle

-----------------------------------------------------------------------------
\* A step of a caller that leaves the store alone and holds next after it.
StoreKept(c, next) ==
  /\ UNCHANGED <<time, items, nextExpiry>>
  /\ call' = [call EXCEPT ![c] = next]
  /\ next \in [op : {"idle", "put", "get", "expire", "delete"},
               key : Keys \cup {NoEntry}, now : Nat, expiry : Nat]
  /\ next.op # "idle" => next.key \in Keys
  /\ next.op \in {"put", "expire"} => next.now <= time
  /\ next.op = "put" => next.expiry \in (next.now + 1)..LastExpiry
  /\ next.op = "delete" => next.expiry = 0

LEMMA StoreKeptStep ==
  ASSUME IInv, NEW c \in Callers, NEW next, StoreKept(c, next)
  PROVE  IInv'
<1>1. TypeOK'
  BY DEF IInv, TypeOK, StoreKept, Stored
<1>2. CallInv'
  BY DEF IInv, TypeOK, CallInv, StoreKept
<1> QED
  BY <1>1, <1>2 DEF IInv, NotLate, StoreKept

LEMMA PutStoredStep ==
  ASSUME IInv, NEW c \in Callers, PutStored(c)
  PROVE  IInv'
<1> DEFINE put == call[c]
           kept == Swept(put.now)
           next == NextAfterSweep(put.now)
<1>1. /\ put.key \in Keys /\ put.now \in Nat /\ put.now <= time
      /\ put.expiry \in 1..LastExpiry
  BY TimesAreNat DEF IInv, TypeOK, CallInv, PutStored
<1>2. /\ kept \in [Keys -> 0..LastExpiry] /\ kept \in [Keys -> Nat]
      /\ Stored(kept) \subseteq Stored(items)
  BY <1>1, SweptKeeps, TimesAreNat DEF Stored
<1>3. /\ next \in 0..LastExpiry
      /\ \A k \in Keys : kept[k] # NoEntry => next <= kept[k] /\ next # 0
  BY <1>1, NextAfterSweepNotLate
<1>4. /\ Room(kept, put.key)
      /\ items' = [kept EXCEPT ![put.key] = put.expiry]
      /\ nextExpiry' = Nearest(next, put.expiry)
      /\ call' = [call EXCEPT ![c] = Idle]
      /\ time' = time
  BY DEF PutStored
<1>5. Cardinality(Stored(items')) <= Capacity
  <2>1. put.expiry \in Nat \ {0}
    BY <1>1, TimesAreNat
  <2> QED
    BY <1>1, <1>2, <1>4, <2>1, OneMoreStored
<1> HIDE DEF put, kept, next
<1>6. NotLate'
  BY <1>1, <1>2, <1>3, <1>4, TimesAreNat DEF NotLate, Nearest, NoEntry
<1>7. TypeOK'
  <2>1. items' \in [Keys -> 0..LastExpiry] /\ nextExpiry' \in 0..LastExpiry
    BY <1>1, <1>2, <1>3, <1>4, TimesAreNat DEF Nearest
  <2> QED
    BY <1>4, <1>5, <2>1 DEF IInv, TypeOK, Idle, NoEntry, Stored
<1>8. CallInv'
  BY <1>4 DEF IInv, TypeOK, CallInv, Idle
<1> QED
  BY <1>6, <1>7, <1>8 DEF IInv

LEMMA PutRefusedStep ==
  ASSUME IInv, NEW c \in Callers, PutRefused(c)
  PROVE  IInv'
<1> DEFINE kept == Swept(call[c].now)
           next == NextAfterSweep(call[c].now)
<1>1. call[c].now \in Nat
  BY DEF IInv, TypeOK, PutRefused
<1>2. /\ kept \in [Keys -> 0..LastExpiry]
      /\ Stored(kept) \subseteq Stored(items)
  BY <1>1, SweptKeeps DEF Stored
<1>3. /\ next \in 0..LastExpiry
      /\ \A k \in Keys : kept[k] # NoEntry => next <= kept[k]
  BY <1>1, NextAfterSweepNotLate
<1>4. /\ items' = kept /\ nextExpiry' = next
      /\ call' = [call EXCEPT ![c] = Idle]
      /\ time' = time
  BY DEF PutRefused
<1>5. Cardinality(Stored(items')) <= Capacity
  <2>1. Cardinality(Stored(items)) \in Nat /\ Cardinality(Stored(items)) <= Capacity
    BY FewerStored DEF IInv, TypeOK
  <2>2. /\ Cardinality(Stored(kept)) \in Nat
        /\ Cardinality(Stored(kept)) <= Cardinality(Stored(items))
    BY <1>2, FewerStored
  <2> QED
    BY <1>4, <2>1, <2>2, SizeAssumption
<1> HIDE DEF kept, next
<1>6. TypeOK' /\ NotLate'
  BY <1>2, <1>3, <1>4, <1>5 DEF IInv, TypeOK, NotLate, Idle, NoEntry, Stored
<1>7. CallInv'
  BY <1>4 DEF IInv, TypeOK, CallInv, Idle
<1> QED
  BY <1>6, <1>7 DEF IInv

\* RemoveExpired and Deleted, where they find something to remove.
LEMMA RemovedStep ==
  ASSUME IInv, NEW c \in Callers, NEW k \in Keys, Removed(k),
         call' = [call EXCEPT ![c] = Idle]
  PROVE  IInv'
<1>1. /\ items' = [items EXCEPT ![k] = NoEntry]
      /\ items' \in [Keys -> 0..LastExpiry]
      /\ nextExpiry' \in {0, nextExpiry}
      /\ time' = time
  BY TimesAreNat DEF IInv, TypeOK, Removed, NoEntry
<1>2. Cardinality(Stored(items')) <= Capacity
  <2>1. Cardinality(Stored(items)) \in Nat /\ Cardinality(Stored(items)) <= Capacity
    BY FewerStored DEF IInv, TypeOK
  <2>2. Stored(items') \subseteq Stored(items)
    BY <1>1 DEF IInv, TypeOK, Stored
  <2>3. /\ Cardinality(Stored(items')) \in Nat
        /\ Cardinality(Stored(items')) <= Cardinality(Stored(items))
    BY <2>2, FewerStored
  <2> QED
    BY <2>1, <2>3, SizeAssumption
<1>3. TypeOK'
  BY <1>1, <1>2, TimesAreNat DEF IInv, TypeOK, Idle, NoEntry, Stored
<1>4. NotLate'
  BY <1>1, TimesAreNat DEF IInv, TypeOK, NotLate, NoEntry
<1>5. CallInv'
  BY <1>1 DEF IInv, TypeOK, CallInv, Idle
<1> QED
  BY <1>3, <1>4, <1>5 DEF IInv

LEMMA StepIInv == IInv /\ [Next]_vars => IInv'
<1> SUFFICES ASSUME IInv, [Next]_vars PROVE IInv'
  OBVIOUS
<1> USE TimesAreNat
<1>1. CASE Tick
  BY <1>1 DEF IInv, TypeOK, CallInv, NotLate, Tick, Stored
<1>2. ASSUME NEW c \in Callers, NEW k \in Keys, NEW ttl \in TTLs, PutStart(c, k, ttl)
      PROVE  IInv'
  <2>1. time \in Nat /\ time + ttl \in (time + 1)..LastExpiry
    BY DEF IInv, TypeOK
  <2>2. StoreKept(c, [op |-> "put", key |-> k, now |-> time, expiry |-> time + ttl])
    BY <1>2, <2>1 DEF StoreKept, PutStart
  <2> QED
    BY <2>2, StoreKeptStep
<1>3. ASSUME NEW c \in Callers, NEW k \in Keys, GetRead(c, k)
      PROVE  IInv'
  <2>1. StoreKept(c, [op |-> "get", key |-> k, now |-> 0, expiry |-> items[k]])
    BY <1>3 DEF IInv, TypeOK, StoreKept, GetRead
  <2> QED
    BY <2>1, StoreKeptStep
<1>4. ASSUME NEW c \in Callers, NEW k \in Keys, DeleteStart(c, k)
      PROVE  IInv'
  <2>1. StoreKept(c, [op |-> "delete", key |-> k, now |-> 0, expiry |-> 0])
    BY <1>4 DEF StoreKept, DeleteStart
  <2> QED
    BY <2>1, StoreKeptStep
<1>5. ASSUME NEW c \in Callers, GetLive(c)
      PROVE  IInv'
  <2>1. StoreKept(c, Idle)
    BY <1>5 DEF StoreKept, GetLive, Idle, NoEntry
  <2> QED
    BY <2>1, StoreKeptStep
<1>6. ASSUME NEW c \in Callers, GetExpired(c)
      PROVE  IInv'
  <2> DEFINE next == [call[c] EXCEPT !.op = "expire", !.now = time]
  <2>1. /\ call[c] \in [op : {"idle", "put", "get", "expire", "delete"},
                         key : Keys \cup {NoEntry}, now : Nat, expiry : Nat]
        /\ call[c].key \in Keys
        /\ time \in Nat
    BY <1>6 DEF IInv, TypeOK, CallInv, GetExpired
  <2>2. /\ next \in [op : {"idle", "put", "get", "expire", "delete"},
                      key : Keys \cup {NoEntry}, now : Nat, expiry : Nat]
        /\ next.op = "expire" /\ next.now = time /\ next.key \in Keys
    BY <2>1
  <2>3. call' = [call EXCEPT ![c] = next]
    BY <1>6 DEF GetExpired
  <2> HIDE DEF next
  <2>4. StoreKept(c, next)
    <3>1. UNCHANGED <<time, items, nextExpiry>>
      BY <1>6 DEF GetExpired
    <3>2. next.op # "put" /\ next.op # "delete" /\ next.now <= time
      BY <2>1, <2>2
    <3> QED
      BY <2>2, <2>3, <3>1, <3>2, Zenon DEF StoreKept
  <2> QED
    BY <2>4, StoreKeptStep
<1>7. ASSUME NEW c \in Callers, RemoveExpired(c) \/ Deleted(c)
      PROVE  IInv'
  <2>1. /\ call[c].key \in Keys
        /\ call' = [call EXCEPT ![c] = Idle]
        /\ Removed(call[c].key) \/ UNCHANGED <<time, items, nextExpiry>>
    BY <1>7 DEF IInv, CallInv, RemoveExpired, Deleted
  <2>2. CASE Removed(call[c].key)
    BY <2>1, <2>2, RemovedStep
  <2>3. CASE UNCHANGED <<time, items, nextExpiry>>
    <3>1. StoreKept(c, Idle)
      BY <2>1, <2>3 DEF StoreKept, Idle, NoEntry
    <3> QED
      BY <3>1, StoreKeptStep
  <2> QED
    BY <2>1, <2>2, <2>3
<1>8. CASE UNCHANGED vars
  BY <1>8 DEF vars, IInv, TypeOK, CallInv, NotLate, Stored
<1> QED
  BY <1>1, <1>2, <1>3, <1>4, <1>5, <1>6, <1>7, <1>8, PutStoredStep, PutRefusedStep
     DEF Next

\* The type invariant of the store, its bound on the number of entries included
\* (store.go:61-68).
THEOREM TypeCorrect == Spec => []TypeOK
<1>1. IInv => TypeOK
  BY DEF IInv
<1> QED
  BY InitIInv, StepIInv, <1>1, PTL DEF Spec

\* nextExpiry is never later than the first expiry (store.go:70-72, 88-101).
THEOREM SweepNotMissed == Spec => []NextExpiryNotLate
<1>1. IInv => NextExpiryNotLate
  <2> SUFFICES ASSUME IInv, Stored(items) # {}
               PROVE  nextExpiry <= Earliest(items)
    BY DEF NextExpiryNotLate
  <2> DEFINE times == {items[k] : k \in Stored(items)}
  <2>1. times \in SUBSET Nat /\ times # {}
    BY TimesAreNat DEF IInv, TypeOK, Stored
  <2>2. Min(times) \in times
    BY <2>1, LeastNatural
  <2>3. PICK k \in Stored(items) : Min(times) = items[k]
    BY <2>2
  <2> QED
    BY <2>3 DEF IInv, NotLate, Stored, Earliest
<1> QED
  BY InitIInv, StepIInv, <1>1, PTL DEF Spec

\* A Put is refused only by a store full of entries that were live when it was
\* called (store.go:61-68).
THEOREM NeverLockedOut == Spec => RefusedOnlyWhenFull
<1> DEFINE Refusal(c) ==
             call[c].op = "put" /\ call'[c].op = "idle"
               /\ items'[call[c].key] = NoEntry =>
               /\ Cardinality(Stored(items')) = Capacity
               /\ \A k \in Stored(items') : items'[k] > call[c].now
<1>1. ASSUME IInv, [Next]_vars, NEW c \in Callers,
             call[c].op = "put", call'[c].op = "idle", items'[call[c].key] = NoEntry
      PROVE  /\ Cardinality(Stored(items')) = Capacity
             /\ \A k \in Stored(items') : items'[k] > call[c].now
  <2>1. PutStored(c) \/ PutRefused(c)
    BY <1>1 DEF IInv, TypeOK, Next, vars, Tick, PutStart, GetRead, DeleteStart,
       GetLive,
       GetExpired, RemoveExpired, Deleted, PutStored, PutRefused, Idle
  <2>2. call[c].now \in Nat /\ call[c].key \in Keys /\ call[c].expiry \in 1..LastExpiry
    BY <1>1, TimesAreNat DEF IInv, TypeOK, CallInv
  <2>3. /\ Swept(call[c].now) \in [Keys -> 0..LastExpiry]
        /\ \A k \in Keys : Swept(call[c].now)[k] # NoEntry => Swept(call[c].now)[k] > call[c].now
        /\ Stored(Swept(call[c].now)) \subseteq Stored(items)
    BY <1>1, <2>2, SweptKeeps DEF Stored
  <2>4. ~PutStored(c)
    BY <1>1, <2>2, <2>3, TimesAreNat DEF PutStored, NoEntry
  <2>5. items' = Swept(call[c].now) /\ ~Room(items', call[c].key)
    BY <2>1, <2>4 DEF PutRefused
  <2>6. /\ Cardinality(Stored(items)) \in Nat /\ Cardinality(Stored(items)) <= Capacity
        /\ Cardinality(Stored(items')) \in Nat
        /\ Cardinality(Stored(items')) <= Cardinality(Stored(items))
    BY <1>1, <2>3, <2>5, FewerStored DEF IInv, TypeOK
  <2>7. Cardinality(Stored(items')) = Capacity
    BY <2>5, <2>6, SizeAssumption DEF Room
  <2> QED
    BY <2>3, <2>5, <2>7 DEF Stored
<1>2. IInv /\ [Next]_vars => [\A c \in Callers : Refusal(c)]_vars
  BY <1>1
<1> QED
  BY InitIInv, StepIInv, <1>2, PTL DEF Spec, RefusedOnlyWhenFull

-----------------------------------------------------------------------------
\* The map a caller sees, and the request a call stands for.
Live == [k \in Keys |-> IF items[k] > time THEN items[k] ELSE 0]

Request(held) == [op |-> held.op, key |-> held.key, expiry |-> held.expiry]

Pending(c) == call[c].op \in {"put", "delete"}

LEMMA RequestedIs == Requested = {Request(call[c]) : c \in {d \in Callers : Pending(d)}}
BY DEF Requested, Request, Pending

\* A call that is answered takes its request away, unless another waits for the same.
LEMMA RequestAnswered ==
  ASSUME IInv, NEW c \in Callers, Pending(c), call' = [call EXCEPT ![c] = Idle]
  PROVE  /\ Request(call[c]) \in Requested
         /\ Requested' \in {Requested, Requested \ {Request(call[c])}}
<1>1. Request(call[c]) \in Requested
  BY RequestedIs
<1>2. /\ \A d \in Callers \ {c} : call'[d] = call[d]
      /\ ~Pending(c)'
  BY DEF IInv, TypeOK, Pending, Idle
<1>3. \A r : r \in Requested' <=>
        \E d \in Callers \ {c} : Pending(d) /\ r = Request(call[d])
  <2>1. Requested' = {Request(call'[d]) : d \in {e \in Callers : Pending(e)'}}
    BY DEF Requested, Request, Pending
  <2>2. \A d \in Callers \ {c} : Pending(d)' <=> Pending(d)
    BY <1>2 DEF Pending
  <2> QED
    BY <1>2, <2>1, <2>2
<1>4. \A r : r \in Requested <=>
        r = Request(call[c]) \/ \E d \in Callers \ {c} : Pending(d) /\ r = Request(call[d])
  BY RequestedIs
<1>5. CASE \E d \in Callers \ {c} : Pending(d) /\ Request(call[c]) = Request(call[d])
  <2>1. Requested' = Requested
    BY <1>3, <1>4, <1>5
  <2> QED
    BY <1>1, <2>1
<1>6. CASE ~\E d \in Callers \ {c} : Pending(d) /\ Request(call[c]) = Request(call[d])
  <2>1. Requested' = Requested \ {Request(call[c])}
    BY <1>3, <1>4, <1>6
  <2> QED
    BY <1>1, <2>1
<1> QED
  BY <1>5, <1>6

\* A call that starts, or that a Get makes, adds at most its own request.
LEMMA RequestMade ==
  ASSUME IInv, NEW c \in Callers, NEW next, ~Pending(c), call' = [call EXCEPT ![c] = next]
  PROVE  Requested' = IF next.op \in {"put", "delete"} THEN Requested \cup {Request(next)}
                                                       ELSE Requested
<1>1. /\ \A d \in Callers \ {c} : call'[d] = call[d]
      /\ call'[c] = next
  BY DEF IInv, TypeOK
<1>2. Requested' = {Request(call'[d]) : d \in {e \in Callers : Pending(e)'}}
  BY DEF Requested, Request, Pending
<1>3. /\ \A d \in Callers \ {c} : Pending(d)' <=> Pending(d)
      /\ Pending(c)' <=> next.op \in {"put", "delete"}
  BY <1>1 DEF Pending
<1>4. CASE next.op \in {"put", "delete"}
  <2>1. \A r : r \in Requested' <=> r \in Requested \/ r = Request(next)
    BY <1>1, <1>2, <1>3, <1>4, RequestedIs
  <2> QED
    BY <1>4, <2>1
<1>5. CASE next.op \notin {"put", "delete"}
  <2>1. \A r : r \in Requested' <=> r \in Requested
    BY <1>1, <1>2, <1>3, <1>5, RequestedIs
  <2> QED
    BY <1>5, <2>1
<1> QED
  BY <1>4, <1>5

\* Cardinality as the instance of TtlMap names it.
LEMMA SameCardinality == \A S : Promise!Cardinality(S) = Cardinality(S)
BY DEF Promise!Cardinality, Cardinality

LEMMA InitPromise == Init => Promise!Init
BY DEF Init, Promise!Init, Requested, Idle, NoEntry

\* Removing or keeping what has expired is nothing a caller can see.
LEMMA SweptUnseen ==
  ASSUME IInv, NEW instant \in Nat, instant <= time
  PROVE  \A k \in Keys : IF items[k] > time THEN Swept(instant)[k] = items[k]
                                           ELSE Swept(instant)[k] <= time
BY SweptKeeps, TimesAreNat, SizeAssumption DEF IInv, TypeOK, NoEntry

LEMMA TickPromised == ASSUME IInv, Tick PROVE Promise!Tick
<1>1. Requested' = Requested
  BY DEF Tick, Requested
<1>2. [k \in Keys |-> IF items[k] > time THEN items[k] ELSE 0]'
        = Promise!LiveAt([k \in Keys |-> IF items[k] > time THEN items[k] ELSE 0], time')
  BY TimesAreNat, SizeAssumption DEF IInv, TypeOK, Tick, Promise!LiveAt
<1> QED
  BY <1>1, <1>2 DEF Promise!Tick, Tick

LEMMA PutStoredPromised ==
  ASSUME IInv, NEW c \in Callers, PutStored(c)
  PROVE  \E r \in Requested : Promise!Put(r)
<1> DEFINE put == call[c]
           kept == Swept(put.now)
<1>1. /\ put.key \in Keys /\ put.now \in Nat /\ put.now <= time
      /\ put.expiry \in 1..LastExpiry /\ time \in Nat /\ put.op = "put"
      /\ items \in [Keys -> Nat]
  BY TimesAreNat, SizeAssumption DEF IInv, TypeOK, CallInv, PutStored
<1>2. /\ Request(put) \in Requested
      /\ Requested' \in {Requested, Requested \ {Request(put)}}
  BY <1>1, RequestAnswered DEF Pending, PutStored
<1>3. /\ kept \in [Keys -> Nat]
      /\ Stored(kept) \subseteq Stored(items)
      /\ \A k \in Keys : IF items[k] > time THEN kept[k] = items[k] ELSE kept[k] <= time
  BY <1>1, SweptKeeps, SweptUnseen, TimesAreNat DEF Stored
<1>4. /\ Room(kept, put.key)
      /\ items' = [kept EXCEPT ![put.key] = put.expiry]
      /\ time' = time
  BY DEF PutStored
<1> HIDE DEF put, kept
<1>5. Cardinality(Promise!Present(Live) \cup {put.key}) <= Capacity
  <2>1. /\ Stored([kept EXCEPT ![put.key] = put.expiry]) = Stored(kept) \cup {put.key}
        /\ Cardinality(Stored(kept) \cup {put.key}) <= Capacity
    <3>1. put.expiry \in Nat \ {0}
      BY <1>1, TimesAreNat
    <3> QED
      BY <1>1, <1>3, <1>4, <3>1, OneMoreStored
  <2>2. Promise!Present(Live) \cup {put.key} \subseteq Stored(kept) \cup {put.key}
    BY <1>1, <1>3 DEF Promise!Present, Live, Stored, NoEntry
  <2>3. IsFiniteSet(Stored(kept) \cup {put.key})
    BY <1>3, FewerStored, FS_AddElement
  <2>4. /\ Cardinality(Promise!Present(Live) \cup {put.key}) \in Nat
        /\ Cardinality(Stored(kept) \cup {put.key}) \in Nat
        /\ Cardinality(Promise!Present(Live) \cup {put.key})
             <= Cardinality(Stored(kept) \cup {put.key})
    BY <2>2, <2>3, FS_Subset, FS_CardinalityType
  <2> QED
    BY <2>1, <2>4, SizeAssumption
<1>6. Live' = Promise!LiveAt([Live EXCEPT ![put.key] = put.expiry], time)
  BY <1>1, <1>3, <1>4, TimesAreNat DEF Live, Promise!LiveAt
<1> DEFINE r == Request(put)
<1>7. r.op = "put" /\ r.key = put.key /\ r.expiry = put.expiry
  BY <1>1 DEF Request
<1>8. r \in Requested /\ Promise!Answer(r)
  BY <1>2 DEF Promise!Answer
<1> HIDE DEF r
<1>9. Promise!Cardinality(Promise!Present(Live) \cup {r.key}) <= Capacity
  BY <1>5, <1>7, SameCardinality
<1>10. Live' = Promise!LiveAt([Live EXCEPT ![r.key] = r.expiry], time)
  BY <1>6, <1>7
<1>11. Promise!Put(r)
  BY <1>4, <1>7, <1>8, <1>9, <1>10 DEF Promise!Put, Live
<1> QED
  BY <1>8, <1>11, Zenon DEF Promise!Put, Promise!Answer

LEMMA PutRefusedPromised ==
  ASSUME IInv, NEW c \in Callers, PutRefused(c)
  PROVE  \E r \in Requested : Promise!Refuse(r)
<1> DEFINE kept == Swept(call[c].now)
           r == Request(call[c])
<1>1. /\ call[c].now \in Nat /\ call[c].now <= time
      /\ call[c].op = "put" /\ items \in [Keys -> Nat]
  BY TimesAreNat DEF IInv, TypeOK, CallInv, PutRefused
<1>2. r \in Requested /\ Promise!Answer(r)
  BY <1>1, RequestAnswered DEF Pending, PutRefused, Promise!Answer
<1>3. r.op = "put"
  BY <1>1 DEF Request
<1>4. Live' = Live /\ time' = time
  <2>1. \A k \in Keys : IF items[k] > time THEN kept[k] = items[k] ELSE kept[k] <= time
    BY <1>1, SweptUnseen
  <2>2. items' = kept /\ time' = time /\ time \in Nat /\ kept \in [Keys -> 0..LastExpiry]
    BY <1>1, SweptKeeps, SizeAssumption DEF PutRefused, IInv, TypeOK
  <2> HIDE DEF kept
  <2> QED
    BY <1>1, <2>1, <2>2, TimesAreNat DEF Live
<1> HIDE DEF r
<1>5. Promise!Refuse(r)
  BY <1>2, <1>3, <1>4 DEF Promise!Refuse, Live
<1> QED
  BY <1>2, <1>5, Zenon DEF Promise!Refuse, Promise!Answer

\* The first entry that is removed has expired or is deleted.
LEMMA DeletedPromised ==
  ASSUME IInv, NEW c \in Callers, Deleted(c)
  PROVE  \E r \in Requested : Promise!Delete(r)
<1> DEFINE r == Request(call[c])
<1>1. /\ call[c].key \in Keys /\ call[c].op = "delete"
      /\ time \in Nat /\ items \in [Keys -> Nat]
  BY TimesAreNat, SizeAssumption DEF IInv, TypeOK, CallInv, Deleted
<1>2. r \in Requested /\ Promise!Answer(r)
  BY <1>1, RequestAnswered DEF Pending, Deleted, Promise!Answer
<1>3. r.op = "delete" /\ r.key = call[c].key
  BY <1>1 DEF Request
<1>4. time' = time /\ items' = [items EXCEPT ![call[c].key] = 0]
  BY <1>1 DEF Deleted, Removed, NoEntry
<1>5. Live' = [Live EXCEPT ![r.key] = 0]
  BY <1>1, <1>3, <1>4 DEF Live
<1> HIDE DEF r
<1>6. Promise!Delete(r)
  BY <1>2, <1>3, <1>4, <1>5 DEF Promise!Delete, Live
<1> QED
  BY <1>2, <1>6, Zenon DEF Promise!Delete, Promise!Answer

LEMMA CallPromised ==
  ASSUME IInv, NEW c \in Callers, NEW k \in Keys,
         DeleteStart(c, k) \/ \E ttl \in TTLs : PutStart(c, k, ttl)
  PROVE  \E r \in Promise!Requests : Promise!Call(r)
<1>1. PICK next \in [op : {"put", "delete"}, key : Keys, now : Nat, expiry : 0..LastExpiry] :
        call' = [call EXCEPT ![c] = next]
  <2>1. CASE DeleteStart(c, k)
    <3>1. 0 \in 0..LastExpiry
      BY TimesAreNat
    <3> QED
      BY <2>1, <3>1 DEF DeleteStart
  <2>2. ASSUME NEW ttl \in TTLs, PutStart(c, k, ttl)
        PROVE  \E next \in [op : {"put", "delete"}, key : Keys, now : Nat, expiry : 0..LastExpiry] :
                 call' = [call EXCEPT ![c] = next]
    <3>1. time \in Nat /\ time + ttl \in 0..LastExpiry
      BY TimesAreNat, SizeAssumption DEF IInv, TypeOK
    <3> QED
      BY <2>2, <3>1 DEF PutStart
  <2> QED
    BY <2>1, <2>2
<1> DEFINE r == Request(next)
<1>2. ~Pending(c)
  BY DEF Pending, DeleteStart, PutStart
<1>3. Requested' = Requested \cup {r}
  BY <1>1, <1>2, RequestMade
<1>4. r \in Promise!Requests
  BY <1>1 DEF Request, Promise!Requests
<1>5. UNCHANGED <<time, items>>
  BY DEF DeleteStart, PutStart
<1> HIDE DEF r
<1>6. Promise!Call(r)
  BY <1>3, <1>5 DEF Promise!Call
<1> QED
  BY <1>4, <1>6, Zenon DEF Promise!Call

\* Steps a caller of the store cannot see.
LEMMA GetUnseen ==
  ASSUME IInv, NEW c \in Callers,
         GetLive(c) \/ GetExpired(c) \/ RemoveExpired(c) \/ \E k \in Keys : GetRead(c, k)
  PROVE  UNCHANGED <<time, Live, Requested>>
<1>1. PICK next : next.op \notin {"put", "delete"} /\ call' = [call EXCEPT ![c] = next]
  <2>1. CASE GetLive(c) \/ RemoveExpired(c)
    BY <2>1 DEF GetLive, RemoveExpired, Idle
  <2>2. CASE GetExpired(c)
    <3>1. call[c] \in [op : {"idle", "put", "get", "expire", "delete"},
                       key : Keys \cup {NoEntry}, now : Nat, expiry : Nat]
      BY DEF IInv, TypeOK
    <3>2. [call[c] EXCEPT !.op = "expire", !.now = time].op = "expire"
      BY <3>1
    <3> QED
      BY <2>2, <3>2 DEF GetExpired
  <2>3. ASSUME NEW k \in Keys, GetRead(c, k)
        PROVE  \E next : next.op \notin {"put", "delete"} /\ call' = [call EXCEPT ![c] = next]
    BY <2>3 DEF GetRead
  <2> QED
    BY <2>1, <2>2, <2>3
<1>2. ~Pending(c)
  BY DEF Pending, GetLive, GetExpired, RemoveExpired, GetRead
<1>3. Requested' = Requested
  BY <1>1, <1>2, RequestMade
<1>4. time' = time /\ time \in Nat
  BY SizeAssumption DEF IInv, TypeOK, GetLive, GetExpired, RemoveExpired,
     Removed, GetRead
<1>5. CASE RemoveExpired(c) /\ Removed(call[c].key)
           /\ items[call[c].key] <= call[c].now
  <2>1. call[c].key \in Keys /\ call[c].now \in Nat /\ call[c].now <= time
        /\ items \in [Keys -> Nat]
    BY <1>5, TimesAreNat DEF IInv, TypeOK, CallInv, RemoveExpired
  <2>2. items' = [items EXCEPT ![call[c].key] = 0]
    BY <1>5 DEF Removed, NoEntry
  <2>3. Live' = Live
    BY <1>4, <1>5, <2>1, <2>2 DEF Live
  <2> QED
    BY <1>3, <1>4, <2>3
<1>6. CASE UNCHANGED items
  BY <1>3, <1>4, <1>6 DEF Live
<1> QED
  BY <1>5, <1>6 DEF GetLive, GetExpired, RemoveExpired, GetRead

LEMMA StepPromised ==
  IInv /\ [Next]_vars => [Promise!Next]_(Promise!vars)
<1> SUFFICES ASSUME IInv, [Next]_vars
             PROVE  Promise!Next \/ UNCHANGED <<time, Live, Requested>>
  BY DEF Promise!vars, Live
<1>1. CASE Tick
  BY <1>1, TickPromised DEF Promise!Next
<1>2. ASSUME NEW c \in Callers, NEW k \in Keys,
             DeleteStart(c, k) \/ \E ttl \in TTLs : PutStart(c, k, ttl)
      PROVE  Promise!Next
  BY <1>2, CallPromised, Zenon DEF Promise!Next
<1>3. ASSUME NEW c \in Callers, PutStored(c)
      PROVE  Promise!Next
  BY <1>3, PutStoredPromised, Zenon DEF Promise!Next
<1>4. ASSUME NEW c \in Callers, PutRefused(c)
      PROVE  Promise!Next
  BY <1>4, PutRefusedPromised, Zenon DEF Promise!Next
<1>5. ASSUME NEW c \in Callers, Deleted(c)
      PROVE  Promise!Next
  BY <1>5, DeletedPromised, Zenon DEF Promise!Next
<1>6. ASSUME NEW c \in Callers,
             GetLive(c) \/ GetExpired(c) \/ RemoveExpired(c)
               \/ \E k \in Keys : GetRead(c, k)
      PROVE  UNCHANGED <<time, Live, Requested>>
  BY <1>6, GetUnseen
<1>7. CASE UNCHANGED vars
  BY <1>7 DEF vars, Live, Requested
<1> QED
  BY <1>1, <1>2, <1>3, <1>4, <1>5, <1>6, <1>7 DEF Next

\* The store implements the map it promises: no interleaving of the calls loses
\* a live entry, brings back a dead one or exceeds the capacity (store.go:61-137).
THEOREM ImplementsMap == Spec => KeepsPromise
<1> QED
  BY InitIInv, StepIInv, InitPromise, StepPromised, PTL DEF Spec, KeepsPromise,
     Promise!Spec
=============================================================================
