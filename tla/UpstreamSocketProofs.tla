------------------------- MODULE UpstreamSocketProofs -------------------------
(***************************************************************************)
(* Proofs about UpstreamSocket, for any backlog, budget, sizes and number  *)
(* of frames.  That the session takes the frames without a gap follows     *)
(* from where each number is: behind what was taken come the queue, the    *)
(* frame in the reader's hand and the wire.  That it learns why the        *)
(* channel closed follows from who can have closed it while the session    *)
(* still used it.  That the budget is exact follows from sums over the     *)
(* queue that shift when a frame is taken and grow when one is offered.    *)
(***************************************************************************)
EXTENDS UpstreamSocket, SequenceTheorems, TLAPS

\* The part of the type invariant that is needed.
Typed ==
  /\ sent \in Nat
  /\ wire \in Seq(Frame)
  /\ events \in Seq(Frame)
  /\ got \in Seq(1..MaxFrames)
  /\ reader \in {"reading", "offering", "leaving", "done"}
  /\ IF reader = "offering" THEN held \in Frame ELSE held = None

InHand == IF reader = "offering" THEN 1 ELSE 0

\* How many frames have been read, as long as none was dropped.
Arrived == Len(got) + Len(events) + InHand

\* The numbers follow one another from what was taken to what is on the wire.
QueueInv ==
  /\ \A i \in 1..Len(events) : events[i].n = Len(got) + i
  /\ reader = "offering" => held.n = Len(got) + Len(events) + 1

WireInv ==
  reader \in {"reading", "offering"} =>
    /\ \A i \in 1..Len(wire) : wire[i].n = Arrived + i
    /\ conn = "open" => sent = Arrived + Len(wire)

\* A reader that leaves while the session uses the socket has left a reason,
\* and so has a pinger that closes it.
ReasonInv ==
  /\ session = "told" => err # None
  /\ session \in {"using", "told"} =>
       ("stop" \in closed \/ reader \in {"leaving", "done"} => err # None)
  /\ pinger = "failed" => err # None
  /\ "events" \in closed => reader \in {"leaving", "done"}

OrderInv == Typed /\ InOrder /\ QueueInv /\ WireInv

IInv == OrderInv /\ ReasonInv

LEMMA FrameFields ==
  ASSUME NEW f \in Frame
  PROVE  f.n \in 1..MaxFrames /\ f # None
BY NoneAssumption DEF Frame

LEMMA InitIInv == Init => IInv
<1> SUFFICES ASSUME Init PROVE IInv
  OBVIOUS
<1>1. OrderInv
  BY DEF Init, OrderInv, Typed, InOrder, QueueInv, WireInv, Arrived, InHand
<1>2. ReasonInv
  BY DEF Init, ReasonInv
<1> QED
  BY <1>1, <1>2 DEF IInv

\* Who closes a channel first leaves a reason, unless it is the session.
LEMMA ReasonStep ==
  IInv /\ [Next]_vars => ReasonInv'
<1> USE NoneAssumption DEF SetError, upstream, reading, using
<1> SUFFICES ASSUME ReasonInv, [Next]_vars
             PROVE  ReasonInv'
  BY DEF IInv
<1>1. ASSUME NEW size \in Sizes, NEW text \in BOOLEAN, Send(size, text)
      PROVE  ReasonInv'
  BY <1>1 DEF ReasonInv, Send
<1>2. CASE Break
  BY <1>2 DEF ReasonInv, Break
<1>3. CASE ReadFrame
  BY <1>3 DEF ReasonInv, ReadFrame, Quit
<1>4. CASE ReadFails
  BY <1>4 DEF ReasonInv, ReadFails, Quit
<1>5. CASE Offer
  BY <1>5 DEF ReasonInv, Offer
<1>6. CASE StopOffering
  BY <1>6 DEF ReasonInv, StopOffering
<1>7. CASE LeaveReading
  BY <1>7 DEF ReasonInv, LeaveReading
<1>8. CASE Take
  BY <1>8 DEF ReasonInv, Take
<1>9. CASE PingFails \/ PingerCloses \/ PingerClosed \/ PingerEnds
  BY <1>9 DEF ReasonInv, PingFails, PingerCloses, PingerClosed, PingerEnds,
     CloseBegins, CloseEnds
<1>10. CASE Release \/ FindClosed
  BY <1>10 DEF ReasonInv, Release, FindClosed
<1>11. CASE SessionCloses \/ SessionClosed \/ SessionLeaves
  BY <1>11 DEF ReasonInv, SessionCloses, SessionClosed, SessionLeaves,
     CloseBegins, CloseEnds
<1>12. CASE UNCHANGED vars
  BY <1>12 DEF ReasonInv, vars
<1> QED
  BY <1>1, <1>2, <1>3, <1>4, <1>5, <1>6, <1>7, <1>8, <1>9,
     <1>10, <1>11, <1>12
     DEF Next

\* The order does not depend on anything else.
LEMMA OrderKept ==
  ASSUME OrderInv, UNCHANGED <<sent, wire, held, events, got>>,
         reader' = reader \/ (reader' \in {"leaving", "done"} /\ reader # "offering"),
         conn' = "open" => conn = "open"
  PROVE  OrderInv'
<1>1. Typed' /\ InOrder'
  BY DEF OrderInv, Typed, InOrder
<1>2. QueueInv' /\ WireInv'
  BY DEF OrderInv, QueueInv, WireInv, Arrived, InHand
<1> QED
  BY <1>1, <1>2 DEF OrderInv

LEMMA SendOrder ==
  ASSUME OrderInv, NEW size \in Sizes, NEW text \in BOOLEAN, Send(size, text)
  PROVE  OrderInv'
<1> DEFINE frame == [n |-> sent + 1, size |-> size, text |-> text]
<1>1. frame \in Frame /\ frame.n = sent + 1
  BY BoundsAssumption DEF OrderInv, Typed, Send, Frame
<1>2. wire' = Append(wire, frame) /\ wire \in Seq(Frame)
  BY DEF OrderInv, Typed, Send
<1> HIDE DEF frame
<1>3. /\ wire' \in Seq(Frame) /\ Len(wire') = Len(wire) + 1
      /\ \A i \in 1..Len(wire) : wire'[i] = wire[i]
      /\ wire'[Len(wire) + 1] = frame
  BY <1>1, <1>2, AppendProperties
<1>4. /\ UNCHANGED <<reader, held, events, got, conn>>
      /\ sent' = sent + 1 /\ conn = "open"
  BY DEF Send, reading, using
<1>5. Typed' /\ InOrder' /\ QueueInv'
  BY <1>3, <1>4 DEF OrderInv, Typed, InOrder, QueueInv
<1>6. Len(wire) \in Nat /\ Arrived \in Nat
  BY DEF OrderInv, Typed, Arrived, InHand
<1>7. Arrived' = Arrived
  BY <1>4 DEF Arrived, InHand
<1>8. WireInv'
  <2> SUFFICES ASSUME reader \in {"reading", "offering"}
               PROVE  /\ \A i \in 1..Len(wire') : wire'[i].n = Arrived + i
                      /\ sent' = Arrived + Len(wire')
    BY <1>4, <1>7 DEF WireInv
  <2>1. /\ \A i \in 1..Len(wire) : wire[i].n = Arrived + i
        /\ sent = Arrived + Len(wire)
    BY <1>4 DEF OrderInv, WireInv
  <2> QED
    BY <1>1, <1>3, <1>4, <1>6, <2>1
<1> QED
  BY <1>5, <1>8 DEF OrderInv

LEMMA ReadOrder ==
  ASSUME OrderInv, ReadFrame
  PROVE  OrderInv'
<1> DEFINE frame == Head(wire)
<1>1. /\ wire \in Seq(Frame) /\ wire # <<>>
      /\ wire' = Tail(wire) /\ reader = "reading" /\ sent \in Nat
      /\ UNCHANGED <<sent, conn, events, got>>
  BY DEF ReadFrame, OrderInv, Typed, using
<1>2. /\ frame \in Frame /\ frame = wire[1]
      /\ wire' \in Seq(Frame) /\ Len(wire') = Len(wire) - 1 /\ Len(wire) \in Nat \ {0}
      /\ \A i \in 1..Len(wire') : wire'[i] = wire[i + 1]
  BY <1>1, HeadTailProperties, LenProperties, EmptySeq
<1>3. /\ Arrived = Len(got) + Len(events) /\ Arrived \in Nat
      /\ Len(got) \in Nat /\ Len(events) \in Nat
  BY <1>1 DEF OrderInv, Typed, Arrived, InHand
<1>4. /\ \A i \in 1..Len(wire) : wire[i].n = Arrived + i
      /\ conn = "open" => sent = Arrived + Len(wire)
  BY <1>1 DEF OrderInv, WireInv
<1>5. InOrder'
  BY <1>1 DEF OrderInv, InOrder
<1>6. CASE reader' = "leaving" /\ held' = held
  BY <1>1, <1>2, <1>5, <1>6 DEF OrderInv, Typed, QueueInv, WireInv
<1>7. CASE reader' = "offering" /\ held' = frame
  <2>1. Typed'
    BY <1>1, <1>2, <1>7 DEF OrderInv, Typed
  <2>2. Arrived' = Arrived + 1
    BY <1>1, <1>3, <1>7 DEF Arrived, InHand
  <2>3. frame.n = Arrived + 1
    BY <1>2, <1>4
  <2>4. QueueInv'
    BY <1>1, <1>3, <1>7, <2>3 DEF OrderInv, QueueInv
  <2>5. \A i \in 1..Len(wire') : wire'[i].n = Arrived + 1 + i
    <3> SUFFICES ASSUME NEW i \in 1..Len(wire') PROVE wire'[i].n = Arrived + 1 + i
      OBVIOUS
    <3>1. i + 1 \in 1..Len(wire) /\ wire'[i] = wire[i + 1]
      BY <1>2
    <3>2. wire[i + 1].n = Arrived + (i + 1)
      BY <1>4, <3>1
    <3> QED
      BY <1>3, <3>1, <3>2
  <2>6. conn' = "open" => sent' = Arrived + 1 + Len(wire')
    BY <1>1, <1>2, <1>3, <1>4
  <2>7. WireInv'
    BY <2>2, <2>5, <2>6 DEF WireInv
  <2> QED
    BY <1>5, <2>1, <2>4, <2>7 DEF OrderInv
<1> QED
  BY <1>6, <1>7 DEF ReadFrame, Quit

LEMMA OfferOrder ==
  ASSUME OrderInv, Offer
  PROVE  OrderInv'
<1>1. /\ reader = "offering" /\ reader' = "reading" /\ held' = None
      /\ held \in Frame /\ events \in Seq(Frame) /\ events' = Append(events, held)
      /\ UNCHANGED <<sent, wire, conn, got>>
  BY DEF Offer, OrderInv, Typed, upstream, using
<1>2. /\ events' \in Seq(Frame) /\ Len(events') = Len(events) + 1
      /\ \A i \in 1..Len(events) : events'[i] = events[i]
      /\ events'[Len(events) + 1] = held
  BY <1>1, AppendProperties
<1>3. Len(events) \in Nat /\ Len(got) \in Nat
  BY DEF OrderInv, Typed
<1>4. Typed' /\ InOrder'
  BY <1>1, <1>2 DEF OrderInv, Typed, InOrder
<1>5. QueueInv'
  BY <1>1, <1>2, <1>3 DEF OrderInv, QueueInv
<1>6. Arrived' = Arrived
  BY <1>1, <1>2, <1>3 DEF Arrived, InHand
<1>7. WireInv'
  BY <1>1, <1>6 DEF OrderInv, WireInv
<1> QED
  BY <1>4, <1>5, <1>7 DEF OrderInv

LEMMA TakeOrder ==
  ASSUME OrderInv, Take
  PROVE  OrderInv'
<1>1. /\ events \in Seq(Frame) /\ events # <<>> /\ events' = Tail(events)
      /\ got \in Seq(1..MaxFrames) /\ got' = Append(got, Head(events).n)
      /\ UNCHANGED <<sent, wire, conn, reader, held>>
  BY DEF Take, OrderInv, Typed, upstream, reading
<1>2. /\ Head(events) \in Frame /\ Head(events) = events[1]
      /\ events' \in Seq(Frame) /\ Len(events') = Len(events) - 1
      /\ Len(events) \in Nat \ {0}
      /\ \A i \in 1..Len(events') : events'[i] = events[i + 1]
  BY <1>1, HeadTailProperties, LenProperties, EmptySeq
<1>3. /\ got' \in Seq(1..MaxFrames) /\ Len(got') = Len(got) + 1 /\ Len(got) \in Nat
      /\ \A i \in 1..Len(got) : got'[i] = got[i]
      /\ got'[Len(got) + 1] = Head(events).n
  BY <1>1, <1>2, AppendProperties, LenProperties, FrameFields
<1>4. Typed'
  BY <1>1, <1>2, <1>3 DEF OrderInv, Typed
<1>5. Head(events).n = Len(got) + 1
  BY <1>2, <1>3 DEF OrderInv, QueueInv
<1>6. InOrder'
  <2>1. DOMAIN got = 1..Len(got) /\ DOMAIN got' = 1..Len(got')
    BY <1>1, <1>3, LenProperties
  <2> QED
    BY <1>3, <1>5, <2>1 DEF OrderInv, InOrder
<1>7. QueueInv'
  BY <1>1, <1>2, <1>3 DEF OrderInv, QueueInv
<1>8. Arrived' = Arrived
  BY <1>1, <1>2, <1>3 DEF Arrived, InHand
<1>9. WireInv'
  BY <1>1, <1>8 DEF OrderInv, WireInv
<1> QED
  BY <1>4, <1>6, <1>7, <1>9 DEF OrderInv

\* Frames move from the wire to the session one place at a time.
LEMMA OrderStep ==
  IInv /\ [Next]_vars => OrderInv'
<1> USE DEF upstream, reading, using
<1> SUFFICES ASSUME OrderInv, [Next]_vars
             PROVE  OrderInv'
  BY DEF IInv
<1>1. CASE Break
  <2>1. wire' \in Seq(Frame)
    BY <1>1, EmptySeq DEF OrderInv, Typed, Break
  <2>2. Typed' /\ InOrder' /\ QueueInv'
    BY <1>1, <2>1 DEF OrderInv, Typed, InOrder, QueueInv, Break
  <2>3. Arrived' = Arrived
    BY <1>1 DEF Arrived, InHand, Break
  <2>4. WireInv'
    <3>1. conn' # "open" /\ reader' = reader
      BY <1>1 DEF Break
    <3>2. wire' = wire \/ Len(wire') = 0
      BY <1>1, EmptySeq DEF Break
    <3> QED
      BY <2>3, <3>1, <3>2 DEF OrderInv, WireInv
  <2> QED
    BY <2>2, <2>4 DEF OrderInv
<1>2. CASE ReadFails
  BY <1>2, OrderKept DEF ReadFails, Quit
<1>3. CASE StopOffering
  BY <1>3 DEF OrderInv, Typed, InOrder, QueueInv, WireInv, StopOffering
<1>4. CASE LeaveReading
  BY <1>4, OrderKept DEF LeaveReading
<1>5. CASE PingFails \/ PingerCloses \/ PingerClosed \/ PingerEnds
  BY <1>5, OrderKept
     DEF PingFails, PingerCloses, PingerClosed, PingerEnds, CloseBegins, CloseEnds
<1>6. CASE Release \/ FindClosed
  BY <1>6, OrderKept DEF Release, FindClosed
<1>7. CASE SessionCloses \/ SessionClosed \/ SessionLeaves
  BY <1>7, OrderKept DEF SessionCloses, SessionClosed, SessionLeaves,
     CloseBegins, CloseEnds
<1>8. CASE UNCHANGED vars
  BY <1>8, OrderKept DEF vars
<1> QED
  BY <1>1, <1>2, <1>3, <1>4, <1>5, <1>6, <1>7, <1>8, SendOrder, ReadOrder,
     OfferOrder,
     TakeOrder DEF Next

\* The session takes frames in the order they were sent and without a gap, and
\* learns why where they end (websocket.go:249-252, 508-518).
THEOREM NoGapUntold == Spec => []GaplessOrTold
<1>1. IInv /\ [Next]_vars => IInv'
  BY ReasonStep, OrderStep DEF IInv
<1>2. IInv => GaplessOrTold
  BY DEF IInv, OrderInv, ReasonInv, GaplessOrTold, LearnsWhy
<1> QED
  BY InitIInv, <1>1, <1>2, PTL DEF Spec
-----------------------------------------------------------------------------
\* The rest of the types, but for the bytes.
Places ==
  /\ sent \in 0..MaxFrames
  /\ conn \in {"open", "broken", "closed"}
  /\ Len(events) <= Backlog
  /\ closed \subseteq {"stop", "events", "done"}
  /\ err \in Reasons
  /\ closing \in {"nobody", "session", "pinger", "over"}
  /\ pinger \in {"waiting", "failed", "ended"}
  /\ session \in {"using", "closing", "told", "gone"}
  /\ taken \in Frame \cup {None}

\* BudgetExact, with sums that fall from the first frame to the last.
Tallied ==
  \E rest \in [1..(Len(events) + 1) -> Nat] :
    /\ Tallies(rest, events)
    /\ \A i, j \in 1..(Len(events) + 1) : i <= j => rest[j] <= rest[i]
    /\ queued = rest[1] + Weight(held) + Weight(taken)

BudgetInv == Places /\ queued <= MaxBytes /\ Tallied

FullInv == IInv /\ BudgetInv

LEMMA WeightType ==
  ASSUME NEW f \in Frame \cup {None}
  PROVE  Weight(f) \in Nat /\ (f # None => f \in Frame /\ Weight(f) = f.size)
BY BoundsAssumption DEF Weight, Frame

LEMMA TypedHeld ==
  ASSUME Typed
  PROVE  held \in Frame \cup {None} /\ Len(events) \in Nat /\ (reader # "offering" => held = None)
BY DEF Typed

LEMMA InitBudget == Init => BudgetInv
<1> SUFFICES ASSUME Init PROVE BudgetInv
  OBVIOUS
<1>1. Places /\ queued <= MaxBytes
  BY BoundsAssumption DEF Init, Places, Reasons
<1>2. Tallied
  <2> DEFINE rest == [i \in 1..(Len(events) + 1) |-> 0]
  <2>1. Len(events) = 0 /\ queued = 0 /\ held = None /\ taken = None
    BY DEF Init
  <2>2. rest \in [1..(Len(events) + 1) -> Nat]
    OBVIOUS
  <2>3. /\ Tallies(rest, events)
        /\ \A i, j \in 1..(Len(events) + 1) : i <= j => rest[j] <= rest[i]
        /\ queued = rest[1] + Weight(held) + Weight(taken)
    BY <2>1 DEF Tallies, Weight
  <2> HIDE DEF rest
  <2> QED
    BY <2>2, <2>3 DEF Tallied
<1> QED
  BY <1>1, <1>2 DEF BudgetInv

\* No step leaves the places of the goroutines and the limits of the queue.
LEMMA PlacesStep ==
  ASSUME Typed, Places, [Next]_vars
  PROVE  Places'
<1> USE DEF Places, Typed, Reasons, SetError, upstream, reading, using
<1>1. ASSUME NEW size \in Sizes, NEW text \in BOOLEAN, Send(size, text)
      PROVE  Places'
  BY <1>1, BoundsAssumption DEF Send
<1>2. CASE Break
  BY <1>2 DEF Break
<1>3. CASE ReadFrame
  BY <1>3 DEF ReadFrame, Quit
<1>4. CASE ReadFails
  BY <1>4 DEF ReadFails, Quit
<1>5. CASE Offer
  <2>1. held \in Frame /\ events \in Seq(Frame)
    BY <1>5 DEF Offer
  <2>2. Len(Append(events, held)) = Len(events) + 1 /\ Len(events) \in Nat
    BY <2>1, AppendProperties
  <2>3. /\ events' = Append(events, held) /\ Len(events) < Backlog
        /\ UNCHANGED <<sent, conn, closed, err, closing, pinger, session, taken>>
    BY <1>5 DEF Offer
  <2>4. Len(events') <= Backlog
    BY <2>2, <2>3, BoundsAssumption
  <2> QED
    BY <2>3, <2>4
<1>6. CASE StopOffering
  BY <1>6 DEF StopOffering
<1>7. CASE LeaveReading
  BY <1>7 DEF LeaveReading
<1>8. CASE Take
  <2>1. events \in Seq(Frame) /\ events # <<>>
    BY <1>8 DEF Take
  <2>2. Head(events) \in Frame /\ Len(Tail(events)) = Len(events) - 1 /\ Len(events) \in Nat
    BY <2>1, HeadTailProperties
  <2> QED
    BY <1>8, <2>2, BoundsAssumption DEF Take
<1>9. CASE PingFails \/ PingerCloses \/ PingerClosed \/ PingerEnds
  BY <1>9 DEF PingFails, PingerCloses, PingerClosed, PingerEnds, CloseBegins, CloseEnds
<1>10. CASE Release \/ FindClosed
  BY <1>10 DEF Release, FindClosed
<1>11. CASE SessionCloses \/ SessionClosed \/ SessionLeaves
  BY <1>11 DEF SessionCloses, SessionClosed, SessionLeaves, CloseBegins, CloseEnds
<1>12. CASE UNCHANGED vars
  BY <1>12 DEF vars
<1> QED
  BY <1>1, <1>2, <1>3, <1>4, <1>5, <1>6, <1>7, <1>8, <1>9, <1>10, <1>11, <1>12
     DEF Next

\* What the two hold between the queue's ends.
HandBytes == Weight(held) + Weight(taken)

LEMMA HandBytesSum ==
  ASSUME Weight(held) \in Nat, Weight(taken) \in Nat
  PROVE  /\ HandBytes \in Nat
         /\ \A r \in Nat : r + Weight(held) + Weight(taken) = r + HandBytes
BY DEF HandBytes

LEMMA HandBytesNextSum ==
  ASSUME Weight(held') \in Nat, Weight(taken') \in Nat
  PROVE  /\ HandBytes' \in Nat
         /\ \A r \in Nat : r + Weight(held') + Weight(taken') = r + HandBytes'
BY DEF HandBytes

\* What moves no frame in the queue and moves the count by what is in hand
\* keeps the account.
LEMMA TallyMoved ==
  ASSUME Tallied, events' = events, Len(events) \in Nat,
         Weight(held) \in Nat, Weight(taken) \in Nat,
         Weight(held') \in Nat, Weight(taken') \in Nat,
         queued \in Int, NEW more \in Int,
         queued' = queued + more, HandBytes' = HandBytes + more
  PROVE  Tallied'
<1>1. PICK rest \in [1..(Len(events) + 1) -> Nat] :
        /\ Tallies(rest, events)
        /\ \A i, j \in 1..(Len(events) + 1) : i <= j => rest[j] <= rest[i]
        /\ queued = rest[1] + Weight(held) + Weight(taken)
  BY DEF Tallied
<1>2. 1 \in 1..(Len(events) + 1)
  OBVIOUS
<1>3. rest[1] \in Nat
  BY <1>2
<1>4. queued = rest[1] + HandBytes /\ HandBytes \in Nat /\ HandBytes' \in Nat
  BY <1>1, <1>3, HandBytesSum, HandBytesNextSum
<1>5. queued' = rest[1] + HandBytes'
  BY <1>3, <1>4
<1>6. queued' = rest[1] + Weight(held') + Weight(taken')
  BY <1>3, <1>5, HandBytesNextSum
<1> QED
  BY <1>1, <1>6 DEF Tallied, Tallies

\* The queue loses its first frame to the session's hand.
LEMMA TakeTally ==
  ASSUME Typed, Tallied, Take
  PROVE  Tallied' /\ queued' = queued
<1>1. /\ taken = None /\ events \in Seq(Frame) /\ events # <<>>
      /\ taken' = Head(events) /\ events' = Tail(events)
      /\ held' = held /\ queued' = queued
  BY DEF Take, Typed, reading
<1>2. /\ Head(events) \in Frame /\ Head(events) = events[1]
      /\ Len(events') = Len(events) - 1 /\ Len(events) \in Nat \ {0}
      /\ \A i \in 1..Len(events') : events'[i] = events[i + 1]
  BY <1>1, HeadTailProperties, LenProperties, EmptySeq
<1>3. PICK rest \in [1..(Len(events) + 1) -> Nat] :
        /\ Tallies(rest, events)
        /\ \A i, j \in 1..(Len(events) + 1) : i <= j => rest[j] <= rest[i]
        /\ queued = rest[1] + Weight(held) + Weight(taken)
  BY DEF Tallied
<1> DEFINE next == [i \in 1..(Len(events') + 1) |-> rest[i + 1]]
<1>4. next \in [1..(Len(events') + 1) -> Nat]
  BY <1>2
<1>5. Tallies(next, events')
  BY <1>2, <1>3 DEF Tallies
<1>6. \A i, j \in 1..(Len(events') + 1) : i <= j => next[j] <= next[i]
  BY <1>2, <1>3
<1>7. Weight(taken) = 0 /\ Weight(taken') = events[1].size /\ Weight(held') = Weight(held)
  BY <1>1, <1>2, NoneAssumption DEF Weight
<1>8. queued' = next[1] + Weight(held') + Weight(taken')
  <2>1. next[1] = rest[2] /\ rest[1] = events[1].size + rest[2]
    BY <1>2, <1>3 DEF Tallies
  <2>2. events[1].size \in Nat /\ Weight(held) \in Nat /\ rest[2] \in Nat
    <3>1. 2 \in 1..(Len(events) + 1)
      BY <1>2
    <3>2. rest[2] \in Nat
      BY <3>1
    <3>3. events[1].size \in Nat
      BY <1>2, BoundsAssumption DEF Frame
    <3> QED
      BY <3>2, <3>3, WeightType, TypedHeld
  <2> QED
    BY <1>1, <1>3, <1>7, <2>1, <2>2
<1> HIDE DEF next
<1> QED
  BY <1>1, <1>4, <1>5, <1>6, <1>8 DEF Tallied

\* The queue gains the frame from the reader's hand at its end.
LEMMA OfferTally ==
  ASSUME Typed, Places, Tallied, Offer
  PROVE  Tallied' /\ queued' = queued
<1>1. /\ held \in Frame /\ held' = None /\ events \in Seq(Frame)
      /\ events' = Append(events, held)
      /\ taken' = taken /\ queued' = queued
  BY DEF Offer, Typed, using
<1>2. /\ Len(events') = Len(events) + 1 /\ Len(events) \in Nat
      /\ \A i \in 1..Len(events) : events'[i] = events[i]
      /\ events'[Len(events) + 1] = held
  BY <1>1, AppendProperties
<1>3. PICK rest \in [1..(Len(events) + 1) -> Nat] :
        /\ Tallies(rest, events)
        /\ \A i, j \in 1..(Len(events) + 1) : i <= j => rest[j] <= rest[i]
        /\ queued = rest[1] + Weight(held) + Weight(taken)
  BY DEF Tallied
<1>4. held.size \in Nat /\ Weight(held) = held.size /\ Weight(held') = 0
  BY <1>1, NoneAssumption, BoundsAssumption DEF Weight, Frame
<1>5. Weight(taken) \in Nat
  BY WeightType DEF Places
<1> DEFINE next == [i \in 1..(Len(events') + 1) |->
                      IF i = Len(events') + 1 THEN 0 ELSE rest[i] + held.size]
<1>6. next \in [1..(Len(events') + 1) -> Nat]
  BY <1>2, <1>4
<1>7. Tallies(next, events')
  <2>1. next[Len(events') + 1] = 0
    BY <1>2
  <2>2. ASSUME NEW i \in 1..Len(events')
        PROVE  next[i] = events'[i].size + next[i + 1]
    <3>1. CASE i \in 1..Len(events)
      <4>1. events'[i] = events[i] /\ rest[i] = events[i].size + rest[i + 1]
        BY <1>2, <1>3, <3>1 DEF Tallies
      <4>2. next[i] = rest[i] + held.size /\ next[i + 1] = rest[i + 1] + held.size
        BY <1>2, <3>1
      <4>3. events[i].size \in Nat /\ rest[i + 1] \in Nat
        <5>1. events[i] \in Frame
          BY <1>1, <1>2, <3>1, ElementOfSeq
        <5>2. i + 1 \in 1..(Len(events) + 1)
          BY <1>2, <3>1
        <5> QED
          BY <5>1, <5>2, BoundsAssumption DEF Frame
      <4> QED
        BY <1>4, <4>1, <4>2, <4>3
    <3>2. CASE i = Len(events) + 1
      <4>1. next[i] = rest[i] + held.size /\ next[i + 1] = 0 /\ rest[i] = 0
        BY <1>2, <1>3, <3>2 DEF Tallies
      <4> QED
        BY <1>2, <1>4, <3>2, <4>1
    <3> QED
      BY <1>2, <3>1, <3>2
  <2> HIDE DEF next
  <2> QED
    BY <2>1, <2>2 DEF Tallies
<1>8. ASSUME NEW i \in 1..(Len(events') + 1), NEW j \in 1..(Len(events') + 1), i <= j
      PROVE  next[j] <= next[i]
  <2>1. CASE j = Len(events') + 1
    BY <1>6, <2>1
  <2>2. CASE j # Len(events') + 1
    <3>1. i \in 1..(Len(events) + 1) /\ j \in 1..(Len(events) + 1)
      BY <1>2, <1>8, <2>2
    <3>2. rest[j] <= rest[i] /\ rest[i] \in Nat /\ rest[j] \in Nat
      BY <1>3, <1>8, <3>1
    <3>3. next[i] = rest[i] + held.size /\ next[j] = rest[j] + held.size
      BY <1>2, <3>1
    <3> QED
      BY <1>4, <3>2, <3>3
  <2> QED
    BY <2>1, <2>2
<1>9. queued' = next[1] + Weight(held') + Weight(taken')
  <2>1. next[1] = rest[1] + held.size /\ rest[1] \in Nat
    BY <1>2
  <2> QED
    BY <1>1, <1>3, <1>4, <1>5, <2>1
<1> HIDE DEF next
<1> QED
  BY <1>1, <1>6, <1>7, <1>8, <1>9 DEF Tallied

\* Reading reserves; a frame taken back by stop, or handled, is released.
LEMMA BudgetStep ==
  FullInv /\ [Next]_vars => BudgetInv'
<1> USE DEF upstream, reading, using
<1> SUFFICES ASSUME Typed, Places, queued <= MaxBytes, Tallied, [Next]_vars
             PROVE  BudgetInv'
  BY DEF FullInv, IInv, OrderInv, BudgetInv
<1>0. /\ held \in Frame \cup {None} /\ taken \in Frame \cup {None}
      /\ Len(events) \in Nat /\ MaxBytes \in Nat
      /\ Weight(held) \in Nat /\ Weight(taken) \in Nat /\ Weight(None) = 0
      /\ queued \in Nat
      /\ queued - Weight(held) \in Nat /\ queued - Weight(taken) \in Nat
  <2>1. /\ held \in Frame \cup {None} /\ taken \in Frame \cup {None}
        /\ Len(events) \in Nat /\ MaxBytes \in Nat
        /\ Weight(held) \in Nat /\ Weight(taken) \in Nat /\ Weight(None) = 0
    BY TypedHeld, WeightType, BoundsAssumption DEF Places, Weight
  <2>2. PICK rest \in [1..(Len(events) + 1) -> Nat] :
          queued = rest[1] + Weight(held) + Weight(taken)
    BY DEF Tallied
  <2>3. rest[1] \in Nat
    BY <2>1
  <2> QED
    BY <2>1, <2>2, <2>3
<1>1. Places'
  BY PlacesStep
<1>2. SUFFICES queued' <= MaxBytes /\ Tallied'
  BY <1>1 DEF BudgetInv
<1>3. CASE UNCHANGED <<events, queued, held, taken>>
  BY <1>3 DEF Tallied, Tallies
<1>4. CASE ReadFrame /\ held' # held
  <2>1. /\ held = None /\ held' \in Frame /\ taken' = taken /\ events' = events
        /\ queued' = queued + held'.size /\ queued + held'.size <= MaxBytes
    <3>1. wire \in Seq(Frame) /\ wire # <<>>
      BY <1>4 DEF ReadFrame, Typed
    <3>2. Head(wire) \in Frame
      BY <3>1, HeadTailProperties
    <3> QED
      BY <1>4, <3>2, TypedHeld DEF ReadFrame, Quit, Admitted
  <2>2. Weight(held') = held'.size /\ Weight(held') \in Nat
    BY <2>1, NoneAssumption, WeightType DEF Weight
  <2>3. /\ Weight(held') \in Nat /\ Weight(taken') \in Nat /\ queued' \in Int
        /\ held'.size \in Nat /\ queued' = queued + held'.size /\ HandBytes' = HandBytes + held'.size
    BY <1>0, <2>1, <2>2 DEF HandBytes
  <2>4. Tallied'
    BY <1>0, <2>1, <2>3, TallyMoved
  <2> QED
    BY <2>1, <2>4
<1>5. CASE Offer
  BY <1>5, OfferTally
<1>6. CASE StopOffering
  <2>1. /\ held \in Frame /\ held' = None /\ taken' = taken /\ events' = events
        /\ queued' = queued - held.size
    BY <1>6 DEF StopOffering, Typed
  <2>2. Weight(held) = held.size
    BY <2>1, WeightType, NoneAssumption
  <2>3. /\ Weight(held') \in Nat /\ Weight(taken') \in Nat /\ queued' \in Int
        /\ held.size \in Nat /\ queued' = queued + (-held.size) /\ HandBytes' = HandBytes + (-held.size)
    BY <1>0, <2>1, <2>2 DEF HandBytes
  <2>4. Tallied'
    BY <1>0, <2>1, <2>3, TallyMoved
  <2> QED
    BY <1>0, <2>1, <2>2, <2>4
<1>7. CASE Take
  BY <1>7, TakeTally
<1>8. CASE Release
  <2>1. /\ taken \in Frame /\ held' = held /\ taken' = None /\ events' = events
        /\ queued' = queued - taken.size
    BY <1>8 DEF Release, Places
  <2>2. Weight(taken) = taken.size
    BY <2>1, WeightType, NoneAssumption
  <2>3. /\ Weight(held') \in Nat /\ Weight(taken') \in Nat /\ queued' \in Int
        /\ taken.size \in Nat /\ queued' = queued + (-taken.size) /\ HandBytes' = HandBytes + (-taken.size)
    BY <1>0, <2>1, <2>2 DEF HandBytes
  <2>4. Tallied'
    BY <1>0, <2>1, <2>3, TallyMoved
  <2> QED
    BY <1>0, <2>1, <2>2, <2>4
<1>9. \/ UNCHANGED <<events, queued, held, taken>>
      \/ ReadFrame /\ held' # held
      \/ Offer \/ StopOffering \/ Take \/ Release
  <2>1. ASSUME NEW size \in Sizes, NEW text \in BOOLEAN, Send(size, text)
        PROVE  UNCHANGED <<events, queued, held, taken>>
    BY <2>1 DEF Send
  <2>2. CASE Break \/ ReadFails \/ LeaveReading \/ FindClosed \/ UNCHANGED vars
    BY <2>2 DEF Break, ReadFails, Quit, LeaveReading, FindClosed, vars
  <2>3. CASE PingFails \/ PingerCloses \/ PingerClosed \/ PingerEnds
    BY <2>3 DEF PingFails, PingerCloses, PingerClosed, PingerEnds
  <2>4. CASE SessionCloses \/ SessionClosed \/ SessionLeaves
    BY <2>4 DEF SessionCloses, SessionClosed, SessionLeaves
  <2>5. CASE ReadFrame
    <3>1. events' = events /\ taken' = taken
      BY <2>5 DEF ReadFrame
    <3>2. held' # held \/ (held' = held /\ queued' = queued)
      <4>1. held = None
        BY <2>5 DEF ReadFrame, Typed
      <4>2. Head(wire) # None
        <5>1. Head(wire) \in Frame
          BY <2>5, HeadTailProperties DEF ReadFrame, Typed
        <5> QED
          BY <5>1, NoneAssumption
      <4> QED
        BY <2>5, <4>1, <4>2 DEF ReadFrame, Quit
    <3> QED
      BY <2>5, <3>1, <3>2
  <2> QED
    BY <2>1, <2>2, <2>3, <2>4, <2>5 DEF Next
<1> QED
  BY <1>3, <1>4, <1>5, <1>6, <1>7, <1>8, <1>9

LEMMA Invariance == Spec => []FullInv
<1>1. FullInv /\ [Next]_vars => FullInv'
  BY ReasonStep, OrderStep, BudgetStep DEF FullInv, IInv
<1> QED
  BY InitIInv, InitBudget, <1>1, PTL DEF Spec, FullInv

\* What a sum from any frame on is, is not above the budget.
LEMMA TallyBounded == FullInv => BudgetExact /\ queued \in 0..MaxBytes
<1> SUFFICES ASSUME FullInv PROVE BudgetExact /\ queued \in 0..MaxBytes
  OBVIOUS
<1>1. PICK rest \in [1..(Len(events) + 1) -> Nat] :
        /\ Tallies(rest, events)
        /\ \A i, j \in 1..(Len(events) + 1) : i <= j => rest[j] <= rest[i]
        /\ queued = rest[1] + Weight(held) + Weight(taken)
  BY DEF FullInv, BudgetInv, Tallied
<1>2. /\ Len(events) \in Nat /\ MaxBytes \in Nat /\ queued <= MaxBytes
      /\ Weight(held) \in Nat /\ Weight(taken) \in Nat
  BY TypedHeld, WeightType, BoundsAssumption
     DEF FullInv, IInv, OrderInv, BudgetInv, Places
<1>3. 1 \in 1..(Len(events) + 1) /\ rest[1] \in Nat
  BY <1>2
<1>4. queued \in 0..MaxBytes /\ rest[1] <= MaxBytes
  BY <1>1, <1>2, <1>3
<1>5. rest \in [1..(Len(events) + 1) -> 0..MaxBytes]
  <2>1. ASSUME NEW i \in 1..(Len(events) + 1) PROVE rest[i] \in 0..MaxBytes
    <3>1. rest[i] \in Nat /\ rest[i] <= rest[1]
      BY <1>1, <1>2, <1>3
    <3> QED
      BY <1>2, <1>3, <1>4, <3>1
  <2> QED
    BY <2>1
<1> QED
  BY <1>1, <1>4, <1>5 DEF BudgetExact

\* The bytes counted are those of the frames between the reader's hand and the
\* session's: none is reserved twice, and none is kept when the reader gives a
\* frame up (websocket.go:509-517, 522-542).
THEOREM BudgetKept == Spec => []BudgetExact
BY Invariance, TallyBounded, PTL

\* The type invariant, with the limits of the queue in frames and bytes
\* (websocket.go:467-486).
THEOREM TypeCorrect == Spec => []TypeOK
<1>1. FullInv => TypeOK
  BY TallyBounded DEF FullInv, IInv, OrderInv, BudgetInv, Typed, Places, TypeOK
<1> QED
  BY Invariance, <1>1, PTL
=============================================================================
