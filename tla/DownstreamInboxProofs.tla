------------------------- MODULE DownstreamInboxProofs -------------------------
(***************************************************************************)
(* Proofs about DownstreamInbox, for any backlog, budget, sizes and number *)
(* of messages.  That they are handled in order follows from where each    *)
(* number is, from what was taken over the queue and the reader's hand to  *)
(* the wire; that the budget is exact, from sums over the queue that shift *)
(* when a message is taken and grow when one is offered.                   *)
(***************************************************************************)
EXTENDS DownstreamInbox, SequenceTheorems, TLAPS

\* The types, but for the bytes.
Places ==
  /\ sent \in 0..MaxMessages
  /\ wire \in Seq(Message)
  /\ conn \in {"open", "broken", "closed"}
  /\ reader \in {"reading", "offering", "refusing", "leaving", "done"}
  /\ IF reader = "offering" THEN held \in Message ELSE held = None
  /\ messages \in Seq(Message) /\ Len(messages) <= Backlog
  /\ cancelled \in BOOLEAN
  /\ canceler \in {"waiting", "ended"}
  /\ pinger \in {"waiting", "ended"}
  /\ session \in InTurn \cup {"selecting", "took", "failing", "leaving", "closing", "gone"}
  /\ IF session = "took" THEN taken \in Message ELSE taken = None
  /\ got \in Seq(1..MaxMessages)
  /\ late \in BOOLEAN

InHand == IF reader = "offering" THEN 1 ELSE 0

\* How many messages have been read, as long as none was refused.
Arrived == Len(got) + Len(messages) + InHand

\* The numbers follow one another from what was taken to what is on the wire.
QueueInv ==
  /\ \A i \in 1..Len(messages) : messages[i].n = Len(got) + i
  /\ reader = "offering" => held.n = Len(got) + Len(messages) + 1

WireInv ==
  reader \in {"reading", "offering"} =>
    /\ \A i \in 1..Len(wire) : wire[i].n = Arrived + i
    /\ conn = "open" => sent = Arrived + Len(wire)

OrderInv == InOrder /\ QueueInv /\ WireInv

\* A cancelled session stays so, and a message taken then is not prepared.
LateInv == late => cancelled /\ session \notin {"submitting", "forwarding", "streaming"}

\* BudgetExact, with sums that fall from the first message to the last.
Tallied ==
  \E rest \in [1..(Len(messages) + 1) -> Nat] :
    /\ Tallies(rest, messages)
    /\ \A i, j \in 1..(Len(messages) + 1) : i <= j => rest[j] <= rest[i]
    /\ queued = rest[1] + Weight(held) + Weight(taken)

BudgetInv == queued <= MaxBytes /\ Tallied

IInv == Places /\ OrderInv /\ LateInv /\ BudgetInv

\* What most steps leave alone: the messages, and a reader that reads.
Aside ==
  /\ UNCHANGED <<sent, wire, held, messages, queued, taken, got>>
  /\ reader' = reader \/ (reader' \in {"leaving", "done"} /\ reader # "offering")
  /\ conn' = "open" => conn = "open"

-----------------------------------------------------------------------------
LEMMA WeightType ==
  ASSUME NEW m \in Message \cup {None}
  PROVE  /\ Weight(m) \in Nat /\ Weight(None) = 0
         /\ m # None => m \in Message /\ Weight(m) = m.size /\ m.n \in 1..MaxMessages
BY BoundsAssumption DEF Weight, Message

LEMMA InHands ==
  ASSUME Places
  PROVE  /\ held \in Message \cup {None} /\ taken \in Message \cup {None}
         /\ Len(messages) \in Nat /\ Len(wire) \in Nat /\ Len(got) \in Nat
         /\ Arrived \in Nat /\ MaxBytes \in Nat
BY BoundsAssumption DEF Places, Arrived, InHand

LEMMA InitIInv == Init => IInv
<1> SUFFICES ASSUME Init PROVE IInv
  OBVIOUS
<1>1. Places /\ LateInv /\ queued <= MaxBytes
  <2>1. sent \in 0..MaxMessages /\ Len(messages) <= Backlog /\ queued <= MaxBytes
    BY BoundsAssumption DEF Init
  <2>2. wire \in Seq(Message) /\ messages \in Seq(Message) /\ got \in Seq(1..MaxMessages)
    BY EmptySeq DEF Init
  <2>3. cancelled \in BOOLEAN /\ late \in BOOLEAN /\ LateInv
    BY DEF Init, LateInv
  <2> QED
    BY <2>1, <2>2, <2>3 DEF Init, Places
<1>3. OrderInv
  BY DEF Init, OrderInv, InOrder, QueueInv, WireInv, Arrived, InHand
<1>2. Tallied
  <2> DEFINE rest == [i \in 1..(Len(messages) + 1) |-> 0]
  <2>1. Len(messages) = 0 /\ queued = 0 /\ held = None /\ taken = None
    BY DEF Init
  <2>2. rest \in [1..(Len(messages) + 1) -> Nat]
    OBVIOUS
  <2>3. /\ Tallies(rest, messages)
        /\ \A i, j \in 1..(Len(messages) + 1) : i <= j => rest[j] <= rest[i]
        /\ queued = rest[1] + Weight(held) + Weight(taken)
    BY <2>1 DEF Tallies, Weight
  <2> HIDE DEF rest
  <2> QED
    BY <2>2, <2>3 DEF Tallied
<1> QED
  BY <1>1, <1>2, <1>3 DEF IInv, BudgetInv

\* Everything that moves no message is aside.
LEMMA Steps ==
  ASSUME Places, [Next]_vars
  PROVE  \/ \E size \in Sizes : Send(size)
         \/ Vanish \/ ReadMessage \/ Offer \/ Take \/ Release \/ Aside
<1> USE DEF client, reading, turning, Aside
<1>1. CASE ShutDown \/ ReadFails \/ StopReading \/ Cancel \/ Ping
  BY <1>1 DEF ShutDown, ReadFails, StopReading, Cancel, Ping
<1>2. CASE Prepare \/ PrepareFails \/ Submit \/ SubmitFails \/ EndTurn \/ CutOff \/ SeeEnd
  BY <1>2 DEF Prepare, PrepareFails, Submit, SubmitFails, EndTurn, CutOff, SeeEnd, Goes
<1>3. CASE CloseFatal \/ Leave \/ UNCHANGED vars
  BY <1>3 DEF CloseFatal, Leave, vars
<1> QED
  BY <1>1, <1>2, <1>3 DEF Next

\* No step leaves the places of the goroutines and the limit of the queue.
LEMMA PlacesStep ==
  ASSUME Places, [Next]_vars
  PROVE  Places'
<1> USE DEF Places, InTurn, client, reading, turning
<1>1. ASSUME NEW size \in Sizes, Send(size)
      PROVE  Places'
  <2>1. [n |-> sent + 1, size |-> size] \in Message
    BY <1>1, BoundsAssumption DEF Send, Message
  <2> QED
    BY <1>1, <2>1, BoundsAssumption DEF Send
<1>2. CASE Vanish
  <2>1. wire' \in Seq(Message)
    BY <1>2, EmptySeq DEF Vanish
  <2> QED
    BY <1>2, <2>1 DEF Vanish
<1>3. CASE ReadMessage
  <2>1. Head(wire) \in Message /\ Tail(wire) \in Seq(Message)
    BY <1>3, HeadTailProperties DEF ReadMessage
  <2> QED
    BY <1>3, <2>1 DEF ReadMessage
<1>4. CASE Offer
  <2>1. held \in Message /\ messages \in Seq(Message)
    BY <1>4 DEF Offer
  <2>2. /\ Append(messages, held) \in Seq(Message)
        /\ Len(Append(messages, held)) = Len(messages) + 1 /\ Len(messages) \in Nat
    BY <2>1, AppendProperties
  <2>3. /\ UNCHANGED <<sent, wire, conn, cancelled, canceler, pinger, session, taken, got, late>>
        /\ held' = None /\ reader' \in {"reading", "refusing"}
    BY <1>4 DEF Offer
  <2>4. messages' \in Seq(Message) /\ Len(messages') <= Backlog
    <3>1. \/ messages' = Append(messages, held) /\ Len(messages) < Backlog
          \/ messages' = messages
      BY <1>4 DEF Offer
    <3>2. messages \in Seq(Message) /\ Len(messages) <= Backlog
      OBVIOUS
    <3>3. Len(messages) < Backlog => Len(messages) + 1 <= Backlog
      BY <2>2, BoundsAssumption
    <3> HIDE DEF Places
    <3> QED
      BY <2>2, <3>1, <3>2, <3>3
  <2> QED
    BY <2>3, <2>4
<1>5. CASE Take
  <2>1. messages \in Seq(Message) /\ messages # <<>>
    BY <1>5 DEF Take
  <2>2. /\ Head(messages) \in Message /\ Tail(messages) \in Seq(Message)
        /\ Len(Tail(messages)) = Len(messages) - 1 /\ Len(messages) \in Nat
    BY <2>1, HeadTailProperties
  <2>3. Append(got, Head(messages).n) \in Seq(1..MaxMessages)
    BY <2>2, AppendProperties DEF Message
  <2> QED
    BY <1>5, <2>2, <2>3, BoundsAssumption DEF Take
<1>6. CASE ShutDown \/ ReadFails \/ StopReading \/ Cancel \/ Ping
  <2>1. /\ UNCHANGED <<sent, wire, held, messages, session, taken, got, late>>
        /\ conn' \in {conn, "closed"} /\ cancelled' \in {cancelled, TRUE}
        /\ reader' = reader \/ (reader # "offering" /\ reader' \in {"leaving", "done"})
        /\ canceler' \in {canceler, "ended"} /\ pinger' \in {pinger, "ended"}
    BY <1>6 DEF ShutDown, ReadFails, StopReading, Cancel, Ping
  <2>2. /\ sent' \in 0..MaxMessages /\ wire' \in Seq(Message)
        /\ messages' \in Seq(Message) /\ Len(messages') <= Backlog
        /\ got' \in Seq(1..MaxMessages) /\ late' \in BOOLEAN
    BY <2>1
  <2>3. IF reader' = "offering" THEN held' \in Message ELSE held' = None
    BY <2>1
  <2>4. IF session' = "took" THEN taken' \in Message ELSE taken' = None
    BY <2>1
  <2>5. /\ conn' \in {"open", "broken", "closed"}
        /\ canceler' \in {"waiting", "ended"} /\ pinger' \in {"waiting", "ended"}
        /\ cancelled' \in BOOLEAN
    BY <2>1
  <2>6. reader' \in {"reading", "offering", "refusing", "leaving", "done"}
    BY <2>1
  <2>7. session' \in InTurn \cup {"selecting", "took", "failing", "leaving", "closing",
                                 "gone"}
    BY <2>1
  <2> QED
    BY <2>2, <2>3, <2>4, <2>5, <2>6, <2>7
<1>7. CASE Release \/ CloseFatal \/ Leave \/ UNCHANGED vars
  <2>1. /\ UNCHANGED <<sent, wire, reader, held, messages, canceler, pinger, got, late>>
        /\ conn' \in {conn, "closed"} /\ cancelled' \in {cancelled, TRUE}
        /\ \/ UNCHANGED <<session, taken>>
           \/ session' = "preparing" /\ taken' = None
           \/ /\ session # "took" /\ taken' = taken
              /\ session' \in {"leaving", "closing", "gone"}
    BY <1>7 DEF Release, CloseFatal, Leave, vars
  <2>2. /\ sent' \in 0..MaxMessages /\ wire' \in Seq(Message)
        /\ messages' \in Seq(Message) /\ Len(messages') <= Backlog
        /\ got' \in Seq(1..MaxMessages) /\ late' \in BOOLEAN
    BY <2>1
  <2>3. IF reader' = "offering" THEN held' \in Message ELSE held' = None
    BY <2>1
  <2>4. IF session' = "took" THEN taken' \in Message ELSE taken' = None
    BY <2>1
  <2>5. /\ conn' \in {"open", "broken", "closed"}
        /\ canceler' \in {"waiting", "ended"} /\ pinger' \in {"waiting", "ended"}
        /\ cancelled' \in BOOLEAN
    BY <2>1
  <2>6. reader' \in {"reading", "offering", "refusing", "leaving", "done"}
    BY <2>1
  <2>7. session' \in InTurn \cup {"selecting", "took", "failing", "leaving", "closing",
                                 "gone"}
    BY <2>1
  <2> QED
    BY <2>2, <2>3, <2>4, <2>5, <2>6, <2>7
<1>8. CASE Prepare \/ PrepareFails \/ Submit \/ SubmitFails \/ EndTurn \/ CutOff \/ SeeEnd
  <2>1. /\ UNCHANGED <<sent, wire, conn, reader, held, messages, cancelled, canceler,
                       pinger, taken, got, late>>
        /\ session # "took"
        /\ session' \in InTurn \cup {"selecting", "failing", "leaving"}
    BY <1>8 DEF Prepare, PrepareFails, Submit, SubmitFails, EndTurn, CutOff, SeeEnd, Goes
  <2> QED
    BY <2>1
<1> QED
  BY <1>1, <1>2, <1>3, <1>4, <1>5, <1>6, <1>7, <1>8 DEF Next

\* A message is prepared before the cancellation or not at all.
LEMMA LateStep ==
  ASSUME Places, LateInv, [Next]_vars
  PROVE  LateInv'
<1> USE DEF LateInv, client, reading, turning
<1>1. ASSUME NEW size \in Sizes, Send(size)
      PROVE  LateInv'
  BY <1>1 DEF Send
<1>2. CASE Vanish \/ ShutDown \/ ReadMessage \/ ReadFails \/ Offer \/ StopReading
  BY <1>2 DEF Vanish, ShutDown, ReadMessage, ReadFails, Offer, StopReading
<1>3. CASE Cancel \/ Ping \/ Take \/ Release \/ CloseFatal \/ Leave \/ UNCHANGED vars
  BY <1>3 DEF Cancel, Ping, Take, Release, CloseFatal, Leave, vars
<1>4. CASE Prepare \/ PrepareFails \/ Submit \/ SubmitFails \/ EndTurn \/ CutOff \/ SeeEnd
  BY <1>4 DEF Prepare, PrepareFails, Submit, SubmitFails, EndTurn, CutOff, SeeEnd, Goes
<1> QED
  BY <1>1, <1>2, <1>3, <1>4 DEF Next

-----------------------------------------------------------------------------
\* The order of the messages.

LEMMA AsideOrder ==
  ASSUME OrderInv, Aside
  PROVE  OrderInv'
BY DEF Aside, OrderInv, InOrder, QueueInv, WireInv, Arrived, InHand

LEMMA SendOrder ==
  ASSUME Places, OrderInv, NEW size \in Sizes, Send(size)
  PROVE  OrderInv'
<1> DEFINE message == [n |-> sent + 1, size |-> size]
<1>1. message \in Message /\ message.n = sent + 1
  BY BoundsAssumption DEF Places, Send, Message
<1>2. wire' = Append(wire, message) /\ wire \in Seq(Message)
  BY DEF Places, Send
<1> HIDE DEF message
<1>3. /\ Len(wire') = Len(wire) + 1
      /\ \A i \in 1..Len(wire) : wire'[i] = wire[i]
      /\ wire'[Len(wire) + 1] = message
  BY <1>1, <1>2, AppendProperties
<1>4. /\ UNCHANGED <<reader, held, messages, got, conn>>
      /\ sent' = sent + 1 /\ conn = "open"
  BY DEF Send, reading, turning
<1>5. InOrder' /\ QueueInv'
  BY <1>4 DEF OrderInv, InOrder, QueueInv
<1>6. Len(wire) \in Nat /\ Arrived \in Nat
  BY InHands
<1>7. Arrived' = Arrived
  BY <1>4 DEF Arrived, InHand
<1>8. WireInv'
  <2> SUFFICES ASSUME reader \in {"reading", "offering"}
               PROVE  /\ \A i \in 1..Len(wire') : wire'[i].n = Arrived + i
                      /\ sent' = Arrived + Len(wire')
    BY <1>4, <1>7 DEF WireInv
  <2>1. /\ \A i \in 1..Len(wire) : wire[i].n = Arrived + i
        /\ sent = Arrived + Len(wire)
    BY <1>4 DEF OrderInv, WireInv
  <2> QED
    BY <1>1, <1>3, <1>4, <1>6, <2>1
<1> QED
  BY <1>5, <1>8 DEF OrderInv

LEMMA VanishOrder ==
  ASSUME OrderInv, Vanish
  PROVE  OrderInv'
<1>1. /\ UNCHANGED <<reader, held, messages, got>> /\ conn' # "open"
      /\ wire' = wire \/ wire' = <<>>
  BY DEF Vanish, reading, turning
<1>2. Arrived' = Arrived
  BY <1>1 DEF Arrived, InHand
<1> QED
  BY <1>1, <1>2, EmptySeq DEF OrderInv, InOrder, QueueInv, WireInv

LEMMA ReadOrder ==
  ASSUME Places, OrderInv, ReadMessage
  PROVE  OrderInv'
<1> DEFINE message == Head(wire)
<1>1. /\ wire \in Seq(Message) /\ wire # <<>>
      /\ wire' = Tail(wire) /\ reader = "reading" /\ sent \in Nat
      /\ UNCHANGED <<sent, conn, messages, got>>
  BY DEF ReadMessage, Places, turning
<1>2. /\ message = wire[1]
      /\ Len(wire') = Len(wire) - 1 /\ Len(wire) \in Nat \ {0}
      /\ \A i \in 1..Len(wire') : wire'[i] = wire[i + 1]
  BY <1>1, HeadTailProperties, LenProperties, EmptySeq
<1>3. /\ Arrived = Len(got) + Len(messages) /\ Arrived \in Nat
      /\ Len(got) \in Nat /\ Len(messages) \in Nat
  BY <1>1, InHands DEF Arrived, InHand
<1>4. /\ \A i \in 1..Len(wire) : wire[i].n = Arrived + i
      /\ conn = "open" => sent = Arrived + Len(wire)
  BY <1>1 DEF OrderInv, WireInv
<1>5. InOrder'
  BY <1>1 DEF OrderInv, InOrder
<1>6. CASE reader' = "refusing"
  BY <1>1, <1>5, <1>6 DEF OrderInv, QueueInv, WireInv
<1>7. CASE reader' = "offering" /\ held' = message
  <2>1. Arrived' = Arrived + 1
    BY <1>1, <1>3, <1>7 DEF Arrived, InHand
  <2>2. message.n = Arrived + 1
    BY <1>2, <1>4
  <2>3. QueueInv'
    BY <1>1, <1>3, <1>7, <2>2 DEF OrderInv, QueueInv
  <2>4. \A i \in 1..Len(wire') : wire'[i].n = Arrived + 1 + i
    <3> SUFFICES ASSUME NEW i \in 1..Len(wire') PROVE wire'[i].n = Arrived + 1 + i
      OBVIOUS
    <3>1. i + 1 \in 1..Len(wire) /\ wire'[i] = wire[i + 1]
      BY <1>2
    <3>2. wire[i + 1].n = Arrived + (i + 1)
      BY <1>4, <3>1
    <3> QED
      BY <1>3, <3>1, <3>2
  <2>5. conn' = "open" => sent' = Arrived + 1 + Len(wire')
    BY <1>1, <1>2, <1>3, <1>4
  <2>6. WireInv'
    BY <2>1, <2>4, <2>5 DEF WireInv
  <2> QED
    BY <1>5, <2>3, <2>6 DEF OrderInv
<1> QED
  BY <1>6, <1>7 DEF ReadMessage

\* A message is offered next in turn, or the reader stops for good.
LEMMA OfferOrder ==
  ASSUME Places, OrderInv, Offer
  PROVE  OrderInv'
<1>1. /\ reader = "offering" /\ held \in Message /\ messages \in Seq(Message)
      /\ UNCHANGED <<sent, wire, conn, got>>
  BY DEF Offer, Places, client, turning
<1>2. CASE messages' = messages /\ reader' = "refusing"
  BY <1>1, <1>2 DEF OrderInv, InOrder, QueueInv, WireInv
<1>3. CASE messages' = Append(messages, held) /\ reader' = "reading"
  <2>1. /\ Len(messages') = Len(messages) + 1
        /\ \A i \in 1..Len(messages) : messages'[i] = messages[i]
        /\ messages'[Len(messages) + 1] = held
    BY <1>1, <1>3, AppendProperties
  <2>2. Len(messages) \in Nat /\ Len(got) \in Nat
    BY InHands
  <2>3. QueueInv'
    BY <1>1, <1>3, <2>1, <2>2 DEF OrderInv, QueueInv
  <2>4. Arrived' = Arrived
    BY <1>1, <1>3, <2>1, <2>2 DEF Arrived, InHand
  <2>5. WireInv'
    BY <1>1, <1>3, <2>4 DEF OrderInv, WireInv
  <2> QED
    BY <1>1, <2>3, <2>5 DEF OrderInv, InOrder
<1> QED
  BY <1>2, <1>3 DEF Offer

LEMMA TakeOrder ==
  ASSUME Places, OrderInv, Take
  PROVE  OrderInv'
<1>1. /\ messages \in Seq(Message) /\ messages # <<>> /\ messages' = Tail(messages)
      /\ got \in Seq(1..MaxMessages) /\ got' = Append(got, Head(messages).n)
      /\ UNCHANGED <<sent, wire, conn, reader, held>>
  BY DEF Take, Places, client, reading
<1>2. /\ Head(messages) \in Message /\ Head(messages) = messages[1]
      /\ Len(messages') = Len(messages) - 1 /\ Len(messages) \in Nat \ {0}
      /\ \A i \in 1..Len(messages') : messages'[i] = messages[i + 1]
  BY <1>1, HeadTailProperties, LenProperties, EmptySeq
<1>3. /\ got' \in Seq(1..MaxMessages) /\ Len(got') = Len(got) + 1 /\ Len(got) \in Nat
      /\ \A i \in 1..Len(got) : got'[i] = got[i]
      /\ got'[Len(got) + 1] = Head(messages).n
  BY <1>1, <1>2, AppendProperties, LenProperties, WeightType, NoneAssumption
<1>4. Head(messages).n = Len(got) + 1
  BY <1>2, <1>3 DEF OrderInv, QueueInv
<1>5. InOrder'
  <2>1. DOMAIN got = 1..Len(got) /\ DOMAIN got' = 1..Len(got')
    BY <1>1, <1>3, LenProperties
  <2> QED
    BY <1>3, <1>4, <2>1 DEF OrderInv, InOrder
<1>6. QueueInv'
  BY <1>1, <1>2, <1>3 DEF OrderInv, QueueInv
<1>7. Arrived' = Arrived
  BY <1>1, <1>2, <1>3 DEF Arrived, InHand
<1>8. WireInv'
  BY <1>1, <1>7 DEF OrderInv, WireInv
<1> QED
  BY <1>5, <1>6, <1>8 DEF OrderInv

\* Messages move from the wire to the session one place at a time.
LEMMA OrderStep ==
  ASSUME Places, OrderInv, [Next]_vars
  PROVE  OrderInv'
<1>1. CASE Release
  BY <1>1 DEF Release, client, reading, OrderInv, InOrder, QueueInv, WireInv, Arrived, InHand
<1> QED
  BY <1>1, Steps, AsideOrder, SendOrder, VanishOrder, ReadOrder, OfferOrder, TakeOrder

-----------------------------------------------------------------------------
\* The bytes.

\* What the two hold between the queue's ends.
HandBytes == Weight(held) + Weight(taken)

LEMMA HandBytesSum ==
  ASSUME Weight(held) \in Nat, Weight(taken) \in Nat
  PROVE  /\ HandBytes \in Nat
         /\ \A r \in Nat : r + Weight(held) + Weight(taken) = r + HandBytes
BY DEF HandBytes

LEMMA HandBytesNextSum ==
  ASSUME Weight(held') \in Nat, Weight(taken') \in Nat
  PROVE  /\ HandBytes' \in Nat
         /\ \A r \in Nat : r + Weight(held') + Weight(taken') = r + HandBytes'
BY DEF HandBytes

\* What moves no message in the queue and moves the count by what is in hand
\* keeps the account.
LEMMA TallyMoved ==
  ASSUME Tallied, messages' = messages, Len(messages) \in Nat,
         Weight(held) \in Nat, Weight(taken) \in Nat,
         Weight(held') \in Nat, Weight(taken') \in Nat,
         queued \in Int, NEW more \in Int,
         queued' = queued + more, HandBytes' = HandBytes + more
  PROVE  Tallied'
<1>1. PICK rest \in [1..(Len(messages) + 1) -> Nat] :
        /\ Tallies(rest, messages)
        /\ \A i, j \in 1..(Len(messages) + 1) : i <= j => rest[j] <= rest[i]
        /\ queued = rest[1] + Weight(held) + Weight(taken)
  BY DEF Tallied
<1>2. 1 \in 1..(Len(messages) + 1)
  OBVIOUS
<1>3. rest[1] \in Nat
  BY <1>2
<1>4. queued = rest[1] + HandBytes /\ HandBytes \in Nat /\ HandBytes' \in Nat
  BY <1>1, <1>3, HandBytesSum, HandBytesNextSum
<1>5. queued' = rest[1] + HandBytes'
  BY <1>3, <1>4
<1>6. queued' = rest[1] + Weight(held') + Weight(taken')
  BY <1>3, <1>5, HandBytesNextSum
<1> QED
  BY <1>1, <1>6 DEF Tallied, Tallies

\* The queue loses its first message to the session's hand.
LEMMA TakeTally ==
  ASSUME Places, Tallied, Take
  PROVE  Tallied' /\ queued' = queued
<1>1. /\ taken = None /\ messages \in Seq(Message) /\ messages # <<>>
      /\ taken' = Head(messages) /\ messages' = Tail(messages)
      /\ held' = held /\ queued' = queued
  BY DEF Take, Places, reading
<1>2. /\ Head(messages) \in Message /\ Head(messages) = messages[1]
      /\ Len(messages') = Len(messages) - 1 /\ Len(messages) \in Nat \ {0}
      /\ \A i \in 1..Len(messages') : messages'[i] = messages[i + 1]
  BY <1>1, HeadTailProperties, LenProperties, EmptySeq
<1>3. PICK rest \in [1..(Len(messages) + 1) -> Nat] :
        /\ Tallies(rest, messages)
        /\ \A i, j \in 1..(Len(messages) + 1) : i <= j => rest[j] <= rest[i]
        /\ queued = rest[1] + Weight(held) + Weight(taken)
  BY DEF Tallied
<1> DEFINE next == [i \in 1..(Len(messages') + 1) |-> rest[i + 1]]
<1>4. next \in [1..(Len(messages') + 1) -> Nat]
  BY <1>2
<1>5. Tallies(next, messages')
  BY <1>2, <1>3 DEF Tallies
<1>6. \A i, j \in 1..(Len(messages') + 1) : i <= j => next[j] <= next[i]
  BY <1>2, <1>3
<1>7. Weight(taken) = 0 /\ Weight(taken') = messages[1].size /\ Weight(held') = Weight(held)
  BY <1>1, <1>2, NoneAssumption DEF Weight
<1>8. queued' = next[1] + Weight(held') + Weight(taken')
  <2>1. next[1] = rest[2] /\ rest[1] = messages[1].size + rest[2]
    BY <1>2, <1>3 DEF Tallies
  <2>2. 2 \in 1..(Len(messages) + 1)
    BY <1>2
  <2>3. rest[2] \in Nat
    BY <2>2
  <2>4. messages[1].size \in Nat
    BY <1>2, BoundsAssumption DEF Message
  <2>5. Weight(held) \in Nat
    BY WeightType, InHands
  <2> QED
    BY <1>1, <1>3, <1>7, <2>1, <2>3, <2>4, <2>5
<1> HIDE DEF next
<1> QED
  BY <1>1, <1>4, <1>5, <1>6, <1>8 DEF Tallied

\* The queue gains the message from the reader's hand at its end.
LEMMA OfferTally ==
  ASSUME Places, Tallied, Offer, messages' # messages
  PROVE  Tallied' /\ queued' = queued
<1>1. /\ held \in Message /\ held' = None /\ messages \in Seq(Message)
      /\ messages' = Append(messages, held)
      /\ taken' = taken /\ queued' = queued
  BY DEF Offer, Places, turning
<1>2. /\ Len(messages') = Len(messages) + 1 /\ Len(messages) \in Nat
      /\ \A i \in 1..Len(messages) : messages'[i] = messages[i]
      /\ messages'[Len(messages) + 1] = held
  BY <1>1, AppendProperties
<1>3. PICK rest \in [1..(Len(messages) + 1) -> Nat] :
        /\ Tallies(rest, messages)
        /\ \A i, j \in 1..(Len(messages) + 1) : i <= j => rest[j] <= rest[i]
        /\ queued = rest[1] + Weight(held) + Weight(taken)
  BY DEF Tallied
<1>4. held.size \in Nat /\ Weight(held) = held.size /\ Weight(held') = 0
  BY <1>1, NoneAssumption, BoundsAssumption DEF Weight, Message
<1>5. Weight(taken) \in Nat
  BY WeightType, InHands
<1> DEFINE next == [i \in 1..(Len(messages') + 1) |->
                      IF i = Len(messages') + 1 THEN 0 ELSE rest[i] + held.size]
<1>6. next \in [1..(Len(messages') + 1) -> Nat]
  BY <1>2, <1>4
<1>7. Tallies(next, messages')
  <2>1. next[Len(messages') + 1] = 0
    BY <1>2
  <2>2. ASSUME NEW i \in 1..Len(messages')
        PROVE  next[i] = messages'[i].size + next[i + 1]
    <3>1. CASE i \in 1..Len(messages)
      <4>1. messages'[i] = messages[i] /\ rest[i] = messages[i].size + rest[i + 1]
        BY <1>2, <1>3, <3>1 DEF Tallies
      <4>2. next[i] = rest[i] + held.size /\ next[i + 1] = rest[i + 1] + held.size
        BY <1>2, <3>1
      <4>3. messages[i] \in Message
        BY <1>1, <1>2, <3>1, ElementOfSeq
      <4>4. i + 1 \in 1..(Len(messages) + 1)
        BY <1>2, <3>1
      <4>5. messages[i].size \in Nat /\ rest[i + 1] \in Nat
        BY <4>3, <4>4, BoundsAssumption DEF Message
      <4> QED
        BY <1>4, <4>1, <4>2, <4>5
    <3>2. CASE i = Len(messages) + 1
      <4>1. next[i] = rest[i] + held.size /\ next[i + 1] = 0 /\ rest[i] = 0
        BY <1>2, <1>3, <3>2 DEF Tallies
      <4> QED
        BY <1>2, <1>4, <3>2, <4>1
    <3> QED
      BY <1>2, <3>1, <3>2
  <2> HIDE DEF next
  <2> QED
    BY <2>1, <2>2 DEF Tallies
<1>8. ASSUME NEW i \in 1..(Len(messages') + 1), NEW j \in 1..(Len(messages') + 1), i <= j
      PROVE  next[j] <= next[i]
  <2>1. CASE j = Len(messages') + 1
    BY <1>6, <2>1
  <2>2. CASE j # Len(messages') + 1
    <3>1. i \in 1..(Len(messages) + 1) /\ j \in 1..(Len(messages) + 1)
      BY <1>2, <1>8, <2>2
    <3>2. rest[j] <= rest[i] /\ rest[i] \in Nat /\ rest[j] \in Nat
      BY <1>3, <1>8, <3>1
    <3>3. next[i] = rest[i] + held.size /\ next[j] = rest[j] + held.size
      BY <1>2, <3>1
    <3> QED
      BY <1>4, <3>2, <3>3
  <2> QED
    BY <2>1, <2>2
<1>9. queued' = next[1] + Weight(held') + Weight(taken')
  <2>1. next[1] = rest[1] + held.size /\ rest[1] \in Nat
    BY <1>2
  <2> QED
    BY <1>1, <1>3, <1>4, <1>5, <2>1
<1> HIDE DEF next
<1> QED
  BY <1>1, <1>6, <1>7, <1>8, <1>9 DEF Tallied

\* Reading reserves; a message refused or taken is released.
LEMMA BudgetStep ==
  ASSUME Places, BudgetInv, [Next]_vars
  PROVE  BudgetInv'
<1> USE DEF client, reading, turning
<1>0. /\ held \in Message \cup {None} /\ taken \in Message \cup {None}
      /\ Len(messages) \in Nat /\ MaxBytes \in Nat
      /\ Weight(held) \in Nat /\ Weight(taken) \in Nat /\ Weight(None) = 0
      /\ queued \in Nat /\ queued <= MaxBytes /\ Tallied
  <2>1. /\ held \in Message \cup {None} /\ taken \in Message \cup {None}
        /\ Len(messages) \in Nat /\ MaxBytes \in Nat
        /\ Weight(held) \in Nat /\ Weight(taken) \in Nat /\ Weight(None) = 0
        /\ queued <= MaxBytes /\ Tallied
    BY InHands, WeightType DEF BudgetInv
  <2>2. PICK rest \in [1..(Len(messages) + 1) -> Nat] :
          queued = rest[1] + Weight(held) + Weight(taken)
    BY <2>1 DEF Tallied
  <2>3. rest[1] \in Nat
    BY <2>1
  <2> QED
    BY <2>1, <2>2, <2>3
<1>1. CASE UNCHANGED <<messages, queued, held, taken>>
  BY <1>0, <1>1 DEF BudgetInv, Tallied, Tallies
<1>2. CASE ReadMessage /\ held' # held
  <2>1. /\ held = None /\ held' \in Message /\ taken' = taken /\ messages' = messages
        /\ queued' = queued + held'.size /\ queued + held'.size <= MaxBytes
    <3>1. wire \in Seq(Message) /\ wire # <<>>
      BY <1>2 DEF ReadMessage, Places
    <3>2. Head(wire) \in Message
      BY <3>1, HeadTailProperties
    <3> QED
      BY <1>2, <3>2 DEF ReadMessage, Admitted, Places
  <2>2. Weight(held') = held'.size /\ Weight(held') \in Nat
    BY <2>1, NoneAssumption, WeightType DEF Weight
  <2>3. /\ Weight(taken') \in Nat /\ queued' \in Int
        /\ held'.size \in Nat /\ queued' = queued + held'.size /\ HandBytes' = HandBytes + held'.size
    BY <1>0, <2>1, <2>2 DEF HandBytes
  <2>4. Tallied'
    BY <1>0, <2>1, <2>2, <2>3, TallyMoved
  <2> QED
    BY <2>1, <2>4 DEF BudgetInv
<1>3. CASE Offer /\ messages' # messages
  BY <1>0, <1>3, OfferTally DEF BudgetInv
<1>4. CASE Offer /\ messages' = messages
  <2>1. held \in Message /\ held' = None /\ taken' = taken /\ queued' = queued - held.size
    <3>1. reader = "offering" /\ held \in Message /\ messages \in Seq(Message)
      BY <1>4 DEF Offer, Places
    <3>2. Append(messages, held) # messages
      BY <3>1, AppendProperties
    <3> QED
      BY <1>4, <3>1, <3>2 DEF Offer
  <2>2. Weight(held) = held.size
    BY <2>1, WeightType, NoneAssumption
  <2>3. /\ Weight(held') \in Nat /\ Weight(taken') \in Nat /\ queued' \in Int
        /\ held.size \in Nat /\ queued' = queued + (-held.size) /\ HandBytes' = HandBytes + (-held.size)
    BY <1>0, <2>1, <2>2 DEF HandBytes
  <2>4. Tallied'
    BY <1>0, <1>4, <2>3, TallyMoved
  <2> QED
    BY <1>0, <2>1, <2>2, <2>4 DEF BudgetInv
<1>5. CASE Take
  BY <1>0, <1>5, TakeTally DEF BudgetInv
<1>6. CASE Release
  <2>1. /\ taken \in Message /\ held' = held /\ taken' = None /\ messages' = messages
        /\ queued' = queued - taken.size
    BY <1>6 DEF Release, Places
  <2>2. Weight(taken) = taken.size
    BY <2>1, WeightType, NoneAssumption
  <2>3. /\ Weight(held') \in Nat /\ Weight(taken') \in Nat /\ queued' \in Int
        /\ taken.size \in Nat /\ queued' = queued + (-taken.size) /\ HandBytes' = HandBytes + (-taken.size)
    BY <1>0, <2>1, <2>2 DEF HandBytes
  <2>4. Tallied'
    BY <1>0, <2>1, <2>3, TallyMoved
  <2> QED
    BY <1>0, <2>1, <2>2, <2>4 DEF BudgetInv
<1>7. CASE Aside \/ Vanish \/ \E size \in Sizes : Send(size)
  BY <1>1, <1>7 DEF Aside, Vanish, Send
<1>8. CASE ReadMessage /\ held' = held
  <2>1. held = None /\ Head(wire) # None
    <3>1. wire \in Seq(Message) /\ wire # <<>> /\ held = None
      BY <1>8 DEF ReadMessage, Places
    <3> QED
      BY <3>1, HeadTailProperties, NoneAssumption
  <2> QED
    BY <1>1, <1>8, <2>1 DEF ReadMessage
<1> QED
  BY <1>2, <1>3, <1>4, <1>5, <1>6, <1>7, <1>8, Steps

-----------------------------------------------------------------------------
LEMMA Invariance == Spec => []IInv
<1>1. IInv /\ [Next]_vars => IInv'
  BY PlacesStep, OrderStep, LateStep, BudgetStep DEF IInv
<1> QED
  BY InitIInv, <1>1, PTL DEF Spec

\* What the messages from any one on weigh is not above the budget.
LEMMA TallyBounded == IInv => BudgetExact /\ queued \in 0..MaxBytes
<1> SUFFICES ASSUME IInv PROVE BudgetExact /\ queued \in 0..MaxBytes
  OBVIOUS
<1>1. PICK rest \in [1..(Len(messages) + 1) -> Nat] :
        /\ Tallies(rest, messages)
        /\ \A i, j \in 1..(Len(messages) + 1) : i <= j => rest[j] <= rest[i]
        /\ queued = rest[1] + Weight(held) + Weight(taken)
  BY DEF IInv, BudgetInv, Tallied
<1>2. /\ Len(messages) \in Nat /\ MaxBytes \in Nat /\ queued <= MaxBytes
      /\ Weight(held) \in Nat /\ Weight(taken) \in Nat
  BY InHands, WeightType DEF IInv, BudgetInv
<1>3. 1 \in 1..(Len(messages) + 1) /\ rest[1] \in Nat
  BY <1>2
<1>4. queued \in 0..MaxBytes /\ rest[1] <= MaxBytes
  BY <1>1, <1>2, <1>3
<1>5. rest \in [1..(Len(messages) + 1) -> 0..MaxBytes]
  <2>1. ASSUME NEW i \in 1..(Len(messages) + 1) PROVE rest[i] \in 0..MaxBytes
    <3>1. rest[i] \in Nat /\ rest[i] <= rest[1]
      BY <1>1, <1>2, <1>3
    <3> QED
      BY <1>2, <1>3, <1>4, <3>1
  <2> QED
    BY <2>1
<1> QED
  BY <1>1, <1>4, <1>5 DEF BudgetExact

\* Messages are handled in the order they came and without a gap, the budget
\* counts those that wait, and what is taken after the client's leaving has
\* cancelled the session goes nowhere (websocket.go:107-113, 658-697).
THEOREM MessagesKept == Spec => []InboxKept
<1>1. IInv => InboxKept
  BY TallyBounded DEF IInv, OrderInv, LateInv, InboxKept, NothingForTheGone
<1> QED
  BY Invariance, <1>1, PTL

\* The type invariant, with the limits of the inbox (websocket.go:631-637).
THEOREM TypeCorrect == Spec => []TypeOK
<1>1. IInv => TypeOK
  BY TallyBounded DEF IInv, Places, TypeOK
<1> QED
  BY Invariance, <1>1, PTL
=============================================================================
