---------------------------- MODULE DownstreamInbox ----------------------------
(***************************************************************************)
(* The client's side of a Responses WebSocket in internal/proxy/           *)
(* websocket.go: the goroutine that reads messages into the inbox, the     *)
(* pings, the goroutine that turns the end of the reader into the          *)
(* cancellation of the session's context, and ResponsesWebSocket with its  *)
(* turns, as far as they wait, watch the context or end the session.  What *)
(* a turn does upstream is WebSocketTurn.                                  *)
(*                                                                         *)
(* Messages are numbered as the client sends them.                         *)
(***************************************************************************)
EXTENDS Naturals, Sequences

CONSTANTS Backlog,     \* webSocketClientQueueSize
          MaxBytes,    \* readLimit, also the queue's budget
          Sizes,       \* sizes of messages
          MaxMessages, \* bound: messages the client sends
          None

ASSUME BoundsAssumption ==
  /\ Backlog \in Nat \ {0}
  /\ MaxBytes \in Nat \ {0}
  /\ Sizes \subseteq Nat \ {0}
  /\ MaxMessages \in Nat

VARIABLES
  sent,      \* how many messages the client has sent
  wire,      \* those not yet read
  conn,      \* the connection: open, broken by the client, or closed by us
  reader,    \* where the goroutine of newDownstreamWebSocketInbox is
  held,      \* the message it has read
  messages,  \* inbox.messages; inbox.done is closed when the reader is "done"
  queued,    \* inbox.queuedBytes
  cancelled, \* sessionCtx
  canceler,  \* the goroutine that waits for inbox.done or sessionCtx
  pinger,    \* downstream.pingLoop
  session,   \* where ResponsesWebSocket is, its turn included
  taken,     \* the message it has taken and not yet released
  got,       \* history: the numbers of the messages it has taken
  late       \* history: the one in hand was taken after the cancellation

client == <<sent, wire>>
reading == <<reader, held>>
turning == <<session, taken, got, late>>
vars == <<client, conn, reading, messages, queued, cancelled, canceler, pinger, turning>>

Message == [n : 1..MaxMessages, size : Sizes]

ASSUME NoneAssumption == None \notin Message

\* Where a turn can be: the key, the account and the request are looked at,
\* it is on its way upstream, and its answer is awaited over either transport.
InTurn == {"preparing", "submitting", "forwarding", "streaming"}

\* The type invariant, with the limits of the inbox (websocket.go:631-637).
TypeOK ==
  /\ sent \in 0..MaxMessages
  /\ wire \in Seq(Message)
  /\ conn \in {"open", "broken", "closed"}
  /\ reader \in {"reading", "offering", "refusing", "leaving", "done"}
  /\ IF reader = "offering" THEN held \in Message ELSE held = None
  /\ messages \in Seq(Message) /\ Len(messages) <= Backlog
  /\ queued \in 0..MaxBytes
  /\ cancelled \in BOOLEAN
  /\ canceler \in {"waiting", "ended"}
  /\ pinger \in {"waiting", "ended"}
  /\ session \in InTurn \cup {"selecting", "took", "failing", "leaving", "closing", "gone"}
  /\ IF session = "took" THEN taken \in Message ELSE taken = None
  /\ got \in Seq(1..MaxMessages)
  /\ late \in BOOLEAN

Init ==
  /\ sent = 0
  /\ wire = <<>>
  /\ conn = "open"
  /\ reader = "reading"
  /\ held = None
  /\ messages = <<>>
  /\ queued = 0
  /\ cancelled = FALSE
  /\ canceler = "waiting"
  /\ pinger = "waiting"
  /\ session = "selecting"
  /\ taken = None
  /\ got = <<>>
  /\ late = FALSE

-----------------------------------------------------------------------------
\* The client, and the server around the session.

Send(size) ==
  /\ conn = "open"
  /\ sent < MaxMessages
  /\ sent' = sent + 1
  /\ wire' = Append(wire, [n |-> sent + 1, size |-> size])
  /\ UNCHANGED <<conn, reading, messages, queued, cancelled, canceler, pinger, turning>>

\* It closes the connection or vanishes; what it has sent may still arrive.
Vanish ==
  /\ conn = "open"
  /\ conn' = "broken"
  /\ wire' \in {wire, <<>>}
  /\ UNCHANGED <<sent, reading, messages, queued, cancelled, canceler, pinger, turning>>

\* A shutdown closes the registered connections.
ShutDown ==
  /\ conn # "closed"
  /\ conn' = "closed"
  /\ UNCHANGED <<client, reading, messages, queued, cancelled, canceler, pinger, turning>>

-----------------------------------------------------------------------------
\* The reader.

AdmittedAlone(message) == message.size <= MaxBytes

\* reserve.
Admitted(message) == queued + message.size <= MaxBytes

\* ReadMessage returns a message, after a close also one it has buffered, and
\* reserve admits it or the connection is to be closed.
ReadMessage ==
  /\ reader = "reading"
  /\ wire # <<>>
  /\ Head(wire).size <= MaxBytes
  /\ wire' = Tail(wire)
  /\ LET message == Head(wire)
     IN  IF Admitted(message)
         THEN /\ queued' = queued + message.size
              /\ held' = message
              /\ reader' = "offering"
         ELSE reader' = "refusing" /\ UNCHANGED <<queued, held>>
  /\ UNCHANGED <<sent, conn, messages, cancelled, canceler, pinger, turning>>

\* It fails: the message is too long, the connection is gone, or the client
\* has neither sent anything nor answered a ping before the deadline.
ReadFails ==
  /\ reader = "reading"
  /\ \/ conn = "closed"
     \/ wire = <<>>
     \/ wire # <<>> /\ Head(wire).size > MaxBytes
  /\ reader' = "leaving"
  /\ UNCHANGED <<client, conn, held, messages, queued, cancelled, canceler, pinger,
                 turning>>

OfferOrSkip ==
  /\ reader = "offering"
  /\ IF Len(messages) < Backlog
     THEN messages' = Append(messages, held) /\ UNCHANGED queued
     ELSE queued' = queued - held.size /\ UNCHANGED messages
  /\ held' = None
  /\ reader' = "reading"
  /\ UNCHANGED <<client, conn, cancelled, canceler, pinger, turning>>

\* A full queue is not waited for.
Offer ==
  /\ reader = "offering"
  /\ IF Len(messages) < Backlog
     THEN messages' = Append(messages, held) /\ reader' = "reading" /\ UNCHANGED queued
     ELSE queued' = queued - held.size /\ reader' = "refusing" /\ UNCHANGED messages
  /\ held' = None
  /\ UNCHANGED <<client, conn, cancelled, canceler, pinger, turning>>

\* connection.Close, and the deferred close of inbox.done.
StopReading ==
  /\ \/ reader = "refusing" /\ conn' = "closed" /\ reader' = "leaving"
     \/ reader = "leaving" /\ reader' = "done" /\ UNCHANGED conn
  /\ UNCHANGED <<client, held, messages, queued, cancelled, canceler, pinger, turning>>

-----------------------------------------------------------------------------
\* The goroutines beside the session.

CancelOnlyIdle ==
  /\ canceler = "waiting"
  /\ cancelled \/ (reader = "done" /\ session = "selecting")
  /\ cancelled' = TRUE
  /\ canceler' = "ended"
  /\ UNCHANGED <<client, conn, reading, messages, queued, pinger, turning>>

Cancel ==
  /\ canceler = "waiting"
  /\ reader = "done" \/ cancelled
  /\ cancelled' = TRUE
  /\ canceler' = "ended"
  /\ UNCHANGED <<client, conn, reading, messages, queued, pinger, turning>>

\* pingLoop closes the connection when a ping fails.
Ping ==
  /\ pinger = "waiting"
  /\ \/ conn # "open" /\ conn' = "closed"
     \/ cancelled /\ UNCHANGED conn
  /\ pinger' = "ended"
  /\ UNCHANGED <<client, reading, messages, queued, cancelled, canceler, turning>>

-----------------------------------------------------------------------------
\* The session.  Where several cases of a select are ready, any may be taken.

Take ==
  /\ session = "selecting"
  /\ messages # <<>>
  /\ taken' = Head(messages)
  /\ messages' = Tail(messages)
  /\ got' = Append(got, Head(messages).n)
  /\ late' = cancelled
  /\ session' = "took"
  /\ UNCHANGED <<client, conn, reading, queued, cancelled, canceler, pinger>>

Release ==
  /\ session = "took"
  /\ queued' = queued - taken.size
  /\ taken' = None
  /\ session' = "preparing"
  /\ UNCHANGED <<client, conn, reading, messages, cancelled, canceler, pinger, got, late>>

Goes(from, to) ==
  /\ session \in from
  /\ session' \in to
  /\ UNCHANGED <<client, conn, reading, messages, queued, cancelled, canceler, pinger,
                 taken, got, late>>

\* The key and the account are read from the database with the session's
\* context, then the request is prepared.
Prepare == ~cancelled /\ Goes({"preparing"}, {"submitting"})

\* They cannot be read or the request is rejected, and the session goes on; a
\* revoked key ends it.
PrepareFails ==
  \/ Goes({"preparing"}, {"selecting"})
  \/ ~cancelled /\ Goes({"preparing"}, {"failing"})

\* The request goes out on a socket, which one there already is allows without
\* looking at the context, or over HTTP.
Submit ==
  \/ Goes({"submitting"}, {"forwarding"})
  \/ ~cancelled /\ Goes({"submitting"}, {"streaming"})

\* Dialing or the HTTP request fails; or the write to the socket, whose
\* outcome is unknown.
SubmitFails == Goes({"submitting"}, {"selecting", "failing"})

\* The answer ends, or the turn on the socket ends the session: upstream or
\* the client is gone, or the response cannot be kept.
EndTurn ==
  \/ Goes({"forwarding"}, {"selecting", "failing"})
  \/ Goes({"streaming"}, {"selecting"})

\* A turn on the socket watches inbox.done too; one over HTTP has the context
\* in its request only.
CutOff ==
  \/ (cancelled \/ reader = "done") /\ Goes({"forwarding"}, {"selecting"})
  \/ cancelled /\ Goes({"submitting", "streaming"}, {"selecting"})

SeeEnd ==
  /\ cancelled \/ reader = "done"
  /\ Goes({"selecting"}, {"leaving"})

\* A fatal result: downstream.close.
CloseFatal ==
  /\ session = "failing"
  /\ conn' = "closed"
  /\ session' = "leaving"
  /\ UNCHANGED <<client, reading, messages, queued, cancelled, canceler, pinger, taken,
                 got, late>>

\* The deferred calls: the upstream socket, cancelSession, the connection.
Leave ==
  /\ \/ session = "leaving" /\ cancelled' = TRUE /\ session' = "closing" /\ UNCHANGED conn
     \/ session = "closing" /\ conn' = "closed" /\ session' = "gone" /\ UNCHANGED cancelled
  /\ UNCHANGED <<client, reading, messages, queued, canceler, pinger, taken, got, late>>

Next ==
  \/ \E size \in Sizes : Send(size)
  \/ Vanish \/ ShutDown
  \/ ReadMessage \/ ReadFails \/ Offer \/ StopReading
  \/ Cancel \/ Ping
  \/ Take \/ Release \/ Prepare \/ PrepareFails \/ Submit \/ SubmitFails
  \/ EndTurn \/ CutOff \/ SeeEnd \/ CloseFatal \/ Leave

Spec == Init /\ [][Next]_vars

\* Goroutines run, the ticker ticks, and the database and a cancelled request
\* answer.  A deadline need not pass while the connection is open, and
\* upstream need never answer a turn.
Fairness ==
  /\ WF_vars(ReadMessage \/ (conn # "open" /\ ReadFails))
  /\ WF_vars(Offer \/ StopReading)
  /\ WF_vars(Cancel)
  /\ WF_vars(Ping)
  /\ WF_vars(Take \/ Release \/ Prepare \/ PrepareFails \/ CutOff \/ SeeEnd
             \/ CloseFatal \/ Leave)

FairSpec == Spec /\ Fairness

-----------------------------------------------------------------------------
\* Messages are handled in the order they were sent and without a gap: one
\* that does not fit ends the session and is not skipped (websocket.go:658-670).
InOrder == \A i \in DOMAIN got : got[i] = i

Weight(message) == IF message = None THEN 0 ELSE message.size

\* rest[i] is the size of the messages from the i-th on.
Tallies(rest, inbox) ==
  /\ rest[Len(inbox) + 1] = 0
  /\ \A i \in 1..Len(inbox) : rest[i] = inbox[i].size + rest[i + 1]

\* A client is dropped for the messages it has waiting, never for ones that
\* were handled or refused (websocket.go:112, 677-697).
BudgetExact ==
  \E rest \in [1..(Len(messages) + 1) -> 0..MaxBytes] :
    Tallies(rest, messages) /\ queued = rest[1] + Weight(held) + Weight(taken)

\* A message that the session's loop still takes, because its select chose it,
\* when the client's leaving has already cancelled the session, goes nowhere
\* (websocket.go:107-111, 163-168).
NothingForTheGone == late => session \notin {"submitting", "forwarding", "streaming"}

\* What the inbox and the loop that empties it make of a client's messages.
InboxKept == InOrder /\ BudgetExact /\ NothingForTheGone

\* Whoever ends it, all four goroutines end and the connection is closed, also
\* when the queue is full and a turn waits for an upstream that never answers
\* (websocket.go:90-105, 241-246, 645-670, 743-760).
AllEnd ==
  conn # "open" \/ reader = "done" \/ session = "gone"
    ~> /\ conn = "closed" /\ reader = "done" /\ session = "gone"
       /\ canceler = "ended" /\ pinger = "ended"
=============================================================================
