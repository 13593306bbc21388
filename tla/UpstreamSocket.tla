---------------------------- MODULE UpstreamSocket ----------------------------
(***************************************************************************)
(* upstreamWebSocket of internal/proxy/websocket.go: the goroutines of     *)
(* readLoop and pingLoop, and the session that takes frames from the       *)
(* events channel and closes the socket.  It is the inside of what         *)
(* WebSocketTurn calls sock.                                               *)
(*                                                                         *)
(* Frames are numbered as upstream sends them.  A step ends wherever       *)
(* another goroutine could see the difference: the byte budget is reserved *)
(* before a frame is offered and released after it was taken, and a close  *)
(* stops the reader before it closes the connection.                       *)
(***************************************************************************)
EXTENDS Naturals, Sequences

CONSTANTS Backlog,    \* webSocketUpstreamEventBacklog
          MaxBytes,   \* upstreamWebSocketReadLimit, as the queue's budget
          Sizes,      \* sizes of frames
          MaxFrames,  \* bound: frames upstream sends
          None

ASSUME BoundsAssumption ==
  /\ Backlog \in Nat \ {0}
  /\ MaxBytes \in Nat \ {0}
  /\ Sizes \subseteq Nat \ {0}
  /\ MaxFrames \in Nat

VARIABLES
  sent,     \* how many frames upstream has sent
  wire,     \* those not yet read
  conn,     \* the connection: open, broken by the far end, or closed by us
  reader,   \* where readLoop is
  held,     \* the frame it has read
  events,   \* the channel
  closed,   \* which of the channels stop, events and done are closed
  queued,   \* s.queuedBytes
  err,      \* s.err
  closing,  \* who is inside close, or "nobody" before and "over" after it
  pinger,   \* where pingLoop is
  session,  \* what the session does with the socket
  taken,    \* the frame it has taken and not yet released
  got       \* history: the numbers of the frames it has taken

upstream == <<sent, wire>>
reading == <<reader, held>>
using == <<session, taken, got>>
vars == <<upstream, conn, reading, events, closed, queued, err, closing, pinger,
          using>>

Frame == [n : 1..MaxFrames, size : Sizes, text : BOOLEAN]

ASSUME NoneAssumption ==
  None \notin Frame \cup {"read", "binary", "budget", "ping"}

\* What s.err may stem from.
Reasons == {None, "read", "binary", "budget", "ping"}

\* The type invariant, with the limits of the queue: its frames and the bytes
\* that are read and not yet handled (websocket.go:467-486).
TypeOK ==
  /\ sent \in 0..MaxFrames
  /\ wire \in Seq(Frame)
  /\ conn \in {"open", "broken", "closed"}
  /\ reader \in {"reading", "offering", "leaving", "done"}
  /\ IF reader = "offering" THEN held \in Frame ELSE held = None
  /\ events \in Seq(Frame) /\ Len(events) <= Backlog
  /\ closed \subseteq {"stop", "events", "done"}
  /\ queued \in 0..MaxBytes
  /\ err \in Reasons
  /\ closing \in {"nobody", "session", "pinger", "over"}
  /\ pinger \in {"waiting", "failed", "ended"}
  /\ session \in {"using", "closing", "told", "gone"}
  /\ taken \in Frame \cup {None}
  /\ got \in Seq(1..MaxFrames)

Init ==
  /\ sent = 0
  /\ wire = <<>>
  /\ conn = "open"
  /\ reader = "reading"
  /\ held = None
  /\ events = <<>>
  /\ closed = {}
  /\ queued = 0
  /\ err = None
  /\ closing = "nobody"
  /\ pinger = "waiting"
  /\ session = "using"
  /\ taken = None
  /\ got = <<>>

-----------------------------------------------------------------------------
\* The far end.

Send(size, text) ==
  /\ conn = "open"
  /\ sent < MaxFrames
  /\ sent' = sent + 1
  /\ wire' = Append(wire, [n |-> sent + 1, size |-> size, text |-> text])
  /\ UNCHANGED <<conn, reading, events, closed, queued, err, closing, pinger, using>>

\* It closes the connection or stops answering; what it has sent may still
\* arrive.
Break ==
  /\ conn = "open"
  /\ conn' = "broken"
  /\ wire' \in {wire, <<>>}
  /\ UNCHANGED <<sent, reading, events, closed, queued, err, closing, pinger, using>>

-----------------------------------------------------------------------------
\* readLoop.

\* setError: the first reason stays.
SetError(why) == err' = IF err = None THEN why ELSE err

Quit(why) ==
  /\ SetError(why)
  /\ reader' = "leaving"
  /\ UNCHANGED <<held, queued>>

AdmittedAlone(frame) == frame.size <= MaxBytes

\* reserve.
Admitted(frame) == queued + frame.size <= MaxBytes

\* ReadMessage returns a frame; it may still have one after a close, from its
\* buffer.
ReadFrame ==
  /\ reader = "reading"
  /\ wire # <<>>
  /\ wire' = Tail(wire)
  /\ LET frame == Head(wire)
     IN  \/ ~frame.text /\ Quit("binary")
         \/ frame.text /\ ~Admitted(frame) /\ Quit("budget")
         \/ /\ frame.text
            /\ Admitted(frame)
            /\ queued' = queued + frame.size
            /\ held' = frame
            /\ reader' = "offering"
            /\ UNCHANGED err
  /\ UNCHANGED <<sent, conn, events, closed, closing, pinger, using>>

\* ReadMessage fails: nothing more comes, or the connection was closed here.
ReadFails ==
  /\ reader = "reading"
  /\ conn = "closed" \/ (conn = "broken" /\ wire = <<>>)
  /\ Quit("read")
  /\ UNCHANGED <<upstream, conn, events, closed, closing, pinger, using>>

OfferOrDrop ==
  /\ reader = "offering"
  /\ IF Len(events) < Backlog
     THEN events' = Append(events, held) /\ UNCHANGED queued
     ELSE queued' = queued - held.size /\ UNCHANGED events
  /\ held' = None
  /\ reader' = "reading"
  /\ UNCHANGED <<upstream, conn, closed, err, closing, pinger, using>>

Offer ==
  /\ reader = "offering"
  /\ Len(events) < Backlog
  /\ events' = Append(events, held)
  /\ held' = None
  /\ reader' = "reading"
  /\ UNCHANGED <<upstream, conn, closed, queued, err, closing, pinger, using>>

StopOfferingUnreleased ==
  /\ reader = "offering"
  /\ "stop" \in closed
  /\ held' = None
  /\ reader' = "leaving"
  /\ UNCHANGED <<upstream, conn, events, closed, queued, err, closing, pinger, using>>

\* select takes stop, which it may also where there is room.
StopOffering ==
  /\ reader = "offering"
  /\ "stop" \in closed
  /\ queued' = queued - held.size
  /\ held' = None
  /\ reader' = "leaving"
  /\ UNCHANGED <<upstream, conn, events, closed, err, closing, pinger, using>>

\* The deferred calls: close the connection, then events, then done.
LeaveReading ==
  /\ reader = "leaving"
  /\ \/ conn # "closed" /\ conn' = "closed" /\ UNCHANGED <<closed, reader>>
     \/ conn = "closed" /\ "events" \notin closed
        /\ closed' = closed \cup {"events"} /\ UNCHANGED <<conn, reader>>
     \/ conn = "closed" /\ "events" \in closed
        /\ closed' = closed \cup {"done"} /\ reader' = "done" /\ UNCHANGED conn
  /\ UNCHANGED <<upstream, held, events, queued, err, closing, pinger, using>>

-----------------------------------------------------------------------------
\* close, through closeOnce.

CloseBegins(who) ==
  /\ closing = "nobody"
  /\ closing' = who
  /\ closed' = closed \cup {"stop"}

CloseEnds(who) ==
  /\ closing = who
  /\ closing' = "over"
  /\ conn' = "closed"

-----------------------------------------------------------------------------
\* pingLoop.

PingFailsKeepingSocket ==
  /\ pinger = "waiting"
  /\ conn # "open"
  /\ SetError("ping")
  /\ pinger' = "ended"
  /\ UNCHANGED <<upstream, conn, reading, events, closed, queued, closing, using>>

\* A ping on a broken or closed connection fails.
PingFails ==
  /\ pinger = "waiting"
  /\ conn # "open"
  /\ SetError("ping")
  /\ pinger' = "failed"
  /\ UNCHANGED <<upstream, conn, reading, events, closed, queued, closing, using>>

PingerCloses ==
  /\ pinger = "failed"
  /\ CloseBegins("pinger")
  /\ UNCHANGED <<upstream, conn, reading, events, queued, err, pinger, using>>

PingerClosed ==
  /\ pinger = "failed"
  /\ CloseEnds("pinger")
  /\ pinger' = "ended"
  /\ UNCHANGED <<upstream, reading, events, closed, queued, err, using>>

\* The session has closed it, or stop or done is closed.
PingerEnds ==
  /\ \/ pinger = "failed" /\ closing = "over"
     \/ pinger = "waiting" /\ closed \cap {"stop", "done"} # {}
  /\ pinger' = "ended"
  /\ UNCHANGED <<upstream, conn, reading, events, closed, queued, err, closing, using>>

-----------------------------------------------------------------------------
\* The session goroutine.

Take ==
  /\ session = "using"
  /\ taken = None
  /\ events # <<>>
  /\ taken' = Head(events)
  /\ events' = Tail(events)
  /\ got' = Append(got, Head(events).n)
  /\ UNCHANGED <<upstream, conn, reading, closed, queued, err, closing, pinger, session>>

Release ==
  /\ taken # None
  /\ queued' = queued - taken.size
  /\ taken' = None
  /\ UNCHANGED <<upstream, conn, reading, events, closed, err, closing, pinger,
                 session, got>>

\* It has drained the channel and finds it closed; it reads the error.
FindClosed ==
  /\ session = "using"
  /\ taken = None
  /\ events = <<>>
  /\ "events" \in closed
  /\ session' = "told"
  /\ UNCHANGED <<upstream, conn, reading, events, closed, queued, err, closing,
                 pinger, taken, got>>

\* closeUpstream and invalidateUpstream, at any time between two frames.
SessionCloses ==
  /\ session \in {"using", "told"}
  /\ taken = None
  /\ CloseBegins("session")
  /\ session' = "closing"
  /\ UNCHANGED <<upstream, conn, reading, events, queued, err, pinger, taken, got>>

SessionClosed ==
  /\ CloseEnds("session")
  /\ session' = "gone"
  /\ UNCHANGED <<upstream, reading, events, closed, queued, err, pinger, taken, got>>

\* close returns once the pinger's close is over.
SessionLeaves ==
  /\ session \in {"using", "told"}
  /\ taken = None
  /\ closing = "over"
  /\ session' = "gone"
  /\ UNCHANGED <<upstream, conn, reading, events, closed, queued, err, closing,
                 pinger, taken, got>>

Next ==
  \/ \E size \in Sizes, text \in BOOLEAN : Send(size, text)
  \/ Break
  \/ ReadFrame \/ ReadFails \/ Offer \/ StopOffering \/ LeaveReading
  \/ PingFails \/ PingerCloses \/ PingerClosed \/ PingerEnds
  \/ Take \/ Release \/ FindClosed \/ SessionCloses \/ SessionClosed \/ SessionLeaves

Spec == Init /\ [][Next]_vars

\* The goroutines of the socket run, the ticker of pingLoop ticks, and a call
\* of close that has begun ends.  The session need never take a frame or
\* close the socket: between two turns it looks at neither.
Fairness ==
  /\ WF_vars(ReadFrame \/ ReadFails)
  /\ WF_vars(Offer \/ StopOffering)
  /\ WF_vars(LeaveReading)
  /\ WF_vars(PingFails \/ PingerCloses \/ PingerClosed \/ PingerEnds)
  /\ WF_vars(SessionClosed)
  /\ WF_vars(Release)

FairSpec == Spec /\ Fairness

-----------------------------------------------------------------------------
Weight(frame) == IF frame = None THEN 0 ELSE frame.size

\* rest[i] is the size of the frames from the i-th on.
Tallies(rest, frames) ==
  /\ rest[Len(frames) + 1] = 0
  /\ \A i \in 1..Len(frames) : rest[i] = frames[i].size + rest[i + 1]

\* The budget counts what is between the reader's hand and the session's, no
\* path reserving or releasing twice, so that a healthy socket is never closed
\* for bytes that are long gone (websocket.go:509-517, 522-542, 264).
BudgetExact ==
  \E rest \in [1..(Len(events) + 1) -> 0..MaxBytes] :
    Tallies(rest, events) /\ queued = rest[1] + Weight(held) + Weight(taken)

\* The session takes the frames in the order they were sent and without a gap,
\* whatever is dropped when the socket ends (websocket.go:508-518).
InOrder == \A i \in DOMAIN got : got[i] = i

\* A session that finds the channel closed under it has an error to report:
\* it never looks like a response that just ended (websocket.go:249-252).
LearnsWhy == session = "told" => err # None

\* A connection that is no longer open is found out and its goroutines end,
\* also while the event queue is full and the session, between two turns or
\* writing to its client, takes nothing from it (websocket.go:513-518, 544-560).
BrokenSocketEnds == conn # "open" ~> "done" \in closed /\ pinger = "ended"

\* What a session is given is the start of what was sent, and a reason if it
\* is not all of it (websocket.go:249-252, 508-518).
GaplessOrTold == InOrder /\ LearnsWhy
=============================================================================
