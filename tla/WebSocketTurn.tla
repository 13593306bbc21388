---------------------------- MODULE WebSocketTurn ----------------------------
(***************************************************************************)
(* One downstream WebSocket of GET /v1/responses: the serialized turn      *)
(* machine of internal/proxy/websocket.go over the conversation record of  *)
(* internal/proxy/websocket_state.go.                                      *)
(*                                                                         *)
(* A turn is one client message.  Turns are numbered as they are begun,    *)
(* and a number also stands for the turn's input, for the response to it   *)
(* (its id and output) and for the tools or instructions it set.  A thread *)
(* is the sequence of the turns a transcript consists of; replaying a      *)
(* thread means sending all its items again.                               *)
(*                                                                         *)
(* The session goroutine is cut where something else can move: after the   *)
(* request was prepared, after the upstream was chosen or dialed, after    *)
(* the request was submitted, and at every frame.  Upstream is external:   *)
(* it remembers, per socket, the thread of its last response there, and    *)
(* sends frames only in answer to requests.                                *)
(***************************************************************************)
EXTENDS Naturals, Sequences, SequencesExt

CONSTANTS Accounts,      \* ChatGPT account ids
          Requests,      \* the kinds of client messages
          HTTPFallback,  \* CODEX_WEBSOCKET_HTTP_FALLBACK
          MaxTurns,      \* bound: turns begun on the connection
          None

\* Instructions in a request: left out, present but blank, or present.
Wording == {"absent", "blank", "text"}

\* A request continues the thread or not, sets tools and instructions or not.
Request == [cont : BOOLEAN, tools : BOOLEAN, wording : Wording]

ASSUME ConstantsAssumption ==
  /\ Requests \subseteq Request
  /\ HTTPFallback \in BOOLEAN
  /\ MaxTurns \in Nat \ {0}
  /\ None \notin Accounts

VARIABLES
  phase,     \* where the session goroutine is
  turn,      \* the turn being handled, or the last one
  plan,      \* webSocketTurnPlan and the credential's account
  conv,      \* webSocketConversation
  sock,      \* s.upstream, with what its far end knows
  gens,      \* s.nextGeneration
  cooldown,  \* whether time.Now() is before webSocketRetryAt
  connected, \* whether the client is still there
  sent,      \* history: the request this turn submitted last, as upstream takes it
  submits,   \* history: how often this turn was submitted
  seen,      \* history: the thread as the client has seen it complete
  said,      \* history: what its turns set, and whether instructions were echoed
  owed,      \* history: whether the last response the client saw calls tools
  unkept     \* history: a fallback response was shown but not committed

session == <<conv, sock, gens, cooldown>>
handled == <<turn, plan, sent, submits>>
history == <<seen, said, owed, unkept>>
vars == <<phase, connected, session, handled, history>>

Turns == 1..MaxTurns
Threads == SeqOf(Turns, MaxTurns)

\* No turn set it: the value 0 for tools and instructions.
Conversation == [thread : Threads, gen : Nat, pending : BOOLEAN,
                 tools : 0..MaxTurns, instructions : 0..MaxTurns]

Submission == [thread : Threads, tools : 0..MaxTurns, instructions : 0..MaxTurns]

Plan == [req : Request, answers : BOOLEAN, account : Accounts]

Frame == [turn : Turns, kind : {"completed", "error"}]

Silent == [tools |-> FALSE, wording |-> "absent", echo |-> FALSE]

\* The types; also, the goroutine holds a plan while it handles a turn and an
\* upstream while it uses one (websocket.go:183, 238).
TypeOK ==
  /\ phase \in {"idle", "planned", "ready", "forward", "fallback", "answered",
                "closed"}
  /\ turn \in 0..MaxTurns
  /\ IF phase \in {"idle", "closed"} THEN plan = None ELSE plan \in Plan
  /\ conv \in Conversation
  /\ \/ sock = None /\ phase \notin {"ready", "forward"}
     \/ sock \in [gen : Nat, account : Accounts, state : {"up", "broken", "done"},
                  memory : Threads, jobs : Seq([turn : Turns, thread : Threads]),
                  events : Seq(Frame)]
  /\ gens \in Nat
  /\ cooldown \in BOOLEAN
  /\ connected \in BOOLEAN
  /\ IF phase \in {"forward", "answered"} THEN sent \in Submission
     ELSE sent = None
  /\ submits \in 0..2
  /\ seen \in Threads
  /\ said \in [Turns -> [tools : BOOLEAN, wording : Wording, echo : BOOLEAN]]
  /\ owed \in BOOLEAN
  /\ unkept \in BOOLEAN

Init ==
  /\ phase = "idle"
  /\ turn = 0
  /\ plan = None
  /\ conv = [thread |-> <<>>, gen |-> 0, pending |-> FALSE, tools |-> 0,
             instructions |-> 0]
  /\ sock = None
  /\ gens = 0
  /\ cooldown = FALSE
  /\ connected = TRUE
  /\ sent = None
  /\ submits = 0
  /\ seen = <<>>
  /\ said = [t \in Turns |-> Silent]
  /\ owed = FALSE
  /\ unkept = FALSE

-----------------------------------------------------------------------------
\* The conversation record.

\* The thread of the turn in hand: mergeWebSocketItems of history and input,
\* or the input alone after a reset.
Replay == IF plan.req.cont THEN Append(conv.thread, turn) ELSE <<turn>>

\* Tools and instructions as they go out: the request's, else on a
\* continuation those the conversation carries.
TurnTools ==
  IF plan.req.tools THEN turn ELSE IF plan.req.cont THEN conv.tools ELSE 0

TurnInstructions ==
  CASE plan.req.wording = "text" -> turn
    [] plan.req.wording = "blank" -> 0
    [] plan.req.wording = "absent" -> IF plan.req.cont THEN conv.instructions ELSE 0

\* bodyFor: only the socket that answered the last turn gets the increment.
IncrementalOnAnySocket(gen) == plan.req.cont /\ gen # 0

Incremental(gen) == plan.req.cont /\ gen # 0 /\ gen = conv.gen

CommittedKeepingSettings(gen, calls, echo) ==
  [thread |-> Replay, gen |-> gen, pending |-> calls,
   tools |-> IF plan.req.tools THEN turn ELSE conv.tools,
   instructions |-> IF plan.req.wording = "text" THEN turn ELSE conv.instructions]

\* commit: a thread that was reset without instructions takes those the
\* response echoes.
Committed(gen, calls, echo) ==
  [thread |-> Replay, gen |-> gen, pending |-> calls, tools |-> TurnTools,
   instructions |-> IF echo THEN turn ELSE TurnInstructions]

-----------------------------------------------------------------------------
\* handleTurn up to the choice of the upstream.

\* handleTurn returns, to the loop or to end the session; its locals are gone.
ReturnTo(p) ==
  /\ phase' = p
  /\ plan' = None
  /\ sent' = None
  /\ submits' = 0
  /\ UNCHANGED <<turn, connected>>

\* FreshCredential fails: there is no account, or its refresh failed.
NoCredential ==
  /\ phase = "idle"
  /\ sock # None
  /\ sock' = None
  /\ UNCHANGED <<phase, connected, handled, conv, gens, cooldown, history>>

\* authorizeTurn, FreshCredential and prepare succeed; every turn may find
\* another account connected.  A continuation answers the pending calls, or
\* prepare rejects it; answers nobody waits for are not told apart.  A message
\* that prepare rejects changes nothing, and begins no turn here.  A message
\* may be handled although the client has gone: it was queued, and select
\* takes it first.
BeginTurn(req, a) ==
  /\ phase = "idle"
  /\ turn < MaxTurns
  /\ req.cont => conv.thread # <<>>
  /\ turn' = turn + 1
  /\ plan' = [req |-> req, answers |-> req.cont /\ conv.pending, account |-> a]
  /\ phase' = "planned"
  /\ UNCHANGED <<sent, submits, connected, session, history>>

Reusable == sock # None /\ sock.account = plan.account /\ sock.state # "done"

\* ensureUpstream returns the open socket.
ReuseUpstream ==
  /\ phase = "planned"
  /\ Reusable
  /\ phase' = "ready"
  /\ UNCHANGED <<connected, session, handled, history>>

\* It closes what is there and dials anew.
DialUpstream ==
  /\ phase = "planned"
  /\ ~Reusable
  /\ ~(HTTPFallback /\ cooldown)
  /\ gens' = gens + 1
  /\ sock' = [gen |-> gens + 1, account |-> plan.account, state |-> "up",
              memory |-> <<>>, jobs |-> <<>>, events |-> <<>>]
  /\ cooldown' = FALSE
  /\ phase' = "ready"
  /\ UNCHANGED <<connected, conv, handled, history>>

NoUpstreamUnchecked ==
  /\ phase = "planned"
  /\ ~Reusable
  /\ sock' = None
  /\ cooldown' \in {cooldown, TRUE}
  /\ phase' = "ready"
  /\ UNCHANGED <<connected, conv, gens, handled, history>>

\* The dial fails, or is not tried during the cooldown.
NoUpstream ==
  /\ phase = "planned"
  /\ ~Reusable
  /\ sock' = None
  /\ cooldown' \in {cooldown, TRUE}
  /\ IF HTTPFallback THEN phase' = "fallback" /\ UNCHANGED <<connected, handled>>
     ELSE ReturnTo("idle")
  /\ UNCHANGED <<conv, gens, history>>

CooldownEnds ==
  /\ cooldown
  /\ cooldown' = FALSE
  /\ UNCHANGED <<phase, connected, conv, sock, gens, handled, history>>

-----------------------------------------------------------------------------
\* A turn over the upstream socket.

\* What upstream makes of the body it is sent on the socket.
ThreadOnSocket ==
  IF Incremental(sock.gen) THEN Append(sock.memory, turn) ELSE Replay

Record(thread) ==
  /\ sent' = [thread |-> thread, tools |-> TurnTools,
              instructions |-> TurnInstructions]
  /\ submits' = submits + 1
  /\ UNCHANGED <<turn, plan, connected, history>>

Queued == [sock EXCEPT !.jobs = Append(@, [turn |-> turn, thread |-> ThreadOnSocket])]

\* write returns no error.  On a connection that broke unnoticed the request
\* is lost in the kernel's buffers.
Submit ==
  /\ phase = "ready"
  /\ Record(ThreadOnSocket)
  /\ sock' = IF sock.state = "up" THEN Queued ELSE sock
  /\ phase' = "forward"
  /\ UNCHANGED <<conv, gens, cooldown>>

RetryOverHTTP ==
  /\ phase = "ready"
  /\ Record(ThreadOnSocket)
  /\ sock' = None
  /\ phase' = "fallback"
  /\ UNCHANGED <<conv, gens, cooldown>>

\* write fails: whether upstream has the request is unknown, and the client is
\* told to reconnect.
SubmitFails ==
  /\ phase = "ready"
  /\ sock' = None
  /\ ReturnTo("closed")
  /\ UNCHANGED <<conv, gens, cooldown, history>>

\* Upstream answers its oldest request.
Answer ==
  /\ sock # None
  /\ sock.state = "up"
  /\ sock.jobs # <<>>
  /\ sock' = [sock EXCEPT
       !.jobs = Tail(@),
       !.memory = Head(sock.jobs).thread,
       !.events = Append(@, [turn |-> Head(sock.jobs).turn, kind |-> "completed"])]
  /\ UNCHANGED <<phase, connected, conv, gens, cooldown, handled, history>>

\* It reports an error and may still go on with the request.
Complain ==
  /\ sock # None
  /\ sock.state = "up"
  /\ sock.jobs # <<>>
  /\ sock.events = <<>>
  /\ \E rest \in {sock.jobs, Tail(sock.jobs)} :
       sock' = [sock EXCEPT
         !.jobs = rest,
         !.events = Append(@, [turn |-> Head(sock.jobs).turn, kind |-> "error"])]
  /\ UNCHANGED <<phase, connected, conv, gens, cooldown, handled, history>>

\* The connection breaks; later readLoop notices, closes events and done.
Break ==
  /\ sock # None
  /\ \/ sock.state = "up" /\ sock' = [sock EXCEPT !.state = "broken", !.jobs = <<>>]
     \/ sock.state = "broken" /\ sock' = [sock EXCEPT !.state = "done"]
  /\ UNCHANGED <<phase, connected, conv, gens, cooldown, handled, history>>

\* The response may echo instructions; it matters to a reset without any.
MayEcho(echo) == echo => ~plan.req.cont /\ plan.req.wording = "absent"

SaidNow(echo) ==
  [tools |-> plan.req.tools, wording |-> plan.req.wording, echo |-> echo]

\* The terminal event is written to the client.
Shown(calls, echo) ==
  /\ seen' = IF plan.req.cont THEN Append(seen, turn) ELSE <<turn>>
  /\ said' = [t \in Turns |-> IF t = turn THEN SaidNow(echo)
                              ELSE IF plan.req.cont THEN said[t] ELSE Silent]
  /\ owed' = calls

\* forwardWebSocketTurn at response.completed or response.incomplete: the
\* frame is written to the client, then committed.  A commit that fails, for
\* want of an id or of room for the replay, ends the session.
ForwardCompleted(calls, echo) ==
  /\ phase = "forward"
  /\ sock.events # <<>>
  /\ Head(sock.events).kind = "completed"
  /\ MayEcho(echo)
  /\ Shown(calls, echo)
  /\ \/ /\ conv' = Committed(sock.gen, calls, echo)
        /\ sock' = [sock EXCEPT !.events = Tail(@)]
        /\ unkept' = (unkept /\ plan.req.cont)
        /\ ReturnTo("idle")
     \/ /\ sock' = None
        /\ ReturnTo("closed")
        /\ UNCHANGED <<conv, unkept>>
  /\ UNCHANGED <<gens, cooldown>>

ForwardErrorKeepingSocket ==
  /\ phase = "forward"
  /\ sock.events # <<>>
  /\ Head(sock.events).kind = "error"
  /\ sock' = [sock EXCEPT !.events = Tail(@)]
  /\ ReturnTo("idle")
  /\ UNCHANGED <<conv, gens, cooldown, history>>

\* At response.failed or error the turn ends and the socket with it.
ForwardError ==
  /\ phase = "forward"
  /\ sock.events # <<>>
  /\ Head(sock.events).kind = "error"
  /\ sock' = None
  /\ ReturnTo("idle")
  /\ UNCHANGED <<conv, gens, cooldown, history>>

\* The events are drained and the socket is done, or the frame cannot be
\* written to the client: the session ends.
ForwardFatal ==
  /\ phase = "forward"
  /\ \/ sock.events = <<>> /\ sock.state = "done"
     \/ sock.events # <<>> /\ ~connected
  /\ sock' = None
  /\ ReturnTo("closed")
  /\ UNCHANGED <<conv, gens, cooldown, history>>

\* inbox.done or the session's context ends the turn, not yet the loop.
Abandon ==
  /\ phase = "forward"
  /\ ~connected
  /\ ReturnTo("idle")
  /\ UNCHANGED <<session, history>>

-----------------------------------------------------------------------------
\* executeHTTPFallback.

\* The complete transcript is posted.
SubmitHTTP ==
  /\ phase = "fallback"
  /\ Record(Replay)
  /\ phase' = "answered"
  /\ UNCHANGED session

\* Refused, failed, the stream ends early, or the client has gone.
FallbackFails ==
  /\ phase \in {"fallback", "answered"}
  /\ ReturnTo("idle")
  /\ UNCHANGED <<session, history>>

\* The terminal event is written to the client, then committed under
\* generation 0.  A commit that fails leaves the session going.
FallbackCompleted(calls, echo) ==
  /\ phase = "answered"
  /\ MayEcho(echo)
  /\ Shown(calls, echo)
  /\ \/ /\ conv' = Committed(0, calls, echo)
        /\ unkept' = (unkept /\ plan.req.cont)
     \/ /\ unkept' = TRUE
        /\ UNCHANGED conv
  /\ ReturnTo("idle")
  /\ UNCHANGED <<sock, gens, cooldown>>

-----------------------------------------------------------------------------
ClientLeaves ==
  /\ connected
  /\ phase # "closed"
  /\ connected' = FALSE
  /\ UNCHANGED <<phase, session, handled, history>>

\* The loop returns: the client has gone, or authorizeTurn finds the API key
\* revoked.  The deferred closeUpstream runs.
EndSession ==
  /\ phase = "idle"
  /\ sock' = None
  /\ ReturnTo("closed")
  /\ UNCHANGED <<conv, gens, cooldown, history>>

Next ==
  \/ NoCredential
  \/ \E req \in Requests, a \in Accounts : BeginTurn(req, a)
  \/ ReuseUpstream
  \/ DialUpstream
  \/ NoUpstream
  \/ CooldownEnds
  \/ Submit
  \/ SubmitFails
  \/ Answer
  \/ Complain
  \/ Break
  \/ \E calls, echo \in BOOLEAN : ForwardCompleted(calls, echo)
  \/ ForwardError
  \/ ForwardFatal
  \/ Abandon
  \/ SubmitHTTP
  \/ FallbackFails
  \/ \E calls, echo \in BOOLEAN : FallbackCompleted(calls, echo)
  \/ ClientLeaves
  \/ EndSession

Spec == Init /\ [][Next]_vars

-----------------------------------------------------------------------------
\* Properties.  They are about a client that is still there: once it has gone,
\* what a queued message still sends upstream is read by nobody.

InFlight == connected /\ phase \in {"forward", "answered"}

\* The thread the client means: a continuation of what it has seen complete.
Meant == IF plan.req.cont THEN Append(seen, turn) ELSE <<turn>>

\* Whatever became of the sockets in between, upstream answers a turn on
\* exactly the conversation the client has in front of it: nothing is lost,
\* repeated or taken from an abandoned thread (websocket.go:49-52).
ContextComplete == InFlight /\ ~unkept => sent.thread = Meant

\* The same with no exception (README.md:68: an append joins the response
\* completed on this connection).
ContextAlwaysComplete == InFlight => sent.thread = Meant

\* The last turn of a thread that is in chosen, 0 if none is.
LastAmong(thread, chosen) ==
  LET hits == {i \in DOMAIN thread : thread[i] \in chosen}
  IN  IF hits = {} THEN 0 ELSE thread[Max(hits)]

Said(t) == IF t = turn THEN SaidNow(FALSE) ELSE said[t]

\* A turn goes out with the tools and instructions last set in its thread, or
\* with the instructions upstream gave when the thread began
\* (websocket_state.go:90-111, 237-268).
SettingsCarried ==
  InFlight /\ ~unkept =>
    LET last == LastAmong(Meant, {t \in Turns : Said(t).wording # "absent"})
    IN  /\ sent.tools = LastAmong(Meant, {t \in Turns : Said(t).tools})
        /\ sent.instructions =
             IF last # 0
             THEN IF Said(last).wording = "text" THEN last ELSE 0
             ELSE IF Said(Head(Meant)).echo THEN Head(Meant) ELSE 0

\* A continuation answers the tool calls of the last response the client saw,
\* and is not made to answer any other.
CallsAnswered == InFlight /\ ~unkept /\ plan.req.cont => plan.answers = owed

\* Both, for turns that fail, reset the thread or change sockets in between
\* (websocket_state.go:78-111, 234-268).
CarriedOver == SettingsCarried /\ CallsAnswered

\* No turn is submitted twice, over whichever transport: the HTTP fallback is
\* taken only before a request was submitted (websocket.go:51-52).
SubmittedOnce == submits <= 1

\* A turn runs on the account whose credential it was given, also when the
\* account is switched between two turns or during one.
OwnAccount == phase \in {"ready", "forward"} => sock.account = plan.account

\* The frames a turn takes from the shared socket are answers to it, never
\* the remains of an earlier turn.
OwnFrames ==
  connected /\ phase = "forward" /\ sock.events # <<>>
    => Head(sock.events).turn = turn

\* A turn has its socket to itself: its own account before it and its own
\* answers on it, whatever turns came before (websocket.go:282-287, 376-378).
OwnSocket == OwnAccount /\ OwnFrames
=============================================================================
