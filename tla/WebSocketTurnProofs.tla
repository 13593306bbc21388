-------------------------- MODULE WebSocketTurnProofs --------------------------
(***************************************************************************)
(* Proofs about WebSocketTurn, for any accounts, kinds of requests and     *)
(* number of turns, with the HTTP fallback or without.  What upstream      *)
(* remembers on a socket is what the conversation holds whenever their     *)
(* generations agree, and the conversation is what the client has seen     *)
(* unless a fallback response could not be kept.  The tools and            *)
(* instructions it carries from turn to turn are those last set in the     *)
(* thread the client has seen.                                             *)
(*                                                                         *)
(* The second half is about ReplayHistory, which looks into the history    *)
(* that a turn replays: for any number of items, what goes upstream is the *)
(* client's thread, whatever the client repeats of it.                     *)
(***************************************************************************)
EXTENDS WebSocketTurn, ReplayHistory, SequenceTheorems, FiniteSetTheorems, WellFoundedInduction, TLAPS

Busy == phase \notin {"idle", "closed"}

\* There is one in these phases, whatever None may be.
HasSocket == sock # None \/ phase \in {"ready", "forward"}

Socket == [gen : Nat, account : Accounts, state : {"up", "broken", "done"},
           memory : Threads, jobs : Seq([turn : Turns, thread : Threads]),
           events : Seq(Frame)]

\* A thread never holds more turns than were begun, and one less while the
\* turn in hand has not been added.
LengthInv ==
  /\ Busy => turn \in Turns
  /\ Len(conv.thread) <= turn /\ Len(seen) <= turn
  /\ Busy => Len(conv.thread) < turn /\ Len(seen) < turn
  /\ HasSocket =>
       /\ Len(sock.memory) <= turn
       /\ \A i \in 1..Len(sock.jobs) : Len(sock.jobs[i].thread) <= turn
       /\ phase \in {"planned", "ready"} =>
            /\ Len(sock.memory) < turn
            /\ \A i \in 1..Len(sock.jobs) : Len(sock.jobs[i].thread) < turn

\* A request is submitted once on the way from "planned" to "forward" or
\* "answered", and over HTTP only without a socket.
TransportInv ==
  /\ submits = IF phase \in {"forward", "answered"} THEN 1 ELSE 0
  /\ phase \in {"fallback", "answered"} => sock = None

\* A new socket's generation is not the one the conversation remembers.
GenInv == conv.gen <= gens /\ (HasSocket => sock.gen \in 1..gens)

\* The conversation is what the client has in front of it.
KnownInv ==
  phase # "closed" /\ ~unkept =>
    /\ conv.thread = seen
    /\ conv.pending = owed
    /\ Busy => plan.answers = (plan.req.cont /\ owed)

\* Between turns nothing is outstanding, and upstream remembers the thread.
Quiet ==
  /\ sock.jobs = <<>>
  /\ sock.events = <<>>
  /\ conv.gen = sock.gen => sock.memory = conv.thread

QuietInv ==
  connected /\ HasSocket /\ phase \in {"idle", "planned", "ready"} => Quiet

\* During a turn all that is outstanding belongs to it, and a completed
\* response is the last of it.
Outstanding ==
  /\ sock.jobs \in {<<>>, <<[turn |-> turn, thread |-> Replay]>>}
  /\ sock.events # <<>> => Head(sock.events).turn = turn
  /\ sock.events # <<>> /\ Head(sock.events).kind = "completed" =>
       /\ sock.jobs = <<>>
       /\ Len(sock.events) = 1
       /\ sock.memory = Replay

AnswerInv ==
  /\ connected /\ phase = "forward" => sent.thread = Replay /\ Outstanding
  /\ phase = "answered" => sent.thread = Replay

IInv ==
  /\ TypeOK /\ LengthInv /\ TransportInv /\ OwnAccount /\ GenInv
  /\ KnownInv /\ QuietInv /\ AnswerInv

-----------------------------------------------------------------------------
LEMMA ThreadType ==
  ASSUME NEW s
  PROVE  s \in Threads <=> s \in Seq(Turns) /\ Len(s) <= MaxTurns
<1>1. ASSUME s \in Threads
      PROVE  s \in Seq(Turns) /\ Len(s) <= MaxTurns
  <2>1. PICK m \in 0..MaxTurns : s \in [1..m -> Turns]
    BY <1>1 DEF Threads, SeqOf
  <2>2. m \in Nat /\ m <= MaxTurns
    BY <2>1, ConstantsAssumption
  <2> QED
    BY <2>1, <2>2
<1>2. ASSUME s \in Seq(Turns), Len(s) <= MaxTurns
      PROVE  s \in Threads
  <2>1. Len(s) \in 0..MaxTurns /\ s \in [1..Len(s) -> Turns]
    BY <1>2, ConstantsAssumption
  <2> QED
    BY <2>1 DEF Threads, SeqOf
<1> QED
  BY <1>1, <1>2

LEMMA FirstTurn ==
  ASSUME NEW t \in Turns
  PROVE  <<t>> \in Threads /\ Len(<<t>>) = 1 /\ <<>> \in Threads
<1>1. 0 <= MaxTurns /\ 1 <= MaxTurns
  BY ConstantsAssumption
<1>2. <<t>> \in Seq(Turns) /\ <<>> \in Seq(Turns) /\ Len(<<t>>) = 1 /\ Len(<<>>) = 0
  OBVIOUS
<1>3. <<t>> \in Threads
  BY <1>1, <1>2, ThreadType, Zenon
<1>4. <<>> \in Threads
  BY <1>1, <1>2, ThreadType, Zenon
<1> QED
  BY <1>2, <1>3, <1>4

LEMMA OneMoreTurn ==
  ASSUME NEW s \in Threads, NEW t \in Turns, Len(s) < t
  PROVE  Append(s, t) \in Threads /\ Len(Append(s, t)) = Len(s) + 1
<1>1. s \in Seq(Turns) /\ Len(s) + 1 <= MaxTurns
  <2>1. s \in Seq(Turns)
    BY ThreadType
  <2> QED
    BY <2>1, ConstantsAssumption DEF Turns
<1>2. Append(s, t) \in Seq(Turns) /\ Len(Append(s, t)) = Len(s) + 1
  BY <1>1
<1>3. Len(Append(s, t)) <= MaxTurns
  BY <1>1, <1>2
<1> QED
  BY <1>2, <1>3, ThreadType, Zenon

LEMMA Queues ==
  ASSUME NEW S, NEW q \in Seq(S)
  PROVE  /\ Len(q) \in Nat
         /\ \A x \in S : /\ Append(q, x) \in Seq(S)
                         /\ Len(Append(q, x)) = Len(q) + 1
                         /\ Append(q, x)[Len(q) + 1] = x
                         /\ \A i \in 1..Len(q) : Append(q, x)[i] = q[i]
         /\ q # <<>> => /\ Head(q) = q[1] /\ Head(q) \in S /\ Len(q) >= 1
                        /\ Tail(q) \in Seq(S)
                        /\ Len(Tail(q)) = Len(q) - 1
                        /\ \A i \in 1..Len(Tail(q)) : Tail(q)[i] = q[i + 1]
OBVIOUS

LEMMA InitIInv == Init => IInv
<1> SUFFICES ASSUME Init PROVE IInv
  OBVIOUS
<1>1. <<>> \in Threads /\ Len(<<>>) = 0 /\ MaxTurns \in Nat
  <2>1. 1 \in Turns /\ MaxTurns \in Nat
    BY ConstantsAssumption DEF Turns
  <2> QED
    BY <2>1, FirstTurn
<1>2. TypeOK
  <2>1. said \in [Turns -> [tools : BOOLEAN, wording : Wording, echo : BOOLEAN]]
    BY DEF Init, Silent, Wording
  <2>2. conv \in Conversation
    BY <1>1 DEF Init, Conversation
  <2>3. turn \in 0..MaxTurns /\ submits \in 0..2 /\ gens \in Nat /\ seen \in Threads
    BY <1>1 DEF Init
  <2>4. cooldown \in BOOLEAN /\ connected \in BOOLEAN /\ owed \in BOOLEAN /\ unkept \in BOOLEAN
    BY DEF Init
  <2> QED
    BY <2>1, <2>2, <2>3, <2>4, Zenon DEF Init, TypeOK
<1>3. LengthInv
  BY <1>1 DEF Init, LengthInv, Busy, HasSocket
<1>4. TransportInv /\ OwnAccount /\ GenInv
  BY DEF Init, TransportInv, OwnAccount, GenInv, HasSocket
<1>5. KnownInv
  BY DEF Init, KnownInv, Busy
<1>6. QuietInv /\ AnswerInv
  BY DEF Init, QuietInv, HasSocket, AnswerInv
<1> QED
  BY <1>2, <1>3, <1>4, <1>5, <1>6 DEF IInv

-----------------------------------------------------------------------------
\* What a turn in hand sends is made of the turns begun so far.
LEMMA InHand ==
  ASSUME TypeOK, LengthInv, Busy
  PROVE  /\ turn \in Turns /\ plan \in Plan
         /\ Replay \in Threads /\ Len(Replay) <= turn
         /\ TurnTools \in 0..MaxTurns /\ TurnInstructions \in 0..MaxTurns
<1>1. turn \in Turns /\ plan \in Plan /\ plan.req \in Request
  BY DEF TypeOK, LengthInv, Busy, Plan
<1>2. conv.thread \in Threads /\ conv.tools \in 0..MaxTurns
      /\ conv.instructions \in 0..MaxTurns
  BY DEF TypeOK, Conversation
<1>3. turn \in 0..MaxTurns /\ 0 \in 0..MaxTurns /\ turn >= 1
  BY <1>1, ConstantsAssumption DEF Turns
<1>4. Replay \in Threads /\ Len(Replay) <= turn
  <2>1. <<turn>> \in Threads /\ Len(<<turn>>) = 1
    BY <1>1, FirstTurn
  <2>2. Len(conv.thread) < turn /\ Len(conv.thread) \in Nat
    BY <1>2, ThreadType DEF LengthInv
  <2>3. Append(conv.thread, turn) \in Threads
        /\ Len(Append(conv.thread, turn)) = Len(conv.thread) + 1
    BY <1>1, <1>2, <2>2, OneMoreTurn
  <2> QED
    BY <1>3, <2>1, <2>2, <2>3 DEF Replay
<1>5. TurnTools \in 0..MaxTurns
  BY <1>2, <1>3 DEF TurnTools
<1>6. TurnInstructions \in 0..MaxTurns
  BY <1>1, <1>2, <1>3 DEF TurnInstructions, Request, Wording
<1> QED
  BY <1>1, <1>4, <1>5, <1>6

LEMMA OnSocket ==
  ASSUME TypeOK, LengthInv, phase = "ready"
  PROVE  ThreadOnSocket \in Threads /\ Len(ThreadOnSocket) <= turn
<1>1. turn \in Turns /\ Replay \in Threads /\ Len(Replay) <= turn
  BY InHand DEF Busy
<1>2. sock.memory \in Threads
  BY DEF TypeOK
<1>3. Len(sock.memory) < turn /\ Len(sock.memory) \in Nat
  BY <1>2, ThreadType DEF LengthInv, HasSocket
<1>4. Append(sock.memory, turn) \in Threads
      /\ Len(Append(sock.memory, turn)) <= turn
  BY <1>1, <1>2, <1>3, OneMoreTurn DEF Turns
<1> QED
  BY <1>1, <1>4 DEF ThreadOnSocket

\* The step leaves the lengths alone, but for what it forgets.
LEMMA Returned ==
  ASSUME TypeOK, LengthInv, phase' \in {"idle", "closed"}, plan' = None,
         sent' = None, submits' = 0, UNCHANGED <<turn, connected>>
  PROVE  ~Busy' /\ turn' \in 0..MaxTurns /\ connected' \in BOOLEAN
BY DEF Busy, TypeOK

LEMMA BeginTyped ==
  ASSUME TypeOK, LengthInv, NEW req \in Requests, NEW a \in Accounts, BeginTurn(req, a)
  PROVE  TypeOK' /\ LengthInv'
<1>1. /\ turn \in 0..MaxTurns /\ turn < MaxTurns /\ turn' = turn + 1
      /\ req \in Request /\ MaxTurns \in Nat /\ phase = "idle" /\ phase' = "planned"
      /\ UNCHANGED <<sent, submits, connected, conv, sock, gens, cooldown, seen,
                     said, owed, unkept>>
  BY ConstantsAssumption DEF TypeOK, BeginTurn, session, history
<1>2. turn' \in Turns /\ turn' \in 0..MaxTurns
  BY <1>1 DEF Turns
<1>3. plan' \in Plan
  <2>1. plan' = [req |-> req, answers |-> req.cont /\ conv.pending, account |-> a]
    BY DEF BeginTurn
  <2>2. (req.cont /\ conv.pending) \in BOOLEAN
    OBVIOUS
  <2> QED
    BY <1>1, <2>1, <2>2 DEF Plan
<1>4. TypeOK'
  BY <1>1, <1>2, <1>3 DEF TypeOK
<1>5. LengthInv'
  <2>1. /\ Len(conv.thread) \in Nat /\ Len(seen) \in Nat
        /\ conv.thread \in Threads
    BY ThreadType DEF TypeOK, Conversation
  <2>2. HasSocket' => sock # None /\ HasSocket
    BY <1>1 DEF HasSocket
  <2>3. HasSocket => /\ Len(sock.memory) \in Nat
                     /\ \A i \in 1..Len(sock.jobs) : Len(sock.jobs[i].thread) \in Nat
    <3>1. HasSocket => sock \in Socket
      BY DEF HasSocket, TypeOK, Socket
    <3> QED
      BY <3>1, ThreadType DEF Socket
  <2> QED
    BY <1>1, <1>2, <2>1, <2>2, <2>3 DEF LengthInv, Busy
<1> QED
  BY <1>4, <1>5

LEMMA UpstreamTyped ==
  ASSUME TypeOK, LengthInv, ReuseUpstream \/ DialUpstream \/ NoUpstream
  PROVE  TypeOK' /\ LengthInv'
<1>1. /\ phase = "planned" /\ turn \in Turns /\ plan \in Plan
      /\ sent = None /\ submits \in 0..2
  <2>1. phase = "planned"
    BY DEF ReuseUpstream, DialUpstream, NoUpstream
  <2> QED
    BY <2>1, InHand DEF Busy, TypeOK
<1>2. CASE ReuseUpstream
  <2>1. /\ phase' = "ready" /\ sock # None
        /\ UNCHANGED <<connected, turn, plan, sent, submits, conv, sock, gens, cooldown,
                       seen, said, owed, unkept>>
    BY <1>2 DEF ReuseUpstream, Reusable, session, handled, history
  <2>2. TypeOK'
    BY <1>1, <2>1 DEF TypeOK
  <2>3. LengthInv'
    BY <1>1, <2>1 DEF LengthInv, HasSocket, Busy
  <2> QED
    BY <2>2, <2>3
<1>3. CASE DialUpstream
  <2>1. /\ phase' = "ready"
        /\ sock' = [gen |-> gens + 1, account |-> plan.account, state |-> "up",
                    memory |-> <<>>, jobs |-> <<>>, events |-> <<>>]
        /\ gens' = gens + 1 /\ cooldown' = FALSE
        /\ UNCHANGED <<connected, turn, plan, sent, submits, conv, seen, said, owed, unkept>>
    BY <1>3 DEF DialUpstream, handled, history
  <2>2. <<>> \in Threads /\ gens \in Nat
    BY <1>1, FirstTurn DEF TypeOK
  <2>3. sock' \in Socket
    BY <1>1, <2>1, <2>2 DEF Socket, Plan
  <2>4. TypeOK'
    BY <1>1, <2>1, <2>2, <2>3 DEF TypeOK, Socket
  <2>5. /\ Len(sock'.memory) = 0 /\ Len(sock'.jobs) = 0
        /\ turn >= 1 /\ \A i \in 1..Len(sock'.jobs) : FALSE
    BY <1>1, <2>1 DEF Turns
  <2>6. LengthInv'
    BY <1>1, <2>1, <2>5 DEF LengthInv, Busy, Turns
  <2> QED
    BY <2>4, <2>6
<1>4. CASE NoUpstream
  <2>1. /\ sock' = None /\ cooldown' \in BOOLEAN
        /\ UNCHANGED <<connected, turn, conv, gens, seen, said, owed, unkept>>
        /\ \/ phase' = "fallback" /\ UNCHANGED <<plan, sent, submits>>
           \/ phase' = "idle" /\ plan' = None /\ sent' = None /\ submits' = 0
    BY <1>4 DEF NoUpstream, ReturnTo, TypeOK, handled, history
  <2>2. TypeOK'
    BY <1>1, <2>1 DEF TypeOK
  <2>3. LengthInv'
    BY <1>1, <2>1 DEF LengthInv, HasSocket, Busy
  <2> QED
    BY <2>2, <2>3
<1> QED
  BY <1>2, <1>3, <1>4

\* What upstream does to a socket.
LEMMA FarEndTyped ==
  ASSUME TypeOK, LengthInv, Answer \/ Complain \/ Break
  PROVE  TypeOK' /\ LengthInv'
<1>1. /\ sock # None
      /\ UNCHANGED <<phase, connected, turn, plan, sent, submits, conv, gens, cooldown,
                     seen, said, owed, unkept>>
  BY DEF Answer, Complain, Break, handled, history
<1>2. /\ sock \in Socket /\ Len(sock.jobs) \in Nat /\ Len(sock.events) \in Nat
  BY <1>1 DEF TypeOK, Socket
<1> DEFINE Job == [turn : Turns, thread : Threads]
           Short(s, n) == /\ Len(s.memory) <= n
                          /\ \A i \in 1..Len(s.jobs) : Len(s.jobs[i].thread) <= n
<1>3. sock.jobs # <<>> =>
        /\ Head(sock.jobs) \in Job /\ Head(sock.jobs) = sock.jobs[1] /\ Len(sock.jobs) >= 1
        /\ Tail(sock.jobs) \in Seq(Job) /\ Len(Tail(sock.jobs)) = Len(sock.jobs) - 1
        /\ \A i \in 1..Len(Tail(sock.jobs)) : Tail(sock.jobs)[i] = sock.jobs[i + 1]
  <2>1. sock.jobs \in Seq(Job)
    BY <1>2 DEF Socket
  <2> QED
    BY <2>1, Queues
<1>4. \A f \in Frame : Append(sock.events, f) \in Seq(Frame)
  BY <1>2, Queues DEF Socket
<1>5. sock' \in Socket /\ \A n \in Nat : Short(sock, n) => Short(sock', n)
  <2>1. CASE Answer
    <3>1. [turn |-> Head(sock.jobs).turn, kind |-> "completed"] \in Frame
          /\ Head(sock.jobs).thread \in Threads
      BY <1>3, <2>1 DEF Answer, Frame
    <3>2. sock' \in Socket
      BY <1>2, <1>3, <1>4, <2>1, <3>1 DEF Answer, Socket
    <3>3. sock'.memory = sock.jobs[1].thread /\ sock'.jobs = Tail(sock.jobs)
      BY <1>2, <1>3, <2>1 DEF Answer, Socket
    <3>4. ASSUME NEW n \in Nat, Short(sock, n)
          PROVE  Short(sock', n)
      <4>1. 1 \in 1..Len(sock.jobs) /\ sock.jobs # <<>>
        BY <1>2, <1>3, <2>1 DEF Answer
      <4>2. ASSUME NEW i \in 1..Len(sock'.jobs)
            PROVE  i + 1 \in 1..Len(sock.jobs) /\ sock'.jobs[i] = sock.jobs[i + 1]
        BY <1>2, <1>3, <3>3, <4>1
      <4> QED
        BY <3>3, <3>4, <4>1, <4>2
    <3> QED
      BY <3>2, <3>4
  <2>2. CASE Complain
    <3>1. [turn |-> Head(sock.jobs).turn, kind |-> "error"] \in Frame
      BY <1>3, <2>2 DEF Complain, Frame
    <3>2. PICK rest \in {sock.jobs, Tail(sock.jobs)} :
            sock' = [sock EXCEPT
              !.jobs = rest,
              !.events = Append(@, [turn |-> Head(sock.jobs).turn, kind |-> "error"])]
      BY <2>2 DEF Complain
    <3>3. rest \in Seq(Job)
      BY <1>2, <1>3, <2>2 DEF Complain, Socket
    <3>4. sock' \in Socket /\ sock'.memory = sock.memory /\ sock'.jobs = rest
      BY <1>2, <1>4, <3>1, <3>2, <3>3 DEF Socket
    <3>5. ASSUME NEW i \in 1..Len(sock'.jobs)
          PROVE  \E j \in 1..Len(sock.jobs) : sock'.jobs[i] = sock.jobs[j]
      <4>1. CASE rest = sock.jobs
        BY <3>4, <4>1
      <4>2. CASE rest = Tail(sock.jobs)
        <5>1. i + 1 \in 1..Len(sock.jobs) /\ sock'.jobs[i] = sock.jobs[i + 1]
          BY <1>2, <1>3, <2>2, <3>4, <4>2 DEF Complain
        <5> QED
          BY <5>1
      <4> QED
        BY <3>2, <4>1, <4>2
    <3> QED
      BY <3>4, <3>5
  <2>3. CASE Break
    <3>1. sock' \in Socket /\ sock'.memory = sock.memory /\ sock'.jobs \in {<<>>, sock.jobs}
      <4>1. CASE sock' = [sock EXCEPT !.state = "broken", !.jobs = <<>>]
        <5>1. sock'.memory = sock.memory /\ sock'.jobs = <<>>
          BY <1>2, <4>1 DEF Socket
        <5>2. <<>> \in Seq([turn : Turns, thread : Threads])
          OBVIOUS
        <5>3. sock' \in Socket
          BY <1>2, <4>1, <5>2 DEF Socket
        <5> QED
          BY <5>1, <5>3
      <4>2. CASE sock' = [sock EXCEPT !.state = "done"]
        BY <1>2, <4>2 DEF Socket
      <4> QED
        BY <2>3, <4>1, <4>2 DEF Break
    <3>2. ASSUME NEW i \in 1..Len(sock'.jobs)
          PROVE  i \in 1..Len(sock.jobs) /\ sock'.jobs[i] = sock.jobs[i]
      <4>1. CASE sock'.jobs = <<>>
        BY <4>1
      <4> QED
        BY <3>1, <4>1
    <3> QED
      BY <3>1, <3>2
  <2> QED
    BY <2>1, <2>2, <2>3
<1> HIDE DEF Job
<1>6. TypeOK'
  BY <1>1, <1>5 DEF TypeOK, Socket
<1>7. LengthInv'
  <2>1. HasSocket /\ turn \in Nat /\ turn - 1 \in Int
    BY <1>1 DEF HasSocket, TypeOK
  <2>2. Short(sock', turn)
    BY <1>5, <2>1 DEF LengthInv
  <2>3. phase \in {"planned", "ready"} => /\ Len(sock'.memory) < turn
                   /\ \A i \in 1..Len(sock'.jobs) : Len(sock'.jobs[i].thread) < turn
    <3> SUFFICES ASSUME phase \in {"planned", "ready"}
                 PROVE  /\ Len(sock'.memory) < turn
                        /\ \A i \in 1..Len(sock'.jobs) : Len(sock'.jobs[i].thread) < turn
      OBVIOUS
    <3>1. turn \in Turns /\ turn - 1 \in Nat
      BY InHand DEF Busy, Turns
    <3>2. \A s \in Socket : Len(s.memory) \in Nat
            /\ \A i \in 1..Len(s.jobs) : Len(s.jobs[i].thread) \in Nat
      BY ThreadType DEF Socket
    <3>3. Short(sock, turn - 1)
      BY <1>2, <2>1, <3>1, <3>2 DEF LengthInv
    <3>4. Short(sock', turn - 1)
      BY <1>5, <3>1, <3>3
    <3>5. /\ Len(sock'.memory) \in Nat
          /\ \A i \in 1..Len(sock'.jobs) : Len(sock'.jobs[i].thread) \in Nat
      BY <1>5, <3>2
    <3>6. turn \in Nat /\ \A n \in Nat : n <= turn - 1 => n < turn
      BY <3>1 DEF Turns
    <3> QED
      BY <3>4, <3>5, <3>6
  <2> QED
    BY <1>1, <2>1, <2>2, <2>3 DEF LengthInv, Busy
<1> QED
  BY <1>6, <1>7

LEMMA SubmitTyped ==
  ASSUME TypeOK, LengthInv, TransportInv, Submit \/ SubmitHTTP
  PROVE  TypeOK' /\ LengthInv'
<1>1. /\ Busy /\ UNCHANGED <<turn, plan, connected, seen, said, owed, unkept, conv, gens,
                             cooldown>>
      /\ submits' \in 0..2
  BY DEF Submit, SubmitHTTP, Record, Busy, TransportInv, history, session
<1>2. /\ turn \in Turns /\ plan \in Plan /\ Replay \in Threads
      /\ TurnTools \in 0..MaxTurns /\ TurnInstructions \in 0..MaxTurns
  BY <1>1, InHand
<1>3. CASE Submit
  <2>1. /\ phase = "ready" /\ phase' = "forward"
        /\ sent' = [thread |-> ThreadOnSocket, tools |-> TurnTools,
                    instructions |-> TurnInstructions]
        /\ sock' = IF sock.state = "up" THEN Queued ELSE sock
    BY <1>3 DEF Submit, Record
  <2>2. ThreadOnSocket \in Threads /\ Len(ThreadOnSocket) <= turn
    BY <2>1, OnSocket
  <2>3. sent' \in Submission
    BY <1>2, <2>1, <2>2 DEF Submission
  <2> DEFINE Job == [turn : Turns, thread : Threads]
             job == [turn |-> turn, thread |-> ThreadOnSocket]
  <2>4. sock \in Socket /\ sock.jobs \in Seq(Job) /\ job \in Job
    BY <1>2, <2>1, <2>2 DEF TypeOK, Socket
  <2>5. Queued = [sock EXCEPT !.jobs = Append(sock.jobs, job)]
    BY DEF Queued
  <2>6. /\ Len(sock.jobs) \in Nat
        /\ Append(sock.jobs, job) \in Seq(Job)
        /\ Len(Append(sock.jobs, job)) = Len(sock.jobs) + 1
        /\ \A i \in 1..Len(sock.jobs) : Append(sock.jobs, job)[i] = sock.jobs[i]
        /\ Append(sock.jobs, job)[Len(sock.jobs) + 1] = job
    <3> HIDE DEF job, Job
    <3> QED
      BY <2>4, Queues
  <2>7. \A i \in 1..Len(Append(sock.jobs, job)) :
          Len(Append(sock.jobs, job)[i].thread) <= turn
    <3>1. \A i \in 1..Len(sock.jobs) : Len(sock.jobs[i].thread) <= turn
      BY <2>1 DEF LengthInv, HasSocket
    <3>2. job.thread = ThreadOnSocket
      OBVIOUS
    <3> HIDE DEF job, Job
    <3>3. ASSUME NEW i \in 1..Len(Append(sock.jobs, job))
          PROVE  i \in 1..Len(sock.jobs) \/ i = Len(sock.jobs) + 1
      BY <2>6
    <3> QED
      BY <2>2, <2>6, <3>1, <3>2, <3>3
  <2>8. /\ sock' \in Socket /\ sock'.memory = sock.memory
        /\ sock'.jobs \in {sock.jobs, Append(sock.jobs, job)}
    <3> HIDE DEF job
    <3>1. Queued \in Socket /\ Queued.memory = sock.memory
          /\ Queued.jobs = Append(sock.jobs, job)
      BY <2>4, <2>5, <2>6 DEF Socket
    <3> QED
      BY <2>1, <2>4, <3>1
  <2>9. TypeOK'
    BY <1>1, <2>1, <2>3, <2>8 DEF TypeOK, Socket
  <2>10. LengthInv'
    <3>1. HasSocket
      BY <2>1 DEF HasSocket
    <3>2. Len(sock'.memory) <= turn
          /\ \A i \in 1..Len(sock'.jobs) : Len(sock'.jobs[i].thread) <= turn
      BY <2>7, <2>8, <3>1 DEF LengthInv
    <3> QED
      BY <1>1, <2>1, <3>2 DEF LengthInv, Busy
  <2> QED
    BY <2>9, <2>10
<1>4. CASE SubmitHTTP
  <2>1. /\ phase = "fallback" /\ phase' = "answered" /\ UNCHANGED sock
        /\ sent' = [thread |-> Replay, tools |-> TurnTools,
                    instructions |-> TurnInstructions]
    BY <1>4 DEF SubmitHTTP, Record, session
  <2>2. sent' \in Submission
    BY <1>2, <2>1 DEF Submission
  <2>3. TypeOK'
    BY <1>1, <2>1, <2>2 DEF TypeOK
  <2>4. LengthInv'
    BY <1>1, <2>1 DEF LengthInv, HasSocket, Busy
  <2> QED
    BY <2>3, <2>4
<1> QED
  BY <1>3, <1>4

\* A turn or the session ends, or the client leaves, and nothing was shown.
LEMMA EndTyped ==
  ASSUME TypeOK, LengthInv,
         \/ NoCredential \/ CooldownEnds \/ SubmitFails \/ ForwardError
         \/ ForwardFatal \/ Abandon \/ FallbackFails \/ ClientLeaves \/ EndSession
  PROVE  TypeOK' /\ LengthInv'
<1>1. /\ UNCHANGED <<turn, conv, gens, seen, said, owed, unkept>>
      /\ sock' \in {None, sock} /\ cooldown' \in BOOLEAN /\ connected' \in BOOLEAN
      /\ \/ UNCHANGED <<phase, plan, sent, submits>>
              /\ (sock' = sock \/ phase = "idle")
         \/ phase' \in {"idle", "closed"} /\ plan' = None /\ sent' = None /\ submits' = 0
  BY DEF NoCredential, CooldownEnds, SubmitFails, ForwardError, ForwardFatal,
     Abandon, FallbackFails, ClientLeaves, EndSession, ReturnTo, TypeOK,
     session, handled, history
<1>2. TypeOK'
  BY <1>1 DEF TypeOK
<1>3. LengthInv'
  BY <1>1 DEF LengthInv, HasSocket, Busy
<1> QED
  BY <1>2, <1>3

\* The client sees one more turn, and the conversation may take it in.
LEMMA ShownTyped ==
  ASSUME TypeOK, LengthInv, Busy, NEW calls \in BOOLEAN, NEW echo \in BOOLEAN,
         Shown(calls, echo), UNCHANGED turn
  PROVE  /\ seen' \in Threads /\ Len(seen') <= turn
         /\ said' \in [Turns -> [tools : BOOLEAN, wording : Wording, echo : BOOLEAN]]
         /\ owed' \in BOOLEAN
<1>1. turn \in Turns /\ plan \in Plan /\ plan.req \in Request
  BY InHand DEF Plan
<1>2. seen \in Threads /\ Len(seen) < turn /\ Len(seen) \in Nat
  BY ThreadType DEF TypeOK, LengthInv
<1>3. /\ Append(seen, turn) \in Threads /\ Len(Append(seen, turn)) = Len(seen) + 1
      /\ <<turn>> \in Threads /\ Len(<<turn>>) = 1
  BY <1>1, <1>2, OneMoreTurn, FirstTurn
<1>4. seen' \in Threads /\ Len(seen') <= turn
  BY <1>1, <1>2, <1>3 DEF Shown, Turns
<1>5. \A t \in Turns : (IF t = turn THEN SaidNow(echo)
                        ELSE IF plan.req.cont THEN said[t] ELSE Silent)
                       \in [tools : BOOLEAN, wording : Wording, echo : BOOLEAN]
  BY <1>1 DEF SaidNow, Silent, Request, TypeOK, Wording
<1> QED
  BY <1>4, <1>5 DEF Shown

LEMMA CommittedTyped ==
  ASSUME TypeOK, LengthInv, Busy, NEW gen \in Nat,
         NEW calls \in BOOLEAN, NEW echo \in BOOLEAN
  PROVE  Committed(gen, calls, echo) \in Conversation
<1>1. /\ turn \in 0..MaxTurns /\ Replay \in Threads
      /\ TurnTools \in 0..MaxTurns /\ TurnInstructions \in 0..MaxTurns
  BY InHand DEF TypeOK
<1> QED
  BY <1>1 DEF Committed, Conversation

LEMMA CompletedTyped ==
  ASSUME TypeOK, LengthInv, NEW calls \in BOOLEAN, NEW echo \in BOOLEAN,
         ForwardCompleted(calls, echo) \/ FallbackCompleted(calls, echo)
  PROVE  TypeOK' /\ LengthInv'
<1>1. /\ Busy /\ Shown(calls, echo) /\ phase' \in {"idle", "closed"}
      /\ plan' = None /\ sent' = None /\ submits' = 0
      /\ UNCHANGED <<turn, connected, gens, cooldown>>
  BY DEF ForwardCompleted, FallbackCompleted, ReturnTo, Busy
<1>2. /\ turn \in Turns /\ Len(Replay) <= turn /\ plan.req.cont \in BOOLEAN
  BY <1>1, InHand DEF Plan, Request
<1>3. /\ seen' \in Threads /\ Len(seen') <= turn
      /\ said' \in [Turns -> [tools : BOOLEAN, wording : Wording, echo : BOOLEAN]]
      /\ owed' \in BOOLEAN
  BY <1>1, ShownTyped
<1>4. /\ conv' \in Conversation /\ Len(conv'.thread) <= turn /\ unkept' \in BOOLEAN
  <2>1. Len(conv.thread) <= turn /\ conv \in Conversation /\ unkept \in BOOLEAN
    BY DEF LengthInv, TypeOK
  <2>2. CASE ForwardCompleted(calls, echo)
    <3>1. sock.gen \in Nat
      BY <2>2 DEF ForwardCompleted, TypeOK
    <3>2. Committed(sock.gen, calls, echo) \in Conversation
          /\ Committed(sock.gen, calls, echo).thread = Replay
      BY <1>1, <3>1, CommittedTyped DEF Committed
    <3> QED
      BY <1>2, <2>1, <2>2, <3>2 DEF ForwardCompleted
  <2>3. CASE FallbackCompleted(calls, echo)
    <3>1. Committed(0, calls, echo) \in Conversation
          /\ Committed(0, calls, echo).thread = Replay
      BY <1>1, CommittedTyped DEF Committed
    <3> QED
      BY <1>2, <2>1, <2>3, <3>1 DEF FallbackCompleted
  <2> QED
    BY <2>2, <2>3
<1>5. /\ sock' = None \/ sock' \in Socket
      /\ sock' # None => HasSocket /\ sock'.memory = sock.memory /\ sock'.jobs = sock.jobs
  <2>1. CASE ForwardCompleted(calls, echo)
    <3>1. sock \in Socket /\ sock.events # <<>> /\ phase = "forward"
      BY <2>1 DEF ForwardCompleted, TypeOK, Socket
    <3>2. Tail(sock.events) \in Seq(Frame)
      BY <3>1, Queues DEF Socket
    <3>3. /\ [sock EXCEPT !.events = Tail(@)] \in Socket
          /\ [sock EXCEPT !.events = Tail(@)].memory = sock.memory
          /\ [sock EXCEPT !.events = Tail(@)].jobs = sock.jobs
      BY <3>1, <3>2 DEF Socket
    <3> QED
      BY <2>1, <3>1, <3>3 DEF ForwardCompleted, HasSocket
  <2>2. CASE FallbackCompleted(calls, echo)
    <3>1. sock' = sock /\ phase = "answered"
      BY <2>2 DEF FallbackCompleted
    <3> QED
      BY <3>1 DEF HasSocket, TypeOK, Socket
  <2> QED
    BY <2>1, <2>2
<1>6. TypeOK'
  BY <1>1, <1>3, <1>4, <1>5 DEF TypeOK, Socket
<1>7. LengthInv'
  BY <1>1, <1>3, <1>4, <1>5 DEF LengthInv, HasSocket, Busy
<1> QED
  BY <1>6, <1>7

LEMMA TypedStep ==
  IInv /\ [Next]_vars => (TypeOK /\ LengthInv)'
<1> SUFFICES ASSUME TypeOK, LengthInv, TransportInv, [Next]_vars
             PROVE  TypeOK' /\ LengthInv'
  BY DEF IInv
<1>1. CASE \E req \in Requests, a \in Accounts : BeginTurn(req, a)
  BY <1>1, BeginTyped
<1>2. CASE ReuseUpstream \/ DialUpstream \/ NoUpstream
  BY <1>2, UpstreamTyped
<1>3. CASE Answer \/ Complain \/ Break
  BY <1>3, FarEndTyped
<1>4. CASE Submit \/ SubmitHTTP
  BY <1>4, SubmitTyped
<1>5. CASE \/ NoCredential \/ CooldownEnds \/ SubmitFails \/ ForwardError
           \/ ForwardFatal \/ Abandon \/ FallbackFails \/ ClientLeaves \/ EndSession
  BY <1>5, EndTyped
<1>6. CASE \E calls, echo \in BOOLEAN :
             ForwardCompleted(calls, echo) \/ FallbackCompleted(calls, echo)
  BY <1>6, CompletedTyped
<1>7. CASE UNCHANGED vars
  BY <1>7 DEF vars, session, handled, history, TypeOK, LengthInv, HasSocket, Busy
<1> QED
  BY <1>1, <1>2, <1>3, <1>4, <1>5, <1>6, <1>7 DEF Next

\* A submitted turn ends or fails; it never goes back to where it would be
\* submitted again.
LEMMA TransportStep ==
  IInv /\ [Next]_vars => TransportInv'
<1> SUFFICES ASSUME TypeOK, TransportInv, [Next]_vars
             PROVE  TransportInv'
  BY DEF IInv
<1>1. CASE \E req \in Requests, a \in Accounts : BeginTurn(req, a)
  BY <1>1 DEF TransportInv, session, handled, history, BeginTurn
<1>2. CASE ReuseUpstream
  BY <1>2 DEF TransportInv, session, handled, history, ReuseUpstream, Reusable
<1>3. CASE DialUpstream
  BY <1>3 DEF TransportInv, session, handled, history, DialUpstream
<1>4. CASE NoUpstream
  BY <1>4 DEF TransportInv, session, handled, history, NoUpstream, ReturnTo
<1>5. CASE Submit
  BY <1>5 DEF TransportInv, session, handled, history, Submit, Record, Queued
<1>6. CASE SubmitHTTP
  BY <1>6 DEF TransportInv, session, handled, history, SubmitHTTP, Record
<1>7. CASE Answer \/ Complain \/ Break
  BY <1>7 DEF TransportInv, session, handled, history, Answer, Complain, Break
<1>8. CASE \/ NoCredential \/ CooldownEnds \/ SubmitFails \/ ForwardError
           \/ ForwardFatal \/ Abandon \/ FallbackFails \/ ClientLeaves \/ EndSession
  BY <1>8 DEF TransportInv, session, handled, history, NoCredential,
     CooldownEnds, SubmitFails, ForwardError,
     ForwardFatal, Abandon, FallbackFails, ClientLeaves, EndSession, ReturnTo
<1>9. CASE \E calls, echo \in BOOLEAN : ForwardCompleted(calls, echo)
  BY <1>9 DEF TransportInv, session, handled, history, ForwardCompleted,
     ReturnTo, Shown, Committed
<1>10. CASE \E calls, echo \in BOOLEAN : FallbackCompleted(calls, echo)
  BY <1>10 DEF TransportInv, session, handled, history, FallbackCompleted,
     ReturnTo, Shown, Committed
<1>11. CASE UNCHANGED vars
  BY <1>11 DEF TransportInv, session, handled, history, vars
<1> QED
  BY <1>1, <1>2, <1>3, <1>4, <1>5, <1>6, <1>7, <1>8, <1>9, <1>10, <1>11 DEF Next

\* Only a socket of the plan's account is reused, and a dial takes that account.
LEMMA AccountStep ==
  IInv /\ [Next]_vars => OwnAccount'
<1> SUFFICES ASSUME TypeOK, OwnAccount, [Next]_vars
             PROVE  OwnAccount'
  BY DEF IInv
<1>1. CASE \E req \in Requests, a \in Accounts : BeginTurn(req, a)
  BY <1>1 DEF TypeOK, OwnAccount, session, handled, history, BeginTurn
<1>2. CASE ReuseUpstream
  BY <1>2 DEF TypeOK, OwnAccount, session, handled, history, ReuseUpstream, Reusable
<1>3. CASE DialUpstream
  BY <1>3 DEF TypeOK, OwnAccount, session, handled, history, DialUpstream
<1>4. CASE NoUpstream
  BY <1>4 DEF TypeOK, OwnAccount, session, handled, history, NoUpstream, ReturnTo
<1>5. CASE Submit
  BY <1>5 DEF TypeOK, OwnAccount, session, handled, history, Submit, Record, Queued
<1>6. CASE SubmitHTTP
  BY <1>6 DEF TypeOK, OwnAccount, session, handled, history, SubmitHTTP, Record
<1>7. CASE Answer \/ Complain \/ Break
  BY <1>7 DEF TypeOK, OwnAccount, session, handled, history, Answer, Complain, Break
<1>8. CASE \/ NoCredential \/ CooldownEnds \/ SubmitFails \/ ForwardError
           \/ ForwardFatal \/ Abandon \/ FallbackFails \/ ClientLeaves \/ EndSession
  BY <1>8 DEF TypeOK, OwnAccount, session, handled, history, NoCredential,
     CooldownEnds, SubmitFails, ForwardError,
     ForwardFatal, Abandon, FallbackFails, ClientLeaves, EndSession, ReturnTo
<1>9. CASE \E calls, echo \in BOOLEAN : ForwardCompleted(calls, echo)
  BY <1>9 DEF TypeOK, OwnAccount, session, handled, history, ForwardCompleted,
     ReturnTo, Shown, Committed
<1>10. CASE \E calls, echo \in BOOLEAN : FallbackCompleted(calls, echo)
  BY <1>10 DEF TypeOK, OwnAccount, session, handled, history, FallbackCompleted,
     ReturnTo, Shown, Committed
<1>11. CASE UNCHANGED vars
  BY <1>11 DEF TypeOK, OwnAccount, session, handled, history, vars
<1> QED
  BY <1>1, <1>2, <1>3, <1>4, <1>5, <1>6, <1>7, <1>8, <1>9, <1>10, <1>11 DEF Next

LEMMA GenStep ==
  IInv /\ [Next]_vars => GenInv'
<1> SUFFICES ASSUME TypeOK, GenInv, [Next]_vars
             PROVE  GenInv'
  BY DEF IInv
<1>1. CASE \E req \in Requests, a \in Accounts : BeginTurn(req, a)
  BY <1>1 DEF TypeOK, Conversation, GenInv, HasSocket, session, handled, history,
     BeginTurn
<1>2. CASE ReuseUpstream
  BY <1>2 DEF TypeOK, Conversation, GenInv, HasSocket, session, handled, history,
     ReuseUpstream, Reusable
<1>3. CASE DialUpstream
  BY <1>3 DEF TypeOK, Conversation, GenInv, HasSocket, session, handled, history,
     DialUpstream
<1>4. CASE NoUpstream
  BY <1>4 DEF TypeOK, Conversation, GenInv, HasSocket, session, handled, history,
     NoUpstream, ReturnTo
<1>5. CASE Submit
  BY <1>5 DEF TypeOK, Conversation, GenInv, HasSocket, session, handled, history,
     Submit, Record, Queued
<1>6. CASE SubmitHTTP
  BY <1>6 DEF TypeOK, Conversation, GenInv, HasSocket, session, handled, history,
     SubmitHTTP, Record
<1>7. CASE Answer \/ Complain \/ Break
  BY <1>7 DEF TypeOK, Conversation, GenInv, HasSocket, session, handled, history,
     Answer, Complain, Break
<1>8. CASE \/ NoCredential \/ CooldownEnds \/ SubmitFails \/ ForwardError
           \/ ForwardFatal \/ Abandon \/ FallbackFails \/ ClientLeaves \/ EndSession
  BY <1>8 DEF TypeOK, Conversation, GenInv, HasSocket, session, handled, history,
     NoCredential, CooldownEnds, SubmitFails, ForwardError,
     ForwardFatal, Abandon, FallbackFails, ClientLeaves, EndSession, ReturnTo
<1>9. CASE \E calls, echo \in BOOLEAN : ForwardCompleted(calls, echo)
  BY <1>9 DEF TypeOK, Conversation, GenInv, HasSocket, session, handled, history,
     ForwardCompleted, ReturnTo, Shown, Committed
<1>10. CASE \E calls, echo \in BOOLEAN : FallbackCompleted(calls, echo)
  BY <1>10 DEF TypeOK, Conversation, GenInv, HasSocket, session, handled,
     history, FallbackCompleted, ReturnTo, Shown, Committed
<1>11. CASE UNCHANGED vars
  BY <1>11 DEF TypeOK, Conversation, GenInv, HasSocket, session, handled,
     history, vars
<1> QED
  BY <1>1, <1>2, <1>3, <1>4, <1>5, <1>6, <1>7, <1>8, <1>9, <1>10, <1>11 DEF Next

\* What the client sees complete, the conversation takes in, unless it ends or is
\* marked.
LEMMA KnownStep ==
  IInv /\ [Next]_vars => KnownInv'
<1> SUFFICES ASSUME TypeOK, KnownInv, [Next]_vars
             PROVE  KnownInv'
  BY DEF IInv
<1>1. CASE \E req \in Requests, a \in Accounts : BeginTurn(req, a)
  BY <1>1 DEF TypeOK, KnownInv, Busy, Replay, session, handled, history, BeginTurn
<1>2. CASE ReuseUpstream
  BY <1>2 DEF TypeOK, KnownInv, Busy, Replay, session, handled, history,
     ReuseUpstream, Reusable
<1>3. CASE DialUpstream
  BY <1>3 DEF TypeOK, KnownInv, Busy, Replay, session, handled, history,
     DialUpstream
<1>4. CASE NoUpstream
  BY <1>4 DEF TypeOK, KnownInv, Busy, Replay, session, handled, history,
     NoUpstream, ReturnTo
<1>5. CASE Submit
  BY <1>5 DEF TypeOK, KnownInv, Busy, Replay, session, handled, history, Submit,
     Record, Queued
<1>6. CASE SubmitHTTP
  BY <1>6 DEF TypeOK, KnownInv, Busy, Replay, session, handled, history,
     SubmitHTTP, Record
<1>7. CASE Answer \/ Complain \/ Break
  BY <1>7 DEF TypeOK, KnownInv, Busy, Replay, session, handled, history, Answer,
     Complain, Break
<1>8. CASE \/ NoCredential \/ CooldownEnds \/ SubmitFails \/ ForwardError
           \/ ForwardFatal \/ Abandon \/ FallbackFails \/ ClientLeaves \/ EndSession
  BY <1>8 DEF TypeOK, KnownInv, Busy, Replay, session, handled, history,
     NoCredential, CooldownEnds, SubmitFails, ForwardError,
     ForwardFatal, Abandon, FallbackFails, ClientLeaves, EndSession, ReturnTo
<1>9. ASSUME NEW calls \in BOOLEAN, NEW echo \in BOOLEAN,
             ForwardCompleted(calls, echo) \/ FallbackCompleted(calls, echo)
      PROVE  KnownInv'
  <2>1. /\ phase \in {"forward", "answered"} /\ phase' \in {"idle", "closed"}
        /\ owed' = calls /\ UNCHANGED turn
        /\ seen' = IF plan.req.cont THEN Append(seen, turn) ELSE <<turn>>
    BY <1>9 DEF ForwardCompleted, FallbackCompleted, Shown, ReturnTo
  <2>2. CASE \E gen \in {0, sock.gen} : conv' = Committed(gen, calls, echo)
             /\ unkept' = (unkept /\ plan.req.cont)
    <3>1. conv'.thread = Replay /\ conv'.pending = calls
      BY <2>2 DEF Committed
    <3>2. ~unkept' => ~unkept \/ ~plan.req.cont
      BY <2>2
    <3>3. ~unkept => conv.thread = seen
      BY <2>1 DEF KnownInv
    <3>4. ~unkept' => conv'.thread = seen'
      BY <2>1, <3>1, <3>2, <3>3 DEF Replay
    <3> QED
      BY <2>1, <3>1, <3>4 DEF KnownInv, Busy
  <2>3. CASE phase' = "closed" \/ unkept'
    BY <2>3 DEF KnownInv
  <2> QED
    BY <1>9, <2>2, <2>3 DEF ForwardCompleted, FallbackCompleted, ReturnTo
<1>10. CASE UNCHANGED vars
  BY <1>10 DEF TypeOK, KnownInv, Busy, Replay, session, handled, history, vars
<1> QED
  BY <1>1, <1>2, <1>3, <1>4, <1>5, <1>6, <1>7, <1>8, <1>9, <1>10 DEF Next

\* A socket that is kept between turns has nothing left on it: a turn that ends
\* in another way than with its completed response gives the socket up.
LEMMA QuietStep ==
  IInv /\ [Next]_vars => QuietInv'
<1> SUFFICES ASSUME TypeOK, TransportInv, GenInv, QuietInv, AnswerInv, [Next]_vars,
                    connected', HasSocket', phase' \in {"idle", "planned", "ready"}
             PROVE  Quiet'
  BY DEF IInv, QuietInv
<1> USE DEF session, handled, history
<1>1. CASE \E req \in Requests, a \in Accounts : BeginTurn(req, a)
  BY <1>1 DEF QuietInv, Quiet, HasSocket, BeginTurn
<1>2. CASE ReuseUpstream
  BY <1>2 DEF QuietInv, Quiet, HasSocket, ReuseUpstream, Reusable
<1>3. CASE DialUpstream
  <2>1. conv' = conv /\ conv.gen \in Nat /\ gens \in Nat /\ conv.gen <= gens
    BY <1>3 DEF DialUpstream, TypeOK, Conversation, GenInv
  <2>2. sock'.gen = gens + 1 /\ sock'.jobs = <<>> /\ sock'.events = <<>>
    BY <1>3 DEF DialUpstream
  <2> QED
    BY <2>1, <2>2 DEF Quiet
<1>4. CASE NoUpstream
  BY <1>4 DEF HasSocket, NoUpstream, ReturnTo
<1>5. CASE Submit \/ SubmitHTTP
  BY <1>5 DEF Submit, SubmitHTTP
<1>6. CASE Answer \/ Complain \/ Break
  <2>1. /\ sock # None /\ UNCHANGED <<phase, connected, conv>>
    BY <1>6 DEF Answer, Complain, Break
  <2>2. Quiet /\ sock \in Socket
    BY <2>1 DEF QuietInv, HasSocket, TypeOK, Socket
  <2>3. CASE Answer \/ Complain
    BY <2>2, <2>3 DEF Quiet, Answer, Complain
  <2>4. CASE Break
    <3>1. sock'.jobs = <<>> /\ sock'.events = sock.events /\ sock'.gen = sock.gen
          /\ sock'.memory = sock.memory
      BY <2>2, <2>4 DEF Quiet, Break, Socket
    <3> QED
      BY <2>1, <2>2, <3>1 DEF Quiet
  <2> QED
    BY <1>6, <2>3, <2>4
<1>7. CASE \/ NoCredential \/ SubmitFails \/ ForwardError \/ ForwardFatal
           \/ EndSession
  BY <1>7 DEF HasSocket, NoCredential, SubmitFails, ForwardError, ForwardFatal,
     EndSession, ReturnTo
<1>8. CASE CooldownEnds
  BY <1>8 DEF QuietInv, Quiet, HasSocket, CooldownEnds
<1>9. CASE Abandon \/ FallbackFails \/ ClientLeaves
  BY <1>9 DEF HasSocket, TransportInv, Abandon, FallbackFails, ClientLeaves,
     ReturnTo
<1>10. ASSUME NEW calls \in BOOLEAN, NEW echo \in BOOLEAN, ForwardCompleted(calls, echo)
       PROVE  Quiet'
  <2>1. /\ phase = "forward" /\ connected /\ sock.events # <<>>
        /\ Head(sock.events).kind = "completed" /\ phase' \in {"idle", "closed"}
    BY <1>10 DEF ForwardCompleted, ReturnTo
  <2>2. /\ sock \in Socket /\ sock.jobs = <<>> /\ Len(sock.events) = 1
        /\ sock.memory = Replay
    BY <2>1 DEF AnswerInv, Outstanding, TypeOK, Socket
  <2>3. /\ conv' = Committed(sock.gen, calls, echo)
        /\ sock' = [sock EXCEPT !.events = Tail(@)]
    BY <1>10, <2>1 DEF ForwardCompleted, ReturnTo, HasSocket
  <2>4. Tail(sock.events) = <<>>
    <3>1. Tail(sock.events) \in Seq(Frame) /\ Len(Tail(sock.events)) = 0
      BY <2>1, <2>2, Queues DEF Socket
    <3> QED
      BY <3>1, EmptySeq
  <2>5. sock'.jobs = <<>> /\ sock'.events = <<>> /\ sock'.memory = Replay
    BY <2>2, <2>3, <2>4 DEF Socket
  <2>6. conv'.thread = Replay
    BY <2>3 DEF Committed
  <2> QED
    BY <2>5, <2>6 DEF Quiet
<1>11. CASE \E calls, echo \in BOOLEAN : FallbackCompleted(calls, echo)
  BY <1>11 DEF HasSocket, TransportInv, FallbackCompleted, ReturnTo
<1>12. CASE UNCHANGED vars
  BY <1>12 DEF QuietInv, Quiet, HasSocket, vars
<1> QED
  BY <1>1, <1>2, <1>3, <1>4, <1>5, <1>6, <1>7, <1>8, <1>9, <1>10, <1>11, <1>12
     DEF Next

\* What upstream sends during a turn answers what the turn submitted, and that
\* was the whole thread: the increment on the socket that remembers the rest.
LEMMA AnswerStep ==
  IInv /\ [Next]_vars => AnswerInv'
<1> SUFFICES ASSUME TypeOK, TransportInv, QuietInv, AnswerInv, [Next]_vars
             PROVE  AnswerInv'
  BY DEF IInv
<1> USE DEF session, handled, history
<1>1. CASE Submit
  <2>1. /\ phase = "ready" /\ phase' = "forward" /\ sock \in Socket
        /\ sent'.thread = ThreadOnSocket
        /\ sock' = IF sock.state = "up" THEN Queued ELSE sock
        /\ UNCHANGED <<conv, plan, turn, connected>>
    BY <1>1 DEF Submit, Record, TypeOK, Socket
  <2> SUFFICES ASSUME connected
               PROVE  sent'.thread = Replay /\ Outstanding'
    BY <2>1 DEF AnswerInv, Replay
  <2>2. Quiet
    BY <2>1 DEF QuietInv, HasSocket
  <2>3. ThreadOnSocket = Replay
    BY <2>2 DEF Quiet, ThreadOnSocket, Incremental, Replay
  <2>4. /\ Queued.jobs = <<[turn |-> turn, thread |-> Replay]>>
        /\ Queued.events = <<>>
    <3>1. Queued.jobs = Append(sock.jobs, [turn |-> turn, thread |-> Replay])
          /\ Queued.events = sock.events
      BY <2>1, <2>3 DEF Queued, Socket
    <3>2. \A x : Append(<<>>, x) = <<x>>
      OBVIOUS
    <3> QED
      BY <2>2, <3>1, <3>2 DEF Quiet
  <2>5. /\ sock'.jobs \in {<<>>, <<[turn |-> turn, thread |-> Replay]>>}
        /\ sock'.events = <<>>
    BY <2>1, <2>2, <2>4 DEF Quiet
  <2>6. Replay' = Replay
    BY <2>1 DEF Replay
  <2> QED
    BY <2>1, <2>3, <2>5, <2>6 DEF Outstanding
<1>2. CASE SubmitHTTP
  BY <1>2 DEF AnswerInv, SubmitHTTP, Record, Replay
<1>3. CASE Answer \/ Complain \/ Break
  <2>1. /\ sock # None /\ UNCHANGED <<phase, connected, conv, plan, turn, sent>>
    BY <1>3 DEF Answer, Complain, Break
  <2>2. Replay' = Replay
    BY <2>1 DEF Replay
  <2> SUFFICES ASSUME connected, phase = "forward"
               PROVE  Outstanding'
    BY <2>1, <2>2 DEF AnswerInv, TransportInv
  <2>3. Outstanding /\ sock \in Socket
    BY <2>1 DEF AnswerInv, TypeOK, Socket
  <2> DEFINE job == [turn |-> turn, thread |-> Replay]
  <2>4. sock.jobs # <<>> =>
          /\ Head(sock.jobs) = job /\ Tail(sock.jobs) = <<>>
          /\ sock.events # <<>> => Head(sock.events).kind # "completed"
    <3>1. sock.jobs # <<>> => sock.jobs = <<job>>
      BY <2>3 DEF Outstanding
    <3>2. Head(<<job>>) = job /\ Tail(<<job>>) = <<>>
      BY HeadTailProperties
    <3> QED
      BY <2>3, <3>1, <3>2 DEF Outstanding
  <2>5. CASE Answer
    <3> DEFINE frame == [turn |-> turn, kind |-> "completed"]
    <3>1. /\ sock'.jobs = <<>> /\ sock'.memory = Replay
          /\ sock'.events = Append(sock.events, frame)
      BY <2>3, <2>4, <2>5 DEF Answer, Socket
    <3>2. CASE sock.events = <<>>
      BY <2>1, <2>2, <3>1, <3>2 DEF Outstanding
    <3>3. CASE sock.events # <<>>
      <4>1. Head(sock'.events) = Head(sock.events)
        BY <2>3, <3>1, <3>3 DEF Socket
      <4> QED
        BY <2>1, <2>2, <2>3, <2>4, <2>5, <3>1, <3>3, <4>1 DEF Outstanding, Answer
    <3> QED
      BY <3>2, <3>3
  <2>6. CASE Complain
    <3> DEFINE frame == [turn |-> turn, kind |-> "error"]
    <3>1. /\ sock'.jobs \in {sock.jobs, <<>>}
          /\ sock'.events = Append(<<>>, frame)
      <4>1. sock.jobs # <<>> /\ sock.events = <<>>
        BY <2>6 DEF Complain
      <4>2. PICK rest \in {sock.jobs, Tail(sock.jobs)} :
              sock' = [sock EXCEPT
                !.jobs = rest,
                !.events = Append(@, [turn |-> Head(sock.jobs).turn, kind |-> "error"])]
        BY <2>6 DEF Complain
      <4>3. rest \in {sock.jobs, <<>>} /\ Head(sock.jobs).turn = turn
        BY <2>4, <4>1
      <4>4. /\ sock'.jobs = rest
            /\ sock'.events = Append(sock.events,
                                [turn |-> Head(sock.jobs).turn, kind |-> "error"])
        BY <2>3, <4>2 DEF Socket
      <4> QED
        BY <4>1, <4>3, <4>4
    <3>2. Head(sock'.events) = frame
      BY <3>1
    <3> QED
      BY <2>1, <2>2, <2>3, <3>1, <3>2 DEF Outstanding
  <2>7. CASE Break
    <3>1. /\ sock'.jobs \in {sock.jobs, <<>>} /\ sock'.memory = sock.memory
          /\ sock'.events = sock.events
      BY <2>3, <2>7 DEF Break, Socket
    <3> QED
      BY <2>1, <2>2, <2>3, <3>1 DEF Outstanding
  <2> QED
    BY <1>3, <2>5, <2>6, <2>7
<1>4. CASE \/ \E req \in Requests, a \in Accounts : BeginTurn(req, a)
           \/ ReuseUpstream \/ DialUpstream \/ NoUpstream
  BY <1>4 DEF AnswerInv, BeginTurn, ReuseUpstream, DialUpstream, NoUpstream,
     ReturnTo
<1>5. CASE \/ NoCredential \/ SubmitFails \/ ForwardError \/ ForwardFatal
           \/ Abandon \/ FallbackFails \/ EndSession
  BY <1>5 DEF AnswerInv, NoCredential, SubmitFails, ForwardError, ForwardFatal,
     Abandon, FallbackFails, EndSession, ReturnTo
<1>6. CASE CooldownEnds \/ ClientLeaves
  BY <1>6 DEF AnswerInv, Outstanding, Replay, CooldownEnds, ClientLeaves
<1>7. CASE \E calls, echo \in BOOLEAN :
             ForwardCompleted(calls, echo) \/ FallbackCompleted(calls, echo)
  BY <1>7 DEF AnswerInv, ForwardCompleted, FallbackCompleted, ReturnTo
<1>8. CASE UNCHANGED vars
  BY <1>8 DEF AnswerInv, Outstanding, Replay, vars
<1> QED
  BY <1>1, <1>2, <1>3, <1>4, <1>5, <1>6, <1>7, <1>8 DEF Next

LEMMA StepIInv == IInv /\ [Next]_vars => IInv'
BY TypedStep, TransportStep, AccountStep, GenStep, KnownStep, QuietStep, AnswerStep
   DEF IInv

\* Nothing about a turn, its socket or the conversation ever has another type.
THEOREM TypeCorrect == Spec => []TypeOK
<1>1. IInv => TypeOK
  BY DEF IInv
<1> QED
  BY InitIInv, StepIInv, <1>1, PTL DEF Spec

\* Upstream answers a turn on exactly the thread the client has in front of it,
\* whatever became of the sockets in between (websocket.go:49-52, 282-329).
THEOREM ContextKept == Spec => []ContextComplete
<1>1. IInv => ContextComplete
  BY DEF IInv, ContextComplete, InFlight, AnswerInv, KnownInv, Replay, Meant
<1> QED
  BY InitIInv, StepIInv, <1>1, PTL DEF Spec

\* No turn is submitted twice, over whichever transport (websocket.go:51-52).
THEOREM NeverResubmitted == Spec => []SubmittedOnce
<1>1. IInv => SubmittedOnce
  BY DEF IInv, TransportInv, SubmittedOnce
<1> QED
  BY InitIInv, StepIInv, <1>1, PTL DEF Spec

\* A turn runs on its own account, and what it takes from the socket answers it
\* (websocket.go:282-287, 376-378).
THEOREM SocketToItself == Spec => []OwnSocket
<1>1. IInv => OwnSocket
  BY DEF IInv, AnswerInv, Outstanding, OwnSocket, OwnFrames
<1> QED
  BY InitIInv, StepIInv, <1>1, PTL DEF Spec

-----------------------------------------------------------------------------
\* The tools and instructions.

\* The turns of which f says that they set tools, or say anything about
\* instructions.
ToolTurns(f) == {t \in Turns : f[t].tools}
WordedTurns(f) == {t \in Turns : f[t].wording # "absent"}

\* The instructions in force at the end of a thread: the turn that gave them.
Instructed(thread, f) ==
  LET newest == LastAmong(thread, WordedTurns(f))
  IN  IF newest # 0
      THEN IF f[newest].wording = "text" THEN newest ELSE 0
      ELSE IF f[Head(thread)].echo THEN Head(thread) ELSE 0

\* The conversation carries what is in force in the thread seen.
CarriedInv ==
  phase # "closed" /\ ~unkept =>
    /\ conv.tools = LastAmong(seen, ToolTurns(said))
    /\ seen # <<>> => conv.instructions = Instructed(seen, said)

\* A turn in hand is not in the thread seen, and continues something.
NewTurnInv ==
  /\ \A i \in 1..Len(seen) : seen[i] <= turn /\ (Busy => seen[i] < turn)
  /\ Busy /\ plan.req.cont => conv.thread # <<>>

SentInv ==
  phase \in {"forward", "answered"} =>
    sent.tools = TurnTools /\ sent.instructions = TurnInstructions

SettingsInv == CarriedInv /\ NewTurnInv /\ SentInv

-----------------------------------------------------------------------------
\* A set of indices has a last one.
LEMMA LargestIndex ==
  ASSUME NEW n \in Nat, NEW S \in SUBSET (1..n), S # {}
  PROVE  \E m \in S : \A j \in S : j <= m
<1> DEFINE Final == {i..n : i \in S}
           Strict == StrictSubsetOrdering(1..n)
<1>1. IsWellFoundedOn(Strict, SUBSET (1..n))
  <2>1. IsFiniteSet(1..n)
    BY FS_Interval
  <2>2. FiniteSubsetsOf(1..n) = SUBSET (1..n)
    BY <2>1, FS_FiniteSubsetsOfFinite
  <2>3. IsWellFoundedOn(Strict, FiniteSubsetsOf(1..n))
    BY FS_StrictSubsetOrderingWellFounded
  <2> QED
    BY <2>2, <2>3
<1>2. Final \subseteq SUBSET (1..n) /\ Final # {}
  <2>1. PICK i : i \in S
    OBVIOUS
  <2>2. i..n \in Final
    BY <2>1
  <2>3. \A j \in S : j..n \subseteq 1..n
    OBVIOUS
  <2> QED
    BY <2>2, <2>3
<1>3. PICK least \in Final : \A T \in Final : <<T, least>> \notin Strict
  <2> HIDE DEF Final, Strict
  <2> QED
    BY <1>1, <1>2, WFMin
<1>4. PICK m \in S : least = m..n
  OBVIOUS
<1>5. ASSUME NEW j \in S, m < j
      PROVE  FALSE
  <2>1. j..n \in Final /\ j..n \subseteq m..n
    BY <1>5
  <2>2. m \in m..n /\ m \notin j..n
    BY <1>5
  <2>3. <<j..n, least>> \in Strict
    BY <1>2, <1>4, <2>1, <2>2 DEF StrictSubsetOrdering
  <2> QED
    BY <1>3, <2>1, <2>3
<1> HIDE DEF Final, Strict
<1> QED
  BY <1>5

\* What LastAmong finds.
LEMMA LastFound ==
  ASSUME NEW s \in Seq(Turns), NEW chosen
  PROVE  LET hits == {i \in 1..Len(s) : s[i] \in chosen}
         IN  /\ hits = {} => LastAmong(s, chosen) = 0
             /\ hits # {} => \E i \in hits : /\ LastAmong(s, chosen) = s[i]
                                             /\ \A j \in hits : j <= i
<1> DEFINE hits == {i \in 1..Len(s) : s[i] \in chosen}
<1>1. LastAmong(s, chosen) = IF hits = {} THEN 0 ELSE s[Max(hits)]
  <2>1. hits = {i \in DOMAIN s : s[i] \in chosen}
    OBVIOUS
  <2> HIDE DEF hits
  <2> QED
    BY <2>1 DEF LastAmong
<1>2. ASSUME hits # {}
      PROVE  Max(hits) \in hits /\ \A j \in hits : j <= Max(hits)
  <2>1. Len(s) \in Nat /\ hits \in SUBSET (1..Len(s))
    OBVIOUS
  <2> HIDE DEF hits
  <2>2. \E i \in hits : \A j \in hits : i >= j
    BY <1>2, <2>1, LargestIndex
  <2>3. Max(hits) \in hits /\ \A j \in hits : Max(hits) >= j
    BY <2>2 DEF Max
  <2> QED
    BY <2>1, <2>3
<1> QED
  BY <1>1, <1>2

LEMMA LastOfAppend ==
  ASSUME NEW s \in Seq(Turns), NEW t \in Turns, NEW chosen
  PROVE  LastAmong(Append(s, t), chosen)
           = IF t \in chosen THEN t ELSE LastAmong(s, chosen)
<1> DEFINE longer == Append(s, t)
           Hits(q) == {i \in 1..Len(q) : q[i] \in chosen}
<1>1. /\ longer \in Seq(Turns) /\ Len(longer) = Len(s) + 1 /\ Len(s) \in Nat
      /\ longer[Len(s) + 1] = t /\ \A i \in 1..Len(s) : longer[i] = s[i]
  BY Queues
<1>2. /\ Hits(longer) = {} => LastAmong(longer, chosen) = 0
      /\ Hits(longer) # {} => \E i \in Hits(longer) :
           LastAmong(longer, chosen) = longer[i] /\ \A j \in Hits(longer) : j <= i
  BY <1>1, LastFound
<1>3. /\ Hits(s) = {} => LastAmong(s, chosen) = 0
      /\ Hits(s) # {} => \E i \in Hits(s) :
           LastAmong(s, chosen) = s[i] /\ \A j \in Hits(s) : j <= i
  BY LastFound
<1> HIDE DEF longer
<1>4. CASE t \in chosen
  <2>1. Len(s) + 1 \in Hits(longer) /\ \A i \in Hits(longer) : i <= Len(s) + 1
    BY <1>1, <1>4
  <2>2. PICK i \in Hits(longer) :
          LastAmong(longer, chosen) = longer[i] /\ \A j \in Hits(longer) : j <= i
    BY <1>2, <2>1
  <2>3. i = Len(s) + 1
    BY <1>1, <2>1, <2>2
  <2> QED
    BY <1>1, <1>4, <2>2, <2>3 DEF longer
<1>5. CASE t \notin chosen
  <2>1. Hits(longer) = Hits(s)
    BY <1>1, <1>5
  <2>2. CASE Hits(s) = {}
    BY <1>2, <1>3, <1>5, <2>1, <2>2 DEF longer
  <2>3. CASE Hits(s) # {}
    <3>1. PICK i \in Hits(s) :
            LastAmong(longer, chosen) = longer[i] /\ \A j \in Hits(s) : j <= i
      BY <1>2, <2>1, <2>3
    <3>2. PICK k \in Hits(s) : LastAmong(s, chosen) = s[k] /\ \A j \in Hits(s) : j <= k
      BY <1>3, <2>3
    <3>3. i = k
      BY <3>1, <3>2
    <3> QED
      BY <1>1, <1>5, <3>1, <3>2, <3>3 DEF longer
  <2> QED
    BY <2>2, <2>3
<1> QED
  BY <1>4, <1>5

LEMMA LastOfNone ==
  ASSUME NEW chosen
  PROVE  LastAmong(<<>>, chosen) = 0
<1>1. <<>> \in Seq(Turns) /\ {i \in 1..Len(<<>>) : <<>>[i] \in chosen} = {}
  OBVIOUS
<1> QED
  BY <1>1, LastFound

\* The answer depends on the turns of the thread alone.
LEMMA LastAgrees ==
  ASSUME NEW s \in Seq(Turns), NEW C, NEW D,
         \A i \in 1..Len(s) : s[i] \in C <=> s[i] \in D
  PROVE  LastAmong(s, C) = LastAmong(s, D)
<1>1. {i \in DOMAIN s : s[i] \in C} = {i \in DOMAIN s : s[i] \in D}
  OBVIOUS
<1> QED
  BY <1>1 DEF LastAmong

LEMMA InstructedAgrees ==
  ASSUME NEW s \in Seq(Turns), s # <<>>, NEW f, NEW g,
         \A i \in 1..Len(s) : f[s[i]] = g[s[i]]
  PROVE  Instructed(s, f) = Instructed(s, g)
<1>1. \A i \in 1..Len(s) : s[i] \in WordedTurns(f) <=> s[i] \in WordedTurns(g)
  BY DEF WordedTurns
<1>2. LastAmong(s, WordedTurns(f)) = LastAmong(s, WordedTurns(g))
  BY <1>1, LastAgrees
<1>3. \/ LastAmong(s, WordedTurns(f)) = 0
      \/ \E i \in 1..Len(s) : LastAmong(s, WordedTurns(f)) = s[i]
  BY LastFound
<1>4. 1 \in 1..Len(s) /\ Head(s) = s[1]
  OBVIOUS
<1> QED
  BY <1>2, <1>3, <1>4 DEF Instructed

LEMMA InstructedAppend ==
  ASSUME NEW s \in Seq(Turns), NEW t \in Turns, NEW f
  PROVE  Instructed(Append(s, t), f)
           = IF f[t].wording # "absent" THEN IF f[t].wording = "text" THEN t ELSE 0
             ELSE IF s = <<>> THEN IF f[t].echo THEN t ELSE 0 ELSE Instructed(s, f)
<1>1. LastAmong(Append(s, t), WordedTurns(f))
        = IF t \in WordedTurns(f) THEN t ELSE LastAmong(s, WordedTurns(f))
  BY LastOfAppend
<1>2. Head(Append(s, t)) = IF s = <<>> THEN t ELSE Head(s)
  OBVIOUS
<1>3. t \in WordedTurns(f) <=> f[t].wording # "absent"
  BY DEF WordedTurns
<1>4. t # 0
  BY DEF Turns
<1>5. s = <<>> => LastAmong(s, WordedTurns(f)) = 0
  BY LastOfNone
<1> QED
  BY <1>1, <1>2, <1>3, <1>4, <1>5 DEF Instructed

\* What a turn sends and what its commit keeps is in force at the end of the
\* thread that the turn makes.
LEMMA InForce ==
  ASSUME IInv, CarriedInv, NewTurnInv, Busy, ~unkept \/ ~plan.req.cont,
         NEW echo \in BOOLEAN, MayEcho(echo), NEW f,
         f[turn] = SaidNow(echo),
         plan.req.cont => \A i \in 1..Len(seen) : f[seen[i]] = said[seen[i]]
  PROVE  /\ LastAmong(Meant, ToolTurns(f)) = TurnTools
         /\ Instructed(Meant, f) = IF echo THEN turn ELSE TurnInstructions
<1>1. /\ turn \in Turns /\ plan.req \in Request /\ seen \in Seq(Turns)
      /\ phase # "closed"
  BY InHand, ThreadType DEF IInv, TypeOK, Plan, Busy
<1>2. /\ f[turn].tools = plan.req.tools
      /\ f[turn].wording = plan.req.wording /\ f[turn].echo = echo
  BY DEF SaidNow
<1>3. turn \in ToolTurns(f) <=> plan.req.tools
  BY <1>1, <1>2 DEF ToolTurns
<1>4. CASE plan.req.cont
  <2>1. /\ Meant = Append(seen, turn) /\ seen # <<>> /\ ~echo
        /\ conv.tools = LastAmong(seen, ToolTurns(said))
        /\ conv.instructions = Instructed(seen, said)
    BY <1>1, <1>4 DEF IInv, KnownInv, CarriedInv, NewTurnInv, Meant, MayEcho
  <2>2. LastAmong(seen, ToolTurns(f)) = LastAmong(seen, ToolTurns(said))
    <3>1. \A i \in 1..Len(seen) : seen[i] \in ToolTurns(f) <=> seen[i] \in ToolTurns(said)
      BY <1>4 DEF ToolTurns
    <3> QED
      BY <1>1, <3>1, LastAgrees
  <2>3. Instructed(seen, f) = Instructed(seen, said)
    BY <1>1, <1>4, <2>1, InstructedAgrees
  <2>4. LastAmong(Meant, ToolTurns(f)) = TurnTools
    BY <1>1, <1>3, <1>4, <2>1, <2>2, LastOfAppend DEF TurnTools
  <2>5. Instructed(Meant, f)
          = IF f[turn].wording # "absent" THEN IF f[turn].wording = "text" THEN turn ELSE 0
            ELSE conv.instructions
    BY <1>1, <2>1, <2>3, InstructedAppend
  <2> QED
    BY <1>1, <1>2, <1>4, <2>1, <2>4, <2>5 DEF TurnInstructions, Request, Wording
<1>5. CASE ~plan.req.cont
  <2>1. Meant = Append(<<>>, turn) /\ <<>> \in Seq(Turns)
    BY <1>1, <1>5 DEF Meant
  <2>2. LastAmong(Meant, ToolTurns(f)) = TurnTools
    BY <1>1, <1>3, <1>5, <2>1, LastOfAppend, LastOfNone DEF TurnTools
  <2>3. Instructed(Meant, f)
          = IF f[turn].wording # "absent" THEN IF f[turn].wording = "text" THEN turn ELSE 0
            ELSE IF f[turn].echo THEN turn ELSE 0
    BY <1>1, <2>1, InstructedAppend
  <2> QED
    BY <1>1, <1>2, <1>5, <2>2, <2>3 DEF TurnInstructions, Request, Wording, MayEcho
<1> QED
  BY <1>4, <1>5

LEMMA SeenTurns ==
  ASSUME TypeOK
  PROVE  /\ turn \in Nat /\ seen \in Seq(Turns) /\ Len(seen) \in Nat
         /\ \A i \in 1..Len(seen) : seen[i] \in Turns /\ seen[i] \in Nat
<1>1. turn \in Nat /\ seen \in Seq(Turns) /\ Len(seen) \in Nat
  BY ThreadType DEF TypeOK
<1>2. ASSUME NEW i \in 1..Len(seen)
      PROVE  seen[i] \in Turns /\ seen[i] \in Nat
  <2>1. seen[i] \in Turns
    BY <1>1
  <2> QED
    BY <2>1 DEF Turns
<1> QED
  BY <1>1, <1>2

LEMMA SeenBefore ==
  ASSUME TypeOK, NewTurnInv, Busy
  PROVE  \A i \in 1..Len(seen) : seen[i] # turn
<1> SUFFICES ASSUME NEW i \in 1..Len(seen)
             PROVE  seen[i] # turn
  OBVIOUS
<1>1. seen[i] \in Nat /\ turn \in Nat
  BY SeenTurns
<1>2. seen[i] < turn
  BY DEF NewTurnInv
<1> QED
  BY <1>1, <1>2

\* Every other step leaves the conversation and what the client saw as they are.
LEMMA Unseen ==
  ASSUME [Next]_vars,
         ~ \E calls, echo \in BOOLEAN :
             ForwardCompleted(calls, echo) \/ FallbackCompleted(calls, echo)
  PROVE  /\ UNCHANGED <<conv, seen, said, unkept>>
         /\ phase' # "closed" => phase # "closed"
<1> USE DEF session, handled, history
<1>1. CASE \/ \E req \in Requests, a \in Accounts : BeginTurn(req, a)
           \/ ReuseUpstream \/ DialUpstream \/ NoUpstream \/ Submit \/ SubmitHTTP
  BY <1>1 DEF BeginTurn, ReuseUpstream, DialUpstream, NoUpstream, Submit,
     SubmitHTTP,
     Record, ReturnTo
<1>2. CASE Answer \/ Complain \/ Break \/ UNCHANGED vars
  BY <1>2 DEF Answer, Complain, Break, vars
<1>3. CASE \/ NoCredential \/ CooldownEnds \/ SubmitFails \/ ForwardError
           \/ ForwardFatal \/ Abandon \/ FallbackFails \/ ClientLeaves \/ EndSession
  BY <1>3 DEF NoCredential, CooldownEnds, SubmitFails, ForwardError, ForwardFatal,
     Abandon, FallbackFails, ClientLeaves, EndSession, ReturnTo
<1> QED
  BY <1>1, <1>2, <1>3 DEF Next

LEMMA CarriedStep ==
  IInv /\ CarriedInv /\ NewTurnInv /\ [Next]_vars => CarriedInv'
<1> SUFFICES ASSUME IInv, CarriedInv, NewTurnInv, [Next]_vars
             PROVE  CarriedInv'
  OBVIOUS
<1>1. ASSUME NEW calls \in BOOLEAN, NEW echo \in BOOLEAN,
             ForwardCompleted(calls, echo) \/ FallbackCompleted(calls, echo)
      PROVE  CarriedInv'
  <2>1. Busy /\ MayEcho(echo) /\ Shown(calls, echo)
    BY <1>1 DEF ForwardCompleted, FallbackCompleted, Busy
  <2> SUFFICES ASSUME \E gen \in {0, sock.gen} : conv' = Committed(gen, calls, echo),
                      unkept' = (unkept /\ plan.req.cont), ~unkept'
               PROVE  /\ conv'.tools = LastAmong(seen', ToolTurns(said'))
                      /\ conv'.instructions = Instructed(seen', said')
    BY <1>1 DEF CarriedInv, ForwardCompleted, FallbackCompleted, ReturnTo
  <2>2. conv'.tools = TurnTools
        /\ conv'.instructions = IF echo THEN turn ELSE TurnInstructions
    BY DEF Committed
  <2>3. turn \in Turns /\ seen \in Seq(Turns)
    BY <2>1, InHand, ThreadType DEF IInv, TypeOK
  <2>4. seen' = Meant
    BY <2>1 DEF Shown, Meant
  <2>5. said'[turn] = SaidNow(echo)
    BY <2>1, <2>3 DEF Shown
  <2>6. plan.req.cont => \A i \in 1..Len(seen) : said'[seen[i]] = said[seen[i]]
    <3>1. \A i \in 1..Len(seen) : seen[i] \in Turns /\ seen[i] # turn
      BY <2>1, SeenTurns, SeenBefore DEF IInv
    <3> QED
      BY <2>1, <3>1 DEF Shown
  <2>7. ~unkept \/ ~plan.req.cont
    OBVIOUS
  <2>8. /\ LastAmong(Meant, ToolTurns(said')) = TurnTools
        /\ Instructed(Meant, said') = IF echo THEN turn ELSE TurnInstructions
    BY <2>1, <2>5, <2>6, <2>7, InForce
  <2> QED
    BY <2>2, <2>4, <2>8
<1>2. CASE ~ \E calls, echo \in BOOLEAN :
               ForwardCompleted(calls, echo) \/ FallbackCompleted(calls, echo)
  <2>1. /\ UNCHANGED <<conv, seen, said, unkept>>
        /\ phase' # "closed" => phase # "closed"
    BY <1>2, Unseen
  <2> QED
    BY <2>1 DEF CarriedInv
<1> QED
  BY <1>1, <1>2

LEMMA NewTurnStep ==
  IInv /\ NewTurnInv /\ [Next]_vars => NewTurnInv'
<1> SUFFICES ASSUME IInv, NewTurnInv, [Next]_vars
             PROVE  NewTurnInv'
  OBVIOUS
<1>1. turn \in Nat /\ seen \in Seq(Turns) /\ Len(seen) \in Nat
  BY SeenTurns DEF IInv
<1>2. \A i \in 1..Len(seen) : seen[i] \in Nat
  BY SeenTurns DEF IInv
<1> USE DEF session, handled, history
<1>3. CASE \E req \in Requests, a \in Accounts : BeginTurn(req, a)
  <2>1. PICK req \in Requests, a \in Accounts : BeginTurn(req, a)
    BY <1>3
  <2>2. /\ turn' = turn + 1 /\ UNCHANGED <<seen, conv>>
        /\ plan'.req = req
        /\ req.cont => conv.thread # <<>>
    BY <2>1 DEF BeginTurn
  <2>3. \A i \in 1..Len(seen) : seen[i] <= turn' /\ seen[i] < turn'
    <3> SUFFICES ASSUME NEW i \in 1..Len(seen)
                 PROVE  seen[i] <= turn' /\ seen[i] < turn'
      OBVIOUS
    <3>1. seen[i] <= turn /\ seen[i] \in Nat
      BY <1>2 DEF NewTurnInv
    <3> QED
      BY <1>1, <2>2, <3>1
  <2> QED
    BY <2>2, <2>3 DEF NewTurnInv
<1>4. ASSUME NEW calls \in BOOLEAN, NEW echo \in BOOLEAN,
             ForwardCompleted(calls, echo) \/ FallbackCompleted(calls, echo)
      PROVE  NewTurnInv'
  <2>1. /\ Busy /\ ~Busy' /\ turn' = turn /\ Shown(calls, echo)
    BY <1>4 DEF ForwardCompleted, FallbackCompleted, ReturnTo, Busy
  <2>2. turn \in Turns
    BY <2>1, InHand DEF IInv
  <2>3. \A i \in 1..Len(seen') : seen'[i] <= turn
    <3>1. CASE plan.req.cont
      <4>1. /\ seen' = Append(seen, turn) /\ Len(seen') = Len(seen) + 1
            /\ \A i \in 1..Len(seen) : seen'[i] = seen[i]
            /\ seen'[Len(seen) + 1] = turn
        BY <1>1, <2>1, <2>2, <3>1, Queues DEF Shown
      <4>2. \A i \in 1..Len(seen') : i \in 1..Len(seen) \/ i = Len(seen) + 1
        BY <1>1, <4>1
      <4> QED
        BY <1>1, <4>1, <4>2 DEF NewTurnInv
    <3>2. CASE ~plan.req.cont
      BY <1>1, <2>1, <3>2 DEF Shown
    <3> QED
      BY <3>1, <3>2
  <2> QED
    BY <2>1, <2>3 DEF NewTurnInv
<1>5. CASE /\ ~ \E calls, echo \in BOOLEAN :
                  ForwardCompleted(calls, echo) \/ FallbackCompleted(calls, echo)
           /\ ~ \E req \in Requests, a \in Accounts : BeginTurn(req, a)
  <2>1. UNCHANGED <<conv, seen>>
    BY <1>5, Unseen
  <2>2. /\ turn' = turn
        /\ Busy' => Busy /\ plan' = plan
    <3>1. CASE \/ ReuseUpstream \/ DialUpstream \/ NoUpstream \/ Submit \/ SubmitHTTP
      BY <3>1 DEF ReuseUpstream, DialUpstream, NoUpstream, Submit, SubmitHTTP,
         Record,
         ReturnTo, Busy
    <3>2. CASE Answer \/ Complain \/ Break \/ UNCHANGED vars
      BY <3>2 DEF Answer, Complain, Break, Busy, vars
    <3>3. CASE \/ NoCredential \/ CooldownEnds \/ SubmitFails \/ ForwardError
               \/ ForwardFatal \/ Abandon \/ FallbackFails \/ ClientLeaves \/ EndSession
      BY <3>3 DEF NoCredential, CooldownEnds, SubmitFails, ForwardError,
         ForwardFatal,
         Abandon, FallbackFails, ClientLeaves, EndSession, ReturnTo, Busy
    <3> QED
      BY <1>5, <3>1, <3>2, <3>3 DEF Next
  <2> QED
    BY <2>1, <2>2 DEF NewTurnInv
<1> QED
  BY <1>3, <1>4, <1>5

LEMMA SentStep ==
  IInv /\ SentInv /\ [Next]_vars => SentInv'
<1> SUFFICES ASSUME SentInv, [Next]_vars
             PROVE  SentInv'
  OBVIOUS
<1> USE DEF session, handled, history
<1>1. CASE Submit \/ SubmitHTTP
  <2>1. /\ UNCHANGED <<conv, plan, turn>>
        /\ \E thread : sent' = [thread |-> thread, tools |-> TurnTools,
                                instructions |-> TurnInstructions]
    BY <1>1 DEF Submit, SubmitHTTP, Record
  <2>2. sent'.tools = TurnTools /\ sent'.instructions = TurnInstructions
    BY <2>1
  <2>3. TurnTools' = TurnTools /\ TurnInstructions' = TurnInstructions
    BY <2>1 DEF TurnTools, TurnInstructions
  <2> QED
    BY <2>2, <2>3 DEF SentInv
<1>2. CASE \/ Answer \/ Complain \/ Break \/ CooldownEnds \/ ClientLeaves
           \/ UNCHANGED vars
  BY <1>2 DEF SentInv, TurnTools, TurnInstructions, Answer, Complain, Break,
     CooldownEnds, ClientLeaves, vars
<1>3. CASE \/ \E req \in Requests, a \in Accounts : BeginTurn(req, a)
           \/ ReuseUpstream \/ DialUpstream \/ NoUpstream
  BY <1>3 DEF SentInv, BeginTurn, ReuseUpstream, DialUpstream, NoUpstream, ReturnTo
<1>4. CASE \/ NoCredential \/ SubmitFails \/ ForwardError \/ ForwardFatal
           \/ Abandon \/ FallbackFails \/ EndSession
  BY <1>4 DEF SentInv, NoCredential, SubmitFails, ForwardError, ForwardFatal,
     Abandon, FallbackFails, EndSession, ReturnTo
<1>5. CASE \E calls, echo \in BOOLEAN :
             ForwardCompleted(calls, echo) \/ FallbackCompleted(calls, echo)
  BY <1>5 DEF SentInv, ForwardCompleted, FallbackCompleted, ReturnTo
<1> QED
  BY <1>1, <1>2, <1>3, <1>4, <1>5 DEF Next

-----------------------------------------------------------------------------
\* A turn goes out with the tools and instructions last set in its thread, and
\* answers the calls of the last response the client saw, for turns that fail,
\* reset the thread or change sockets in between (websocket_state.go:78-111,
\* 234-268).
THEOREM SettingsKept == Spec => []CarriedOver
<1>1. Init => SettingsInv
  BY DEF Init, SettingsInv, CarriedInv, NewTurnInv, SentInv, LastAmong, Busy
<1>2. IInv /\ SettingsInv /\ [Next]_vars => SettingsInv'
  BY CarriedStep, NewTurnStep, SentStep DEF SettingsInv
<1>3. IInv /\ SettingsInv => CarriedOver
  <2> SUFFICES ASSUME IInv, SettingsInv, InFlight, ~unkept
               PROVE  SettingsCarried /\ (plan.req.cont => plan.answers = owed)
    BY DEF CarriedOver, SettingsCarried, CallsAnswered
  <2>1. Busy /\ turn \in Turns
    BY InHand DEF InFlight, Busy, IInv
  <2>2. plan.req.cont => plan.answers = owed
    <3>1. plan.answers = (plan.req.cont /\ owed)
      BY <2>1 DEF IInv, KnownInv, Busy
    <3>2. owed \in BOOLEAN
      BY DEF IInv, TypeOK
    <3> QED
      BY <3>1, <3>2
  <2> DEFINE f == [t \in Turns |-> Said(t)]
  <2>3. f[turn] = SaidNow(FALSE) /\ \A t \in Turns : f[t] = Said(t)
    BY <2>1 DEF Said
  <2>4. \A i \in 1..Len(seen) : f[seen[i]] = said[seen[i]]
    <3>1. \A i \in 1..Len(seen) : seen[i] \in Turns /\ seen[i] # turn
      BY <2>1, SeenTurns, SeenBefore DEF IInv, SettingsInv
    <3> QED
      BY <2>3, <3>1 DEF Said
  <2> HIDE DEF f
  <2>5. /\ LastAmong(Meant, ToolTurns(f)) = TurnTools
        /\ Instructed(Meant, f) = TurnInstructions
    BY <2>1, <2>3, <2>4, InForce DEF SettingsInv, MayEcho
  <2>6. /\ sent.tools = TurnTools /\ sent.instructions = TurnInstructions
    BY DEF SettingsInv, SentInv, InFlight
  <2>7. /\ ToolTurns(f) = {t \in Turns : Said(t).tools}
        /\ WordedTurns(f) = {t \in Turns : Said(t).wording # "absent"}
    BY <2>3 DEF ToolTurns, WordedTurns
  <2>8. /\ Meant \in Seq(Turns) /\ Meant # <<>> /\ Head(Meant) \in Turns
    <3>1. seen \in Seq(Turns)
      BY SeenTurns DEF IInv
    <3>2. Append(seen, turn) \in Seq(Turns) /\ Len(Append(seen, turn)) = Len(seen) + 1
          /\ Len(seen) \in Nat
      BY <2>1, <3>1, Queues
    <3>3. Append(seen, turn) # <<>> /\ <<turn>> # <<>> /\ <<turn>> \in Seq(Turns)
      BY <2>1, <3>2
    <3>4. Meant \in Seq(Turns) /\ Meant # <<>>
      BY <3>2, <3>3 DEF Meant
    <3> QED
      BY <3>4
  <2>9. LastAmong(Meant, WordedTurns(f)) \in Turns \cup {0}
    BY <2>8, LastFound
  <2>10. SettingsCarried
    BY <2>3, <2>5, <2>6, <2>7, <2>8, <2>9 DEF SettingsCarried, Instructed
  <2> QED
    BY <2>2, <2>10
<1> QED
  BY InitIInv, StepIInv, <1>1, <1>2, <1>3, PTL DEF Spec

-----------------------------------------------------------------------------
\* An item as it was made, of the first so many: what upstream makes has an id,
\* and only calls and their outputs name a call.
Genuine(item, count) ==
  /\ item.n \in 1..count
  /\ item.id = IF item.type \in {"assistant", "function_call"} THEN item.n ELSE Absent
  /\ item.callID = IF IsCall(item) \/ IsOutput(item) THEN item.n ELSE Absent

Alike(x, y) == x = y \/ (x.id # Absent /\ x.id = y.id)

Distinct(items) == \A i, j \in DOMAIN items : Alike(items[i], items[j]) => i = j

Ordered(items) ==
  \A o \in DOMAIN items : IsOutput(items[o]) =>
    \E c \in 1..(o - 1) : IsCall(items[c]) /\ items[c].callID = items[o].callID

Sound(items, count) ==
  /\ items \in Seq(Item)
  /\ \A i \in DOMAIN items : Genuine(items[i], count)
  /\ Distinct(items) /\ Ordered(items)

CountInv == made \in 0..MaxItems /\ plans \in 0..MaxPlans /\ hasCompleted \in BOOLEAN

\* The conversation holds what the client's record of the thread holds.
RecordInv ==
  /\ Sound(record, made) /\ Sound(itemHistory, made)
  /\ ToSet(itemHistory) = ToSet(record)

LastInv ==
  /\ last \in Seq(Item) /\ Distinct(last)
  /\ ToSet(last) \subseteq ToSet(record)
  /\ \A i \in DOMAIN last : last[i].id # Absent

OpenInv ==
  /\ pendingCallIDs = CallIDs(record) \ Answered(record)
  /\ pendingCallIDs = CallIDs(last)

PlanInv ==
  itemPlan # Absent =>
    /\ itemPlan \in ItemPlan
    /\ itemPlan.replay = ReplayItems(itemPlan.input, itemPlan.reset)
    /\ Sound(itemPlan.known, made) /\ Sound(itemPlan.replay, made)
    /\ ToSet(itemPlan.replay) = ToSet(itemPlan.known)
    /\ CallIDs(itemPlan.known) \subseteq Answered(itemPlan.known)

ItemsInv == CountInv /\ RecordInv /\ LastInv /\ OpenInv /\ PlanInv

-----------------------------------------------------------------------------
\* The ranks of a set of indices are the numbers up to its size, in its order.
LEMMA Ranks ==
  ASSUME NEW n \in Nat, NEW S \in SUBSET (1..n)
  PROVE  /\ Cardinality(S) \in Nat
         /\ \A i \in S : Rank(S, i) \in 1..Cardinality(S)
         /\ \A i, j \in S : i < j => Rank(S, i) < Rank(S, j)
         /\ \A r \in 1..Cardinality(S) : \E i \in S : Rank(S, i) = r
<1> DEFINE UpTo(i) == {j \in S : j <= i}
<1>1. IsFiniteSet(S) /\ Cardinality(S) \in Nat /\ S \subseteq Nat
  <2>1. IsFiniteSet(1..n)
    BY FS_Interval
  <2>2. IsFiniteSet(S)
    BY <2>1, FS_Subset
  <2> QED
    BY <2>2, FS_CardinalityType
<1>2. ASSUME NEW i \in S
      PROVE  Rank(S, i) \in 1..Cardinality(S)
  <2>1. UpTo(i) \subseteq S /\ i \in UpTo(i)
    OBVIOUS
  <2>2. /\ IsFiniteSet(UpTo(i)) /\ Cardinality(UpTo(i)) \in Nat
        /\ Cardinality(UpTo(i)) <= Cardinality(S)
    BY <1>1, <2>1, FS_Subset, FS_CardinalityType
  <2>3. Cardinality(UpTo(i)) # 0
    BY <2>1, <2>2, FS_EmptySet
  <2>4. Rank(S, i) = Cardinality(UpTo(i))
    BY DEF Rank
  <2> HIDE DEF UpTo
  <2> QED
    BY <1>1, <2>2, <2>3, <2>4
<1>3. ASSUME NEW i \in S, NEW j \in S, i < j
      PROVE  Rank(S, i) < Rank(S, j)
  <2>1. UpTo(i) \subseteq UpTo(j) /\ j \in UpTo(j) /\ j \notin UpTo(i)
    <3>1. i \in Nat /\ j \in Nat /\ \A k \in S : k \in Nat
      BY <1>1
    <3>2. \A k \in S : k <= i => k <= j
      BY <1>3, <3>1
    <3>3. j <= j /\ ~(j <= i)
      BY <1>3, <3>1
    <3> QED
      BY <3>2, <3>3
  <2>2. IsFiniteSet(UpTo(j))
    BY <1>1, FS_Subset
  <2>3. /\ Cardinality(UpTo(i)) <= Cardinality(UpTo(j))
        /\ Cardinality(UpTo(i)) # Cardinality(UpTo(j))
    BY <2>1, <2>2, FS_Subset
  <2>4. Rank(S, i) = Cardinality(UpTo(i)) /\ Rank(S, j) = Cardinality(UpTo(j))
    BY DEF Rank
  <2> HIDE DEF UpTo
  <2> QED
    BY <1>1, <1>2, <2>3, <2>4
<1>4. ASSUME NEW r \in 1..Cardinality(S)
      PROVE  \E i \in S : Rank(S, i) = r
  <2> DEFINE rank == [i \in S |-> Rank(S, i)]
             Numbers == 1..Cardinality(S)
  <2>1. rank \in Injection(S, Numbers)
    <3>1. rank \in [S -> Numbers]
      BY <1>2
    <3>2. ASSUME NEW i \in S, NEW j \in S, rank[i] = rank[j]
          PROVE  i = j
      <4>1. ~(i < j) /\ ~(j < i)
        BY <1>1, <1>2, <1>3, <3>2
      <4> QED
        BY <4>1
    <3> HIDE DEF rank, Numbers
    <3> QED
      BY <3>1, <3>2 DEF Injection, IsInjective
  <2>2. IsFiniteSet(Numbers) /\ Cardinality(Numbers) = Cardinality(S)
    BY <1>1, FS_Interval
  <2>3. rank \in Surjection(S, Numbers)
    <3> HIDE DEF rank, Numbers
    <3> QED
      BY <2>1, <2>2, FS_Injection
  <2>4. \E i \in S : rank[i] = r
    <3> HIDE DEF rank
    <3> QED
      BY <2>3 DEF Surjection
  <2> QED
    BY <2>4
<1> QED
  BY <1>1, <1>2, <1>3, <1>4

\* What is picked of items keeps the order of the indices it is picked from.
Picks(picked, items, S) ==
  \E f \in [DOMAIN picked -> S] :
    /\ \A r \in DOMAIN picked : picked[r] = items[f[r]]
    /\ \A r, q \in DOMAIN picked : r < q => f[r] < f[q]
    /\ \A i \in S : \E r \in DOMAIN picked : f[r] = i

\* What At picks, from which indices.
LEMMA Picked ==
  ASSUME NEW X, NEW items \in Seq(X), NEW S \in SUBSET DOMAIN items
  PROVE  /\ At(items, S) \in Seq(X) /\ Len(At(items, S)) = Cardinality(S)
         /\ Picks(At(items, S), items, S)
<1> DEFINE n == Cardinality(S)
           f == [r \in 1..n |-> CHOOSE i \in S : Rank(S, i) = r]
<1>1. Len(items) \in Nat /\ S \in SUBSET (1..Len(items))
  OBVIOUS
<1>2. /\ n \in Nat
      /\ \A i \in S : Rank(S, i) \in 1..n
      /\ \A i, j \in S : i < j => Rank(S, i) < Rank(S, j)
      /\ \A r \in 1..n : \E i \in S : Rank(S, i) = r
  BY <1>1, Ranks
<1> HIDE DEF n
<1>3. \A r \in 1..n : f[r] \in S /\ Rank(S, f[r]) = r
  BY <1>2
<1>4. At(items, S) = [r \in 1..n |-> items[f[r]]]
  BY DEF At, n
<1> HIDE DEF f
<1>5. \A i \in S : items[i] \in X
  OBVIOUS
<1>6. At(items, S) \in Seq(X) /\ Len(At(items, S)) = n /\ DOMAIN At(items, S) = 1..n
  BY <1>2, <1>3, <1>4, <1>5
<1>7. f \in [1..n -> S]
  BY <1>3 DEF f
<1>8. \A r \in 1..n : At(items, S)[r] = items[f[r]]
  BY <1>4
<1>9. ASSUME NEW r \in 1..n, NEW q \in 1..n, r < q
      PROVE  f[r] < f[q]
  <2>1. f[r] \in Nat /\ f[q] \in Nat
    BY <1>1, <1>3
  <2>2. f[q] # f[r] /\ ~(f[q] < f[r])
    BY <1>2, <1>3, <1>9
  <2> QED
    BY <2>1, <2>2
<1>10. ASSUME NEW i \in S
       PROVE  \E r \in 1..n : f[r] = i
  <2>1. Rank(S, i) \in 1..n
    BY <1>2
  <2>2. f[Rank(S, i)] \in S /\ Rank(S, f[Rank(S, i)]) = Rank(S, i)
    BY <1>3, <2>1
  <2>3. ~(f[Rank(S, i)] < i) /\ ~(i < f[Rank(S, i)])
    BY <1>2, <2>1, <2>2
  <2>4. f[Rank(S, i)] \in Nat /\ i \in Nat
    BY <1>1, <2>2
  <2> QED
    BY <2>1, <2>3, <2>4
<1>11. /\ Len(At(items, S)) = Cardinality(S) /\ f \in [DOMAIN At(items, S) -> S]
       /\ DOMAIN At(items, S) = 1..n
  BY <1>6, <1>7 DEF n
<1> DEFINE picks == At(items, S)
<1>12. /\ f \in [DOMAIN picks -> S] /\ \A r \in DOMAIN picks : picks[r] = items[f[r]]
       /\ \A r, q \in DOMAIN picks : r < q => f[r] < f[q]
       /\ \A i \in S : \E r \in DOMAIN picks : f[r] = i
  BY <1>8, <1>9, <1>10, <1>11
<1>13. picks \in Seq(X) /\ Len(picks) = Cardinality(S)
  BY <1>6, <1>11
<1> HIDE DEF f, picks
<1>14. Picks(picks, items, S)
  BY <1>12 DEF Picks
<1> QED
  BY <1>13, <1>14 DEF picks

\* Sequences that hold the same items, each once, are as long as one another.
LEMMA SameLength ==
  ASSUME NEW X, NEW s \in Seq(X), NEW t \in Seq(X), ToSet(s) = ToSet(t),
         \A i, j \in DOMAIN s : s[i] = s[j] => i = j,
         \A i, j \in DOMAIN t : t[i] = t[j] => i = j
  PROVE  Len(s) = Len(t)
<1>1. ASSUME NEW q \in Seq(X), \A i, j \in DOMAIN q : q[i] = q[j] => i = j
      PROVE  Cardinality(ToSet(q)) = Len(q)
  <2>1. Len(q) \in Nat /\ DOMAIN q = 1..Len(q)
    OBVIOUS
  <2>2. q \in [1..Len(q) -> ToSet(q)] /\ \A x \in ToSet(q) : \E i \in 1..Len(q) : q[i] = x
    BY <2>1 DEF ToSet
  <2>3. q \in Bijection(1..Len(q), ToSet(q))
    BY <1>1, <2>1, <2>2 DEF Bijection, Injection, Surjection, IsInjective
  <2> QED
    BY <2>1, <2>3, FS_CountingElements DEF ExistsBijection
<1> QED
  BY <1>1

-----------------------------------------------------------------------------
\* What a sequence followed by another holds.
LEMMA Followed ==
  ASSUME NEW X, NEW s \in Seq(X), NEW t \in Seq(X)
  PROVE  /\ s \o t \in Seq(X) /\ Len(s \o t) = Len(s) + Len(t)
         /\ Len(s) \in Nat /\ Len(t) \in Nat
         /\ \A i \in DOMAIN s : i \in DOMAIN (s \o t) /\ (s \o t)[i] = s[i]
         /\ \A j \in DOMAIN t : Len(s) + j \in DOMAIN (s \o t) /\ (s \o t)[Len(s) + j] = t[j]
         /\ \A i \in DOMAIN (s \o t) : i \in DOMAIN s \/ \E j \in DOMAIN t : i = Len(s) + j
         /\ ToSet(s \o t) = ToSet(s) \cup ToSet(t)
<1>1. /\ s \o t \in Seq(X) /\ Len(s \o t) = Len(s) + Len(t)
      /\ Len(s) \in Nat /\ Len(t) \in Nat
  OBVIOUS
<1>2. \A i \in DOMAIN s : i \in DOMAIN (s \o t) /\ (s \o t)[i] = s[i]
  OBVIOUS
<1>3. \A j \in DOMAIN t : Len(s) + j \in DOMAIN (s \o t) /\ (s \o t)[Len(s) + j] = t[j]
  OBVIOUS
<1>4. ASSUME NEW i \in DOMAIN (s \o t), i \notin DOMAIN s
      PROVE  \E j \in DOMAIN t : i = Len(s) + j
  <2>1. i - Len(s) \in DOMAIN t /\ i = Len(s) + (i - Len(s))
    BY <1>1, <1>4
  <2> QED
    BY <2>1
<1>5. ToSet(s \o t) = ToSet(s) \cup ToSet(t)
  <2> DEFINE q == s \o t
  <2>1. \A i \in DOMAIN q : q[i] \in ToSet(s) \cup ToSet(t)
    BY <1>2, <1>3, <1>4 DEF ToSet
  <2>2. \A i \in DOMAIN s : s[i] \in ToSet(q)
    BY <1>2 DEF ToSet
  <2>3. \A j \in DOMAIN t : t[j] \in ToSet(q)
    BY <1>3 DEF ToSet
  <2> HIDE DEF q
  <2>4. ToSet(q) = ToSet(s) \cup ToSet(t)
    BY <2>1, <2>2, <2>3 DEF ToSet
  <2> QED
    BY <2>4 DEF q
<1> QED
  BY <1>1, <1>2, <1>3, <1>4, <1>5

LEMMA Held ==
  ASSUME NEW items, NEW x
  PROVE  x \in ToSet(items) <=> \E i \in DOMAIN items : items[i] = x
BY DEF ToSet

\* A set of indices has a first one.
LEMMA SmallestIndex ==
  ASSUME NEW n \in Nat, NEW S \in SUBSET (1..n), S # {}
  PROVE  \E m \in S : \A j \in S : m <= j
<1>1. /\ Cardinality(S) \in Nat
      /\ \A i \in S : Rank(S, i) \in 1..Cardinality(S)
      /\ \A i, j \in S : i < j => Rank(S, i) < Rank(S, j)
      /\ \A r \in 1..Cardinality(S) : \E i \in S : Rank(S, i) = r
  BY Ranks
<1>2. 1 \in 1..Cardinality(S)
  <2>1. PICK i \in S : Rank(S, i) \in 1..Cardinality(S)
    BY <1>1
  <2> QED
    BY <1>1, <2>1
<1>3. PICK m \in S : Rank(S, m) = 1
  BY <1>1, <1>2
<1>4. ASSUME NEW j \in S
      PROVE  m <= j
  <2>1. ~(j < m)
    BY <1>1, <1>3
  <2> QED
    BY <2>1
<1> QED
  BY <1>4

LEMMA GenuineFacts ==
  ASSUME NEW item \in Item, NEW count \in Nat, Genuine(item, count)
  PROVE  /\ item.n \in Nat /\ 1 <= item.n /\ item.n <= count
         /\ item.type \in Types
         /\ IsCall(item) => item.id = item.n /\ item.callID = item.n /\ item.id # Absent
                            /\ ~IsOutput(item)
         /\ IsOutput(item) => item.id = Absent /\ item.callID = item.n
         /\ item.id # Absent => item.id = item.n /\ item.type \in {"assistant", "function_call"}
         /\ item.type \in {"assistant", "function_call"} => item.id = item.n /\ item.id # Absent
BY ItemsAssumption DEF Item, Genuine, IsCall, IsOutput

-----------------------------------------------------------------------------
\* What a merge starts from: the items of a thread, some of them more than once
\* and its calls possibly under other ids, with no output before its call.
Repeats(items, known) ==
  /\ items \in Seq(Item) /\ Ordered(items)
  /\ ToSet(known) \subseteq ToSet(items)
  /\ \A i \in DOMAIN items :
       \/ items[i] \in ToSet(known)
       \/ /\ IsCall(items[i])
          /\ \E j \in 1..(i - 1) : IsCall(items[j]) /\ items[j].callID = items[i].callID
  /\ \A i, j \in DOMAIN items : items[i] = items[j] /\ items[i].id = Absent => i = j

\* What is left when each call is there once.
CallsOnce(items, known) ==
  /\ items \in Seq(Item) /\ Ordered(items)
  /\ ToSet(items) = ToSet(known)
  /\ \A i, j \in DOMAIN items :
       items[i] = items[j] /\ (items[i].id = Absent \/ IsCall(items[i])) => i = j

\* Of the calls with one call id there is a first.
LEMMA FirstCall ==
  ASSUME NEW items \in Seq(Item), NEW c \in DOMAIN items, IsCall(items[c])
  PROVE  \E m \in DOMAIN items :
           /\ m <= c /\ IsCall(items[m]) /\ items[m].callID = items[c].callID
           /\ \A j \in 1..(m - 1) :
                IsCall(items[j]) => items[j].callID # items[m].callID
<1> DEFINE S == {j \in DOMAIN items : IsCall(items[j]) /\ items[j].callID = items[c].callID}
<1>1. Len(items) \in Nat /\ DOMAIN items = 1..Len(items) /\ S \in SUBSET (1..Len(items))
  OBVIOUS
<1>2. c \in S
  OBVIOUS
<1>3. PICK m \in S : \A j \in S : m <= j
  <2> HIDE DEF S
  <2> QED
    BY <1>1, <1>2, SmallestIndex
<1>4. ASSUME NEW j \in 1..(m - 1), IsCall(items[j]), items[j].callID = items[m].callID
      PROVE  FALSE
  <2>1. j \in S
    BY <1>1, <1>3, <1>4
  <2> QED
    BY <1>1, <1>3, <1>4, <2>1
<1> QED
  BY <1>2, <1>3, <1>4

LEMMA FirstCallsKept ==
  ASSUME NEW count \in Nat, NEW known, Sound(known, count),
         NEW items, Repeats(items, known)
  PROVE  CallsOnce(FirstCalls(items), known)
<1> DEFINE S == {i \in DOMAIN items :
                   IsCall(items[i]) =>
                     \A j \in 1..(i - 1) :
                       IsCall(items[j]) => items[j].callID # items[i].callID}
           F == FirstCalls(items)
<1>1. /\ items \in Seq(Item) /\ Len(items) \in Nat /\ DOMAIN items = 1..Len(items)
      /\ S \in SUBSET DOMAIN items
  BY DEF Repeats
<1>2. F = At(items, S)
  BY DEF FirstCalls
<1>3. F \in Seq(Item) /\ Picks(F, items, S)
  <2> HIDE DEF S, F
  <2> QED
    BY <1>1, <1>2, Picked
<1>4. PICK f \in [DOMAIN F -> S] :
        /\ \A r \in DOMAIN F : F[r] = items[f[r]]
        /\ \A r, q \in DOMAIN F : r < q => f[r] < f[q]
        /\ \A i \in S : \E r \in DOMAIN F : f[r] = i
  <2> HIDE DEF S, F
  <2> QED
    BY <1>3 DEF Picks
<1>5. /\ DOMAIN F = 1..Len(F) /\ Len(F) \in Nat
      /\ \A r \in DOMAIN F : r \in Nat /\ f[r] \in S /\ f[r] \in DOMAIN items /\ f[r] \in Nat
  BY <1>1, <1>3, <1>4
<1>6. \A r, q \in DOMAIN F : f[r] = f[q] => r = q
  <2> HIDE DEF F, S
  <2> SUFFICES ASSUME NEW r \in DOMAIN F, NEW q \in DOMAIN F, f[r] = f[q]
               PROVE  r = q
    OBVIOUS
  <2>1. ~(r < q) /\ ~(q < r)
    BY <1>4, <1>5
  <2> QED
    BY <1>5, <2>1
<1>7. \A r, q \in DOMAIN F : f[r] < f[q] => r < q
  <2> HIDE DEF F, S
  <2> SUFFICES ASSUME NEW r \in DOMAIN F, NEW q \in DOMAIN F, f[r] < f[q]
               PROVE  r < q
    OBVIOUS
  <2>1. ~(q < r) /\ r # q
    BY <1>4, <1>5
  <2> QED
    BY <1>5, <2>1
<1>8. \A i \in S : items[i] \in ToSet(known)
  BY DEF Repeats
\* The first of the calls with one id stays, and is the one known.
<1>9. ASSUME NEW c \in DOMAIN items, IsCall(items[c])
      PROVE  \E q \in DOMAIN F :
               f[q] <= c /\ IsCall(F[q]) /\ F[q].callID = items[c].callID
  <2>1. PICK m \in DOMAIN items :
          /\ m <= c /\ IsCall(items[m]) /\ items[m].callID = items[c].callID
          /\ \A j \in 1..(m - 1) : IsCall(items[j]) => items[j].callID # items[m].callID
    <3> HIDE DEF S, F
    <3>1. \A d \in DOMAIN items : IsCall(items[d]) =>
            \E m \in DOMAIN items :
              /\ m <= d /\ IsCall(items[m]) /\ items[m].callID = items[d].callID
              /\ \A j \in 1..(m - 1) :
                   IsCall(items[j]) => items[j].callID # items[m].callID
      BY <1>1, FirstCall
    <3> QED
      BY <1>9, <3>1
  <2>2. m \in S
    BY <2>1
  <2>3. PICK q \in DOMAIN F : f[q] = m
    BY <1>4, <2>2
  <2> QED
    BY <1>4, <2>1, <2>3
<1>10. ToSet(F) \subseteq ToSet(known)
  BY <1>4, <1>5, <1>8 DEF ToSet
<1>11. ASSUME NEW k \in ToSet(known)
       PROVE  k \in ToSet(F)
  <2>1. PICK i \in DOMAIN items : items[i] = k
    <3>1. k \in ToSet(items)
      BY DEF Repeats
    <3> QED
      BY <3>1 DEF ToSet
  <2>2. CASE ~IsCall(k)
    <3>1. i \in S
      BY <2>1, <2>2
    <3>2. PICK r \in DOMAIN F : f[r] = i
      BY <1>4, <3>1
    <3> QED
      BY <1>4, <2>1, <3>2, Held
  <2>3. CASE IsCall(k)
    <3>1. PICK q \in DOMAIN F : IsCall(F[q]) /\ F[q].callID = k.callID
      BY <1>9, <2>1, <2>3
    <3>2. F[q] \in ToSet(known)
      BY <1>10, Held
    <3>3. PICK a \in DOMAIN known, b \in DOMAIN known : known[a] = k /\ known[b] = F[q]
      BY <3>2, Held
    <3>4. /\ known[a] \in Item /\ known[b] \in Item
          /\ Genuine(known[a], count) /\ Genuine(known[b], count)
      BY DEF Sound
    <3>5. k.id # Absent /\ k.id = F[q].id
      BY <2>3, <3>1, <3>3, <3>4, GenuineFacts
    <3>6. k = F[q]
      BY <3>3, <3>5 DEF Sound, Distinct, Alike
    <3> QED
      BY <3>6, Held
  <2> QED
    BY <2>2, <2>3
<1>12. Ordered(F)
  <2> SUFFICES ASSUME NEW o \in DOMAIN F, IsOutput(F[o])
               PROVE  \E c \in 1..(o - 1) : IsCall(F[c]) /\ F[c].callID = F[o].callID
    BY DEF Ordered
  <2>1. F[o] = items[f[o]] /\ f[o] \in DOMAIN items
    BY <1>4, <1>5
  <2>2. PICK c \in 1..(f[o] - 1) : IsCall(items[c]) /\ items[c].callID = F[o].callID
    BY <2>1 DEF Repeats, Ordered
  <2>3. c \in DOMAIN items /\ c < f[o] /\ c \in Nat
    BY <1>1, <2>1
  <2>4. PICK q \in DOMAIN F : f[q] <= c /\ IsCall(F[q]) /\ F[q].callID = items[c].callID
    BY <1>9, <2>2, <2>3
  <2>5. f[q] < f[o]
    BY <1>5, <2>3, <2>4
  <2>6. q < o
    BY <1>7, <2>5
  <2> QED
    BY <1>5, <2>2, <2>4, <2>6
<1>13. ASSUME NEW i \in DOMAIN F, NEW j \in DOMAIN F, F[i] = F[j],
              F[i].id = Absent \/ IsCall(F[i])
       PROVE  i = j
  <2>1. F[i] = items[f[i]] /\ F[j] = items[f[j]]
    BY <1>4
  <2>2. CASE F[i].id = Absent
    <3>1. f[i] = f[j]
      BY <1>5, <1>13, <2>1, <2>2 DEF Repeats
    <3> QED
      BY <1>6, <3>1
  <2>3. CASE IsCall(F[i])
    <3>1. \A a, b \in S : a \in Nat /\ b \in Nat
      BY <1>1
    <3>2. ASSUME NEW a \in S, NEW b \in S, IsCall(items[a]), items[a] = items[b]
          PROVE  ~(a < b)
      BY <1>1, <3>1, <3>2
    <3>3. ~(f[i] < f[j]) /\ ~(f[j] < f[i])
      BY <1>5, <1>13, <2>1, <2>3, <3>2
    <3>4. f[i] = f[j]
      BY <1>5, <3>3
    <3> QED
      BY <1>6, <3>4
  <2> QED
    BY <1>13, <2>2, <2>3
<1> HIDE DEF F
<1>14. CallsOnce(F, known)
  BY <1>3, <1>10, <1>11, <1>12, <1>13 DEF CallsOnce
<1> QED
  BY <1>14 DEF F

\* What stays of the items with one id is one of them.
LEMMA KeptByID ==
  ASSUME NEW items \in Seq(Item), NEW i \in DOMAIN items
  PROVE  LET k == KeepByID(items, items[i].id)
         IN  k \in DOMAIN items /\ items[k].id = items[i].id
<1> DEFINE same == {j \in DOMAIN items : items[j].id = items[i].id}
           referenced == {j \in same : Referenced(items, j)}
           S == IF referenced # {} THEN referenced ELSE same
<1>1. Len(items) \in Nat /\ DOMAIN items = 1..Len(items)
  OBVIOUS
<1>2. i \in same /\ S \subseteq same /\ S # {} /\ S \in SUBSET (1..Len(items))
  BY <1>1
<1>3. KeepByID(items, items[i].id) = Max(S)
  BY DEF KeepByID
<1> HIDE DEF S
<1>4. PICK m \in S : \A j \in S : j <= m
  BY <1>1, <1>2, LargestIndex
<1>5. \A j \in S : j \in Nat
  BY <1>1, <1>2
<1>6. \E x \in S : \A y \in S : x >= y
  BY <1>4, <1>5
<1>7. Max(S) \in S
  BY <1>6 DEF Max
<1> QED
  BY <1>2, <1>3, <1>7

LEMMA OneOfEachKept ==
  ASSUME NEW count \in Nat, NEW known, Sound(known, count),
         NEW items, CallsOnce(items, known)
  PROVE  Sound(OneOfEachID(items), count) /\ ToSet(OneOfEachID(items)) = ToSet(known)
<1> DEFINE S == {i \in DOMAIN items :
                   items[i].id = Absent \/ KeepByID(items, items[i].id) = i}
           M == OneOfEachID(items)
           Keep(i) == KeepByID(items, items[i].id)
<1>1. /\ items \in Seq(Item) /\ Len(items) \in Nat /\ DOMAIN items = 1..Len(items)
      /\ S \in SUBSET DOMAIN items
  BY DEF CallsOnce
<1>2. M = At(items, S)
  BY DEF OneOfEachID
<1>3. M \in Seq(Item) /\ Picks(M, items, S)
  <2> HIDE DEF S, M
  <2> QED
    BY <1>1, <1>2, Picked
<1>4. PICK f \in [DOMAIN M -> S] :
        /\ \A r \in DOMAIN M : M[r] = items[f[r]]
        /\ \A r, q \in DOMAIN M : r < q => f[r] < f[q]
        /\ \A i \in S : \E r \in DOMAIN M : f[r] = i
  <2> HIDE DEF S, M
  <2> QED
    BY <1>3 DEF Picks
<1>5. /\ DOMAIN M = 1..Len(M) /\ Len(M) \in Nat
      /\ \A r \in DOMAIN M : r \in Nat /\ f[r] \in S /\ f[r] \in DOMAIN items /\ f[r] \in Nat
  BY <1>1, <1>3, <1>4
<1>6. \A r, q \in DOMAIN M : f[r] = f[q] => r = q
  <2> HIDE DEF M, S
  <2> SUFFICES ASSUME NEW r \in DOMAIN M, NEW q \in DOMAIN M, f[r] = f[q]
               PROVE  r = q
    OBVIOUS
  <2>1. ~(r < q) /\ ~(q < r)
    BY <1>4, <1>5
  <2> QED
    BY <1>5, <2>1
<1>7. \A r, q \in DOMAIN M : f[r] < f[q] => r < q
  <2> HIDE DEF M, S
  <2> SUFFICES ASSUME NEW r \in DOMAIN M, NEW q \in DOMAIN M, f[r] < f[q]
               PROVE  r < q
    OBVIOUS
  <2>1. ~(q < r) /\ r # q
    BY <1>4, <1>5
  <2> QED
    BY <1>5, <2>1
<1>8. \A i \in DOMAIN items : Keep(i) \in DOMAIN items /\ items[Keep(i)].id = items[i].id
  BY <1>1, KeptByID
\* In a thread an id stands for one item.
<1>9. ASSUME NEW i \in DOMAIN items, NEW j \in DOMAIN items,
             items[i].id # Absent, items[i].id = items[j].id
      PROVE  items[i] = items[j]
  <2>1. items[i] \in ToSet(known) /\ items[j] \in ToSet(known)
    BY Held DEF CallsOnce
  <2>2. PICK a \in DOMAIN known, b \in DOMAIN known :
          known[a] = items[i] /\ known[b] = items[j]
    BY <2>1, Held
  <2> QED
    BY <1>9, <2>2 DEF Sound, Distinct, Alike
<1>10. \A i \in DOMAIN items : items[i] \in Item /\ Genuine(items[i], count)
  <2> SUFFICES ASSUME NEW i \in DOMAIN items
               PROVE  items[i] \in Item /\ Genuine(items[i], count)
    OBVIOUS
  <2>1. items[i] \in ToSet(known)
    BY Held DEF CallsOnce
  <2>2. PICK a \in DOMAIN known : known[a] = items[i]
    BY <2>1, Held
  <2> QED
    BY <2>2 DEF Sound
<1>11. \A r \in DOMAIN M : Genuine(M[r], count)
  BY <1>4, <1>5, <1>10
<1>12. ToSet(M) = ToSet(known)
  <2>1. \A r \in DOMAIN M : M[r] \in ToSet(known)
    BY <1>4, <1>5, Held DEF CallsOnce
  <2>2. ASSUME NEW i \in DOMAIN items
        PROVE  items[i] \in ToSet(M)
    <3>1. CASE items[i].id = Absent
      <4>1. i \in S
        BY <3>1
      <4>2. PICK r \in DOMAIN M : f[r] = i
        BY <1>4, <4>1
      <4> QED
        BY <1>4, <4>2, Held
    <3>2. CASE items[i].id # Absent
      <4>1. Keep(i) \in DOMAIN items /\ items[Keep(i)].id = items[i].id
        BY <1>8
      <4>2. Keep(i) \in S /\ items[Keep(i)] = items[i]
        BY <1>9, <3>2, <4>1
      <4>3. PICK r \in DOMAIN M : f[r] = Keep(i)
        BY <1>4, <4>2
      <4> QED
        BY <1>4, <4>2, <4>3, Held
    <3> QED
      BY <3>1, <3>2
  <2>3. ToSet(items) = ToSet(known)
    BY DEF CallsOnce
  <2> HIDE DEF M
  <2> QED
    BY <2>1, <2>2, <2>3 DEF ToSet
<1>13. Distinct(M)
  <2> SUFFICES ASSUME NEW r \in DOMAIN M, NEW q \in DOMAIN M, Alike(M[r], M[q])
               PROVE  r = q
    BY DEF Distinct
  <2>1. /\ M[r] = items[f[r]] /\ M[q] = items[f[q]]
        /\ f[r] \in DOMAIN items /\ f[q] \in DOMAIN items
        /\ f[r] \in S /\ f[q] \in S
    BY <1>4, <1>5
  <2>2. items[f[r]] = items[f[q]]
    BY <1>9, <2>1 DEF Alike
  <2>3. CASE items[f[r]].id = Absent
    <3>1. f[r] = f[q]
      BY <2>1, <2>2, <2>3 DEF CallsOnce
    <3> QED
      BY <1>6, <3>1
  <2>4. CASE items[f[r]].id # Absent
    <3>1. f[r] = Keep(f[r]) /\ f[q] = Keep(f[q])
      BY <2>1, <2>2, <2>4
    <3>2. Keep(f[r]) = Keep(f[q])
      BY <2>2
    <3>3. f[r] = f[q]
      <4> HIDE DEF Keep
      <4> QED
        BY <3>1, <3>2
    <3> QED
      BY <1>6, <3>3
  <2> QED
    BY <2>3, <2>4
<1>14. Ordered(M)
  <2> SUFFICES ASSUME NEW o \in DOMAIN M, IsOutput(M[o])
               PROVE  \E c \in 1..(o - 1) : IsCall(M[c]) /\ M[c].callID = M[o].callID
    BY DEF Ordered
  <2>1. M[o] = items[f[o]] /\ f[o] \in DOMAIN items
    BY <1>4, <1>5
  <2>2. PICK c \in 1..(f[o] - 1) : IsCall(items[c]) /\ items[c].callID = M[o].callID
    BY <2>1 DEF CallsOnce, Ordered
  <2>3. c \in DOMAIN items /\ c < f[o]
    BY <1>1, <2>1
  <2>4. items[c].id # Absent
    BY <1>10, <2>2, <2>3, GenuineFacts
  <2>5. Keep(c) \in DOMAIN items /\ items[Keep(c)] = items[c]
    BY <1>8, <1>9, <2>3, <2>4
  <2>6. Keep(c) = c
    BY <2>2, <2>3, <2>5 DEF CallsOnce
  <2>7. c \in S
    BY <2>3, <2>6
  <2>8. PICK q \in DOMAIN M : f[q] = c
    BY <1>4, <2>7
  <2>9. M[q] = items[c] /\ q < o
    BY <1>4, <1>7, <2>3, <2>8
  <2> QED
    BY <1>5, <2>2, <2>9
<1> HIDE DEF M
<1>15. Sound(M, count) /\ ToSet(M) = ToSet(known)
  BY <1>3, <1>11, <1>12, <1>13, <1>14 DEF Sound
<1> QED
  BY <1>15 DEF M

LEMMA MergeKeeps ==
  ASSUME NEW count \in Nat, NEW known, Sound(known, count),
         NEW items, Repeats(items, known)
  PROVE  Sound(Merge(items), count) /\ ToSet(Merge(items)) = ToSet(known)
<1>1. CallsOnce(FirstCalls(items), known)
  BY FirstCallsKept
<1> QED
  BY <1>1, OneOfEachKept DEF Merge

-----------------------------------------------------------------------------
\* Sound threads, longer ones, and what is merged with them.

LEMMA SoundLonger ==
  ASSUME NEW items, NEW m \in Nat, NEW count \in Nat, m <= count, Sound(items, m)
  PROVE  Sound(items, count)
<1>1. ASSUME NEW i \in DOMAIN items
      PROVE  Genuine(items[i], count)
  <2>1. Genuine(items[i], m)
    BY DEF Sound
  <2>2. items[i].n \in 1..count
    BY <2>1 DEF Genuine
  <2> QED
    BY <2>1, <2>2 DEF Genuine
<1> QED
  BY <1>1 DEF Sound

LEMMA SoundExtended ==
  ASSUME NEW count \in Nat, NEW base, Sound(base, count),
         NEW extra \in Seq(Item), Distinct(extra),
         \A j \in DOMAIN extra : Genuine(extra[j], count),
         \A i \in DOMAIN base, j \in DOMAIN extra : ~Alike(base[i], extra[j]),
         \A j \in DOMAIN extra : IsOutput(extra[j]) =>
           \E i \in DOMAIN base : IsCall(base[i]) /\ base[i].callID = extra[j].callID
  PROVE  Sound(base \o extra, count)
<1> DEFINE items == base \o extra
<1>1. /\ items \in Seq(Item) /\ Len(base) \in Nat /\ DOMAIN base = 1..Len(base)
      /\ \A i \in DOMAIN base : i \in DOMAIN items /\ items[i] = base[i]
      /\ \A j \in DOMAIN extra : Len(base) + j \in DOMAIN items /\ items[Len(base) + j] = extra[j]
      /\ \A i \in DOMAIN items : i \in DOMAIN base \/ \E j \in DOMAIN extra : i = Len(base) + j
  BY Followed DEF Sound
<1> HIDE DEF items
<1>2. \A i \in DOMAIN items : Genuine(items[i], count)
  BY <1>1 DEF Sound
<1>3. Distinct(items)
  <2> SUFFICES ASSUME NEW i \in DOMAIN items, NEW k \in DOMAIN items,
                      Alike(items[i], items[k])
               PROVE  i = k
    BY DEF Distinct
  <2>1. CASE i \in DOMAIN base /\ k \in DOMAIN base
    BY <1>1, <2>1 DEF Sound, Distinct
  <2>2. CASE i \in DOMAIN base /\ k \notin DOMAIN base
    BY <1>1, <2>2
  <2>3. CASE i \notin DOMAIN base /\ k \in DOMAIN base
    <3>1. Alike(items[k], items[i])
      BY DEF Alike
    <3> QED
      BY <1>1, <2>3, <3>1
  <2>4. CASE i \notin DOMAIN base /\ k \notin DOMAIN base
    <3>1. PICK a \in DOMAIN extra, b \in DOMAIN extra : i = Len(base) + a /\ k = Len(base) + b
      BY <1>1, <2>4
    <3>2. Alike(extra[a], extra[b])
      BY <1>1, <3>1
    <3> QED
      BY <3>1, <3>2 DEF Distinct
  <2> QED
    BY <2>1, <2>2, <2>3, <2>4
<1>4. Ordered(items)
  <2> SUFFICES ASSUME NEW o \in DOMAIN items, IsOutput(items[o])
               PROVE  \E c \in 1..(o - 1) : IsCall(items[c]) /\ items[c].callID = items[o].callID
    BY DEF Ordered
  <2>1. CASE o \in DOMAIN base
    <3>1. PICK c \in 1..(o - 1) : IsCall(base[c]) /\ base[c].callID = base[o].callID
      BY <1>1, <2>1 DEF Sound, Ordered
    <3>2. c \in DOMAIN base
      BY <1>1, <2>1
    <3> QED
      BY <1>1, <2>1, <3>1, <3>2
  <2>2. CASE o \notin DOMAIN base
    <3>1. PICK j \in DOMAIN extra : o = Len(base) + j
      BY <1>1, <2>2
    <3>2. PICK i \in DOMAIN base : IsCall(base[i]) /\ base[i].callID = extra[j].callID
      BY <1>1, <3>1
    <3>3. i \in 1..(o - 1)
      BY <1>1, <3>1
    <3> QED
      BY <1>1, <3>1, <3>2, <3>3
  <2> QED
    BY <2>1, <2>2
<1>5. Sound(items, count)
  BY <1>1, <1>2, <1>3, <1>4 DEF Sound
<1> QED
  BY <1>5 DEF items

LEMMA RepeatsJoined ==
  ASSUME NEW count \in Nat, NEW known, NEW base, Sound(base, count),
         NEW extra \in Seq(Item),
         ToSet(base) \subseteq ToSet(known),
         ToSet(known) \subseteq ToSet(base) \cup ToSet(extra),
         \A j \in DOMAIN extra :
           \/ extra[j] \in ToSet(known)
           \/ /\ IsCall(extra[j])
              /\ \E i \in DOMAIN base : IsCall(base[i]) /\ base[i].callID = extra[j].callID,
         \A j \in DOMAIN extra : extra[j].id = Absent =>
           /\ extra[j] \notin ToSet(base)
           /\ \A k \in DOMAIN extra : extra[k] = extra[j] => k = j,
         \A j \in DOMAIN extra : IsOutput(extra[j]) =>
           \E i \in DOMAIN base : IsCall(base[i]) /\ base[i].callID = extra[j].callID
  PROVE  Repeats(base \o extra, known)
<1> DEFINE items == base \o extra
<1>1. /\ items \in Seq(Item) /\ Len(base) \in Nat /\ DOMAIN base = 1..Len(base)
      /\ \A i \in DOMAIN base : i \in DOMAIN items /\ items[i] = base[i]
      /\ \A j \in DOMAIN extra : Len(base) + j \in DOMAIN items /\ items[Len(base) + j] = extra[j]
      /\ \A i \in DOMAIN items : i \in DOMAIN base \/ \E j \in DOMAIN extra : i = Len(base) + j
      /\ ToSet(items) = ToSet(base) \cup ToSet(extra)
      /\ DOMAIN extra \subseteq Nat \ {0}
  BY Followed DEF Sound
<1> HIDE DEF items
<1>2. Ordered(items)
  <2> SUFFICES ASSUME NEW o \in DOMAIN items, IsOutput(items[o])
               PROVE  \E c \in 1..(o - 1) : IsCall(items[c]) /\ items[c].callID = items[o].callID
    BY DEF Ordered
  <2>1. CASE o \in DOMAIN base
    <3>1. PICK c \in 1..(o - 1) : IsCall(base[c]) /\ base[c].callID = base[o].callID
      BY <1>1, <2>1 DEF Sound, Ordered
    <3>2. c \in DOMAIN base
      BY <1>1, <2>1
    <3> QED
      BY <1>1, <2>1, <3>1, <3>2
  <2>2. CASE o \notin DOMAIN base
    <3>1. PICK j \in DOMAIN extra : o = Len(base) + j
      BY <1>1, <2>2
    <3>2. PICK i \in DOMAIN base : IsCall(base[i]) /\ base[i].callID = extra[j].callID
      BY <1>1, <3>1
    <3>3. i \in 1..(o - 1)
      BY <1>1, <3>1
    <3> QED
      BY <1>1, <3>1, <3>2, <3>3
  <2> QED
    BY <2>1, <2>2
<1>3. ASSUME NEW i \in DOMAIN items, items[i] \notin ToSet(known)
      PROVE  /\ IsCall(items[i])
             /\ \E j \in 1..(i - 1) : IsCall(items[j]) /\ items[j].callID = items[i].callID
  <2>1. i \notin DOMAIN base
    BY <1>1, <1>3, Held
  <2>2. PICK j \in DOMAIN extra : i = Len(base) + j
    BY <1>1, <2>1
  <2>3. IsCall(items[i])
    BY <1>1, <1>3, <2>2
  <2>4. PICK b \in DOMAIN base : IsCall(base[b]) /\ base[b].callID = extra[j].callID
    BY <1>1, <1>3, <2>2
  <2>5. b \in 1..(i - 1)
    BY <1>1, <2>2
  <2> QED
    BY <1>1, <2>2, <2>3, <2>4, <2>5
<1>4. ASSUME NEW i \in DOMAIN items, NEW k \in DOMAIN items,
             items[i] = items[k], items[i].id = Absent
      PROVE  i = k
  <2>1. CASE i \in DOMAIN base /\ k \in DOMAIN base
    BY <1>1, <1>4, <2>1 DEF Sound, Distinct, Alike
  <2>2. ASSUME NEW a \in DOMAIN base, NEW b \in DOMAIN items, b \notin DOMAIN base,
               items[a] = items[b], items[b].id = Absent
        PROVE  FALSE
    <3>1. PICK j \in DOMAIN extra : b = Len(base) + j
      BY <1>1, <2>2
    <3>2. extra[j] = base[a] /\ extra[j].id = Absent
      BY <1>1, <2>2, <3>1
    <3> QED
      BY <3>2, Held
  <2>3. CASE i \notin DOMAIN base /\ k \notin DOMAIN base
    <3>1. PICK a \in DOMAIN extra, b \in DOMAIN extra : i = Len(base) + a /\ k = Len(base) + b
      BY <1>1, <2>3
    <3>2. extra[a] = extra[b] /\ extra[a].id = Absent
      BY <1>1, <1>4, <3>1
    <3> QED
      BY <3>1, <3>2
  <2> QED
    BY <1>4, <2>1, <2>2, <2>3
<1>5. Repeats(items, known)
  BY <1>1, <1>2, <1>3, <1>4 DEF Repeats
<1> QED
  BY <1>5 DEF items

\* The calls and the outputs of a sequence, by their places in it.
LEMMA Named ==
  ASSUME NEW items
  PROVE  /\ \A c : c \in CallIDs(items) <=>
              \E i \in DOMAIN items : IsCall(items[i]) /\ items[i].callID = c
         /\ \A c : c \in Answered(items) <=>
              \E i \in DOMAIN items : IsOutput(items[i]) /\ items[i].callID = c
BY DEF CallIDs, Answered, ToSet

LEMMA NamedBySet ==
  ASSUME NEW s, NEW t, ToSet(s) = ToSet(t)
  PROVE  CallIDs(s) = CallIDs(t) /\ Answered(s) = Answered(t)
BY DEF CallIDs, Answered

LEMMA NamedFollowed ==
  ASSUME NEW s \in Seq(Item), NEW t \in Seq(Item)
  PROVE  /\ CallIDs(s \o t) = CallIDs(s) \cup CallIDs(t)
         /\ Answered(s \o t) = Answered(s) \cup Answered(t)
<1>1. ToSet(s \o t) = ToSet(s) \cup ToSet(t)
  BY Followed
<1> QED
  BY <1>1 DEF CallIDs, Answered

-----------------------------------------------------------------------------
\* What the client sends.

\* Outputs for calls of the last response, for each at most one.
AreOutputs(outs) ==
  /\ outs \in Seq(Item)
  /\ \A i \in DOMAIN outs : \E c \in CallIDs(last) : outs[i] = Output(c)
  /\ \A i, j \in DOMAIN outs : outs[i] = outs[j] => i = j

LEMMA PendingCalls ==
  ASSUME ItemsInv, NEW c \in CallIDs(last)
  PROVE  /\ c \in 1..made /\ c \in 1..MaxItems
         /\ \E i \in DOMAIN record : IsCall(record[i]) /\ record[i].callID = c
         /\ Output(c) \notin ToSet(record)
<1>1. c \in CallIDs(record) /\ c \notin Answered(record)
  BY DEF ItemsInv, OpenInv
<1>2. PICK i \in DOMAIN record : IsCall(record[i]) /\ record[i].callID = c
  BY <1>1, Named
<1>3. record[i] \in Item /\ Genuine(record[i], made) /\ made \in Nat /\ made <= MaxItems
  BY ItemsAssumption DEF ItemsInv, RecordInv, CountInv, Sound
<1>4. c \in 1..made
  BY <1>2, <1>3, GenuineFacts
<1>5. c \in 1..MaxItems
  BY <1>3, <1>4, ItemsAssumption
<1>6. ASSUME Output(c) \in ToSet(record)
      PROVE  FALSE
  <2>1. PICK k \in DOMAIN record : record[k] = Output(c)
    BY <1>6, Held
  <2>2. IsOutput(record[k]) /\ record[k].callID = c
    BY <2>1 DEF Output, IsOutput
  <2> QED
    BY <1>1, <2>2, Named
<1> QED
  BY <1>2, <1>4, <1>5, <1>6

LEMMA OutputsSent ==
  ASSUME ItemsInv
  PROVE  AreOutputs(Outputs) /\ Answered(Outputs) = CallIDs(last)
<1> DEFINE S == {i \in DOMAIN last : IsCall(last[i])}
           calls == Calls(last)
<1>1. last \in Seq(Item) /\ S \in SUBSET DOMAIN last /\ Distinct(last)
  BY DEF ItemsInv, LastInv
<1>2. calls = At(last, S)
  BY DEF Calls
<1>3. calls \in Seq(Item) /\ Picks(calls, last, S)
  <2> HIDE DEF S, calls
  <2> QED
    BY <1>1, <1>2, Picked
<1>4. PICK f \in [DOMAIN calls -> S] :
        /\ \A r \in DOMAIN calls : calls[r] = last[f[r]]
        /\ \A r, q \in DOMAIN calls : r < q => f[r] < f[q]
        /\ \A i \in S : \E r \in DOMAIN calls : f[r] = i
  <2> HIDE DEF S, calls
  <2> QED
    BY <1>3 DEF Picks
<1>5. \A r \in DOMAIN calls : r \in Nat /\ f[r] \in S /\ f[r] \in Nat /\ f[r] \in DOMAIN last
  BY <1>1, <1>3, <1>4
<1>6. \A r \in DOMAIN calls : IsCall(calls[r]) /\ calls[r].callID \in CallIDs(last)
  <2> SUFFICES ASSUME NEW r \in DOMAIN calls
               PROVE  IsCall(calls[r]) /\ calls[r].callID \in CallIDs(last)
    OBVIOUS
  <2>1. calls[r] = last[f[r]] /\ IsCall(last[f[r]])
    BY <1>4, <1>5
  <2> QED
    BY <1>5, <2>1, Named
<1> HIDE DEF S, calls
<1>7. Outputs = [r \in DOMAIN calls |-> Output(calls[r].callID)]
  BY DEF Outputs, calls
<1>8. DOMAIN Outputs = DOMAIN calls /\ \A r \in DOMAIN calls : Outputs[r] = Output(calls[r].callID)
  BY <1>7
<1>9. \A c \in CallIDs(last) : Output(c) \in Item
  <2> SUFFICES ASSUME NEW c \in CallIDs(last)
               PROVE  Output(c) \in Item
    OBVIOUS
  <2>1. c \in 1..MaxItems
    BY PendingCalls
  <2> QED
    BY <2>1, ItemsAssumption DEF Output, Item, Types
<1>10. Outputs \in Seq(Item)
  <2>1. Len(calls) \in Nat /\ DOMAIN calls = 1..Len(calls)
    BY <1>3
  <2>2. \A r \in 1..Len(calls) : Output(calls[r].callID) \in Item
    BY <1>6, <1>9, <2>1
  <2>3. Outputs = [r \in 1..Len(calls) |-> Output(calls[r].callID)]
    BY <1>7, <2>1
  <2> QED
    BY <2>1, <2>2, <2>3
<1>11. ASSUME NEW i \in DOMAIN Outputs, NEW j \in DOMAIN Outputs, Outputs[i] = Outputs[j]
       PROVE  i = j
  <2>1. calls[i].callID = calls[j].callID
    BY <1>8, <1>11 DEF Output
  <2>2. calls[i] = last[f[i]] /\ calls[j] = last[f[j]]
    BY <1>4, <1>8
  <2>3. last[f[i]] \in ToSet(record) /\ last[f[j]] \in ToSet(record)
    BY <1>5, <1>8, Held DEF ItemsInv, LastInv
  <2>4. /\ last[f[i]] \in Item /\ Genuine(last[f[i]], made)
        /\ last[f[j]] \in Item /\ Genuine(last[f[j]], made) /\ made \in Nat
    BY <2>3, Held, ItemsAssumption DEF ItemsInv, RecordInv, CountInv, Sound
  <2>5. last[f[i]].id # Absent /\ last[f[i]].id = last[f[j]].id
    BY <1>6, <1>8, <2>1, <2>2, <2>4, GenuineFacts
  <2>6. f[i] = f[j]
    BY <1>1, <1>5, <1>8, <2>5 DEF Distinct, Alike
  <2>7. ~(i < j) /\ ~(j < i)
    BY <1>4, <1>5, <1>8, <2>6
  <2>8. i \in Nat /\ j \in Nat
    BY <1>5, <1>8
  <2> QED
    BY <2>7, <2>8
<1>12. AreOutputs(Outputs)
  BY <1>6, <1>8, <1>10, <1>11 DEF AreOutputs
<1>13. ASSUME NEW c
       PROVE  c \in Answered(Outputs) <=> c \in CallIDs(last)
  <2>1. ASSUME c \in Answered(Outputs)
        PROVE  c \in CallIDs(last)
    <3>1. PICK r \in DOMAIN Outputs : Outputs[r].callID = c
      BY <2>1, Named
    <3>2. c = calls[r].callID
      BY <1>8, <3>1 DEF Output
    <3> QED
      BY <1>6, <1>8, <3>2
  <2>2. ASSUME c \in CallIDs(last)
        PROVE  c \in Answered(Outputs)
    <3>1. PICK i \in DOMAIN last : IsCall(last[i]) /\ last[i].callID = c
      BY <2>2, Named
    <3>2. i \in S
      BY <3>1 DEF S
    <3>3. PICK r \in DOMAIN calls : f[r] = i
      BY <1>4, <3>2
    <3>4. Outputs[r] = Output(c) /\ r \in DOMAIN Outputs
      BY <1>4, <1>8, <3>1, <3>3
    <3>5. IsOutput(Outputs[r]) /\ Outputs[r].callID = c
      BY <3>4 DEF Output, IsOutput
    <3> QED
      BY <3>4, <3>5, Named
  <2> QED
    BY <2>1, <2>2
<1> QED
  BY <1>12, <1>13

LEMMA SomeOutputs ==
  ASSUME ItemsInv, NEW callIDs
  PROVE  AreOutputs(OutputsFor(callIDs))
<1> DEFINE S == {c \in DOMAIN Outputs : Outputs[c].callID \in callIDs}
           outs == OutputsFor(callIDs)
<1>1. AreOutputs(Outputs) /\ Outputs \in Seq(Item) /\ S \in SUBSET DOMAIN Outputs
  BY OutputsSent DEF AreOutputs
<1>2. outs = At(Outputs, S)
  BY DEF OutputsFor
<1> HIDE DEF S, outs
<1>3. outs \in Seq(Item) /\ Picks(outs, Outputs, S)
  BY <1>1, <1>2, Picked
<1>4. PICK f \in [DOMAIN outs -> S] :
        /\ \A r \in DOMAIN outs : outs[r] = Outputs[f[r]]
        /\ \A r, q \in DOMAIN outs : r < q => f[r] < f[q]
  BY <1>3 DEF Picks
<1>5. \A r \in DOMAIN outs : r \in Nat /\ f[r] \in DOMAIN Outputs /\ f[r] \in Nat
  BY <1>1, <1>3, <1>4
<1>6. \A r \in DOMAIN outs : \E c \in CallIDs(last) : outs[r] = Output(c)
  BY <1>1, <1>4, <1>5 DEF AreOutputs
<1>7. ASSUME NEW i \in DOMAIN outs, NEW j \in DOMAIN outs, outs[i] = outs[j]
      PROVE  i = j
  <2>1. f[i] = f[j]
    BY <1>1, <1>4, <1>5, <1>7 DEF AreOutputs
  <2>2. ~(i < j) /\ ~(j < i)
    BY <1>4, <1>5, <2>1
  <2> QED
    BY <1>5, <2>2
<1>8. AreOutputs(outs)
  BY <1>3, <1>6, <1>7 DEF AreOutputs
<1> QED
  BY <1>8 DEF outs

\* Outputs and a message are news to the thread, and fit behind it.
News(new, count) ==
  /\ new \in Seq(Item) /\ Distinct(new)
  /\ \A j \in DOMAIN new :
       /\ Genuine(new[j], count) /\ new[j].id = Absent /\ ~IsCall(new[j])
       /\ new[j] \notin ToSet(record)
       /\ IsOutput(new[j]) =>
            \E i \in DOMAIN record : IsCall(record[i]) /\ record[i].callID = new[j].callID

LEMMA NewsSent ==
  ASSUME ItemsInv, NEW worded \in BOOLEAN, NewMessage(worded), NEW outs, AreOutputs(outs)
  PROVE  /\ made' \in 0..MaxItems /\ made <= made'
         /\ News(outs \o Message(worded), made')
         /\ Answered(outs \o Message(worded)) = Answered(outs)
         /\ CallIDs(outs \o Message(worded)) = {}
<1> DEFINE new == outs \o Message(worded)
<1>1. made \in Nat /\ MaxItems \in Nat /\ made <= MaxItems
  BY ItemsAssumption DEF ItemsInv, CountInv
<1>2. /\ made' \in 0..MaxItems /\ made <= made'
      /\ worded => made' = made + 1
  BY <1>1 DEF NewMessage
<1>3. /\ Message(worded) \in Seq(Item)
      /\ \A j \in DOMAIN Message(worded) : j = 1 /\ worded /\ Message(worded)[j] = User(made + 1)
  <2>1. CASE worded
    <3>1. User(made + 1) \in Item
      BY <1>1, <1>2, <2>1 DEF User, Item, Types
    <3> QED
      BY <2>1, <3>1 DEF Message
  <2>2. CASE ~worded
    BY <2>2 DEF Message
  <2> QED
    BY <2>1, <2>2
<1>4. /\ new \in Seq(Item)
      /\ \A i \in DOMAIN outs : i \in DOMAIN new /\ new[i] = outs[i]
      /\ \A i \in DOMAIN new : i \in DOMAIN outs
           \/ \E j \in DOMAIN Message(worded) : i = Len(outs) + j /\ new[i] = Message(worded)[j]
  <2>1. outs \in Seq(Item)
    BY DEF AreOutputs
  <2> QED
    BY <1>3, <2>1, Followed
<1>5. \A i \in DOMAIN new :
        \/ i \in DOMAIN outs /\ \E c \in CallIDs(last) : new[i] = Output(c)
        \/ i = Len(outs) + 1 /\ worded /\ new[i] = User(made + 1)
  BY <1>3, <1>4 DEF AreOutputs
<1> HIDE DEF new
<1>6. Distinct(new)
  <2> SUFFICES ASSUME NEW i \in DOMAIN new, NEW j \in DOMAIN new, Alike(new[i], new[j])
               PROVE  i = j
    BY DEF Distinct
  <2>1. new[i] = new[j]
    BY <1>5 DEF Alike, Output, User
  <2>2. CASE i \in DOMAIN outs /\ j \in DOMAIN outs
    BY <1>4, <2>1, <2>2 DEF AreOutputs
  <2>3. \A c : Output(c) # User(made + 1)
    BY DEF Output, User
  <2> QED
    BY <1>4, <1>5, <2>1, <2>2, <2>3
<1>7. ASSUME NEW j \in DOMAIN new
      PROVE  /\ Genuine(new[j], made') /\ new[j].id = Absent /\ ~IsCall(new[j])
             /\ new[j] \notin ToSet(record)
             /\ IsOutput(new[j]) =>
                  /\ j \in DOMAIN outs
                  /\ \E i \in DOMAIN record :
                       IsCall(record[i]) /\ record[i].callID = new[j].callID
  <2>1. ASSUME NEW c \in CallIDs(last), new[j] = Output(c), j \in DOMAIN outs
        PROVE  /\ Genuine(new[j], made') /\ new[j].id = Absent /\ ~IsCall(new[j])
               /\ new[j] \notin ToSet(record)
               /\ \E i \in DOMAIN record :
                    IsCall(record[i]) /\ record[i].callID = new[j].callID
    <3>1. /\ c \in 1..made /\ Output(c) \notin ToSet(record)
          /\ \E i \in DOMAIN record : IsCall(record[i]) /\ record[i].callID = c
      BY PendingCalls
    <3>2. c \in 1..made'
      BY <1>1, <1>2, <3>1
    <3>3. /\ new[j].n = c /\ new[j].id = Absent /\ new[j].callID = c
          /\ new[j].type = "function_call_output"
      BY <2>1 DEF Output
    <3> QED
      BY <2>1, <3>1, <3>2, <3>3 DEF Genuine, IsCall, IsOutput
  <2>2. ASSUME worded, new[j] = User(made + 1)
        PROVE  /\ Genuine(new[j], made') /\ new[j].id = Absent /\ ~IsCall(new[j])
               /\ new[j] \notin ToSet(record) /\ ~IsOutput(new[j])
    <3>1. /\ new[j].n = made + 1 /\ new[j].id = Absent /\ new[j].callID = Absent
          /\ new[j].type = "user"
      BY <2>2 DEF User
    <3>2. made + 1 \in 1..made'
      BY <1>1, <1>2, <2>2
    <3>3. new[j] \notin ToSet(record)
      <4>1. \A i \in DOMAIN record : record[i].n \in 1..made
        BY DEF ItemsInv, RecordInv, Sound, Genuine
      <4> QED
        BY <1>1, <3>1, <4>1, Held
    <3> QED
      BY <3>1, <3>2, <3>3 DEF Genuine, IsCall, IsOutput
  <2> QED
    BY <1>5, <2>1, <2>2
<1>8. News(new, made')
  BY <1>4, <1>6, <1>7 DEF News
<1>9. CallIDs(new) = {}
  BY <1>7, Named
<1>10. ASSUME NEW c
       PROVE  c \in Answered(new) <=> c \in Answered(outs)
  BY <1>4, <1>7, Named
<1> QED
  BY <1>2, <1>8, <1>9, <1>10 DEF new

\* What a client repeats comes from upstream: it has an id and is in the thread,
\* or is a call of the thread under another id.
Repeated(items) ==
  /\ items \in Seq(Item)
  /\ \A j \in DOMAIN items :
       /\ items[j].id # Absent /\ ~IsOutput(items[j])
       /\ \/ items[j] \in ToSet(record)
          \/ /\ IsCall(items[j])
             /\ \E i \in DOMAIN record :
                  IsCall(record[i]) /\ record[i].callID = items[j].callID

LEMMA RepeatedLast ==
  ASSUME ItemsInv
  PROVE  Repeated(last) /\ Repeated(Renamed(last))
<1>1. last \in Seq(Item) /\ made \in Nat /\ MaxItems \in Nat /\ made <= MaxItems
  BY ItemsAssumption DEF ItemsInv, LastInv, CountInv
<1>2. ASSUME NEW j \in DOMAIN last
      PROVE  /\ last[j] \in ToSet(record) /\ last[j].id # Absent /\ ~IsOutput(last[j])
             /\ last[j] \in Item /\ Genuine(last[j], made)
  <2>1. last[j] \in ToSet(record) /\ last[j].id # Absent
    BY Held DEF ItemsInv, LastInv
  <2>2. last[j] \in Item /\ Genuine(last[j], made)
    BY <2>1, Held DEF ItemsInv, RecordInv, Sound
  <2> QED
    BY <1>1, <2>1, <2>2, GenuineFacts
<1>3. Repeated(last)
  BY <1>1, <1>2 DEF Repeated
<1>4. ASSUME NEW j \in DOMAIN last
      PROVE  LET item == Renamed(last)[j]
             IN  /\ item \in Item /\ item.id # Absent /\ ~IsOutput(item)
                 /\ \/ item \in ToSet(record)
                    \/ /\ IsCall(item)
                       /\ \E i \in DOMAIN record :
                            IsCall(record[i]) /\ record[i].callID = item.callID
  <2>1. CASE ~IsCall(last[j])
    BY <1>2, <2>1 DEF Renamed
  <2>2. CASE IsCall(last[j])
    <3> DEFINE item == [last[j] EXCEPT !.id = @ + MaxItems]
    <3>1. Renamed(last)[j] = item
      BY <2>2 DEF Renamed
    <3>2. last[j].id \in 1..made
      BY <1>1, <1>2, <2>2, GenuineFacts
    <3>3. last[j].id + MaxItems \in 0..(2 * MaxItems)
      BY <1>1, <3>2
    <3>4. item \in Item /\ item.id = last[j].id + MaxItems
      BY <1>2, <3>3 DEF Item
    <3>5. item.type = last[j].type /\ item.callID = last[j].callID
      BY <1>2 DEF Item
    <3>6. item.id # Absent
      BY <1>1, <3>2, <3>4, ItemsAssumption
    <3>7. IsCall(item) /\ ~IsOutput(item)
      BY <2>2, <3>5 DEF IsCall, IsOutput
    <3>8. \E i \in DOMAIN record : IsCall(record[i]) /\ record[i].callID = item.callID
      <4>1. PICK i \in DOMAIN record : record[i] = last[j]
        BY <1>2, Held
      <4> QED
        BY <2>2, <3>5, <4>1
    <3> HIDE DEF item
    <3> QED
      BY <3>1, <3>4, <3>6, <3>7, <3>8
  <2> QED
    BY <2>1, <2>2
<1>5. Renamed(last) \in Seq(Item) /\ DOMAIN Renamed(last) = DOMAIN last
  <2>1. Len(last) \in Nat /\ DOMAIN last = 1..Len(last)
    BY <1>1
  <2>2. DOMAIN Renamed(last) = 1..Len(last)
    BY <2>1 DEF Renamed
  <2>3. Renamed(last) = [i \in 1..Len(last) |-> Renamed(last)[i]]
    BY <2>1 DEF Renamed
  <2>4. \A i \in 1..Len(last) : Renamed(last)[i] \in Item
    BY <1>4, <2>1
  <2> QED
    BY <2>1, <2>2, <2>3, <2>4
<1>6. Repeated(Renamed(last))
  BY <1>4, <1>5 DEF Repeated
<1> QED
  BY <1>3, <1>6

\* Some of the items of a sequence.
LEMMA PickedFrom ==
  ASSUME NEW items \in Seq(Item), NEW S \in SUBSET DOMAIN items
  PROVE  /\ At(items, S) \in Seq(Item)
         /\ \A r \in DOMAIN At(items, S) : \E i \in S : At(items, S)[r] = items[i]
<1> DEFINE picks == At(items, S)
<1>1. picks \in Seq(Item) /\ Picks(picks, items, S)
  BY Picked
<1> HIDE DEF picks
<1>2. PICK f \in [DOMAIN picks -> S] : \A r \in DOMAIN picks : picks[r] = items[f[r]]
  BY <1>1 DEF Picks
<1>3. \A r \in DOMAIN picks : \E i \in S : picks[r] = items[i]
  BY <1>2
<1> QED
  BY <1>1, <1>3 DEF picks

LEMMA RepeatedItems ==
  ASSUME ItemsInv, NEW repeated \in Repeatable
  PROVE  Repeated(repeated)
<1>1. CASE repeated = <<>>
  BY <1>1 DEF Repeated
<1>2. CASE repeated = last \/ repeated = Renamed(last)
  BY <1>2, RepeatedLast
<1>3. CASE repeated = FromUpstream(record)
  <2> DEFINE S == {i \in DOMAIN record : record[i].id # Absent}
  <2>1. record \in Seq(Item) /\ S \in SUBSET DOMAIN record /\ repeated = At(record, S)
    BY <1>3 DEF ItemsInv, RecordInv, Sound, FromUpstream
  <2> HIDE DEF S
  <2>2. /\ repeated \in Seq(Item)
        /\ \A r \in DOMAIN repeated : \E i \in S : repeated[r] = record[i]
    BY <2>1, PickedFrom
  <2>3. \A i \in S : /\ record[i].id # Absent /\ ~IsOutput(record[i])
                     /\ record[i] \in ToSet(record)
    <3>1. \A i \in S : i \in DOMAIN record /\ record[i].id # Absent
      BY DEF S
    <3>2. \A i \in DOMAIN record : record[i] \in Item /\ Genuine(record[i], made)
      BY DEF ItemsInv, RecordInv, Sound
    <3>3. made \in Nat
      BY ItemsAssumption DEF ItemsInv, CountInv
    <3> QED
      BY <3>1, <3>2, <3>3, GenuineFacts, Held
  <2> QED
    BY <2>2, <2>3 DEF Repeated
<1>4. CASE repeated = Calls(last)
  <2> DEFINE S == {i \in DOMAIN last : IsCall(last[i])}
  <2>1. last \in Seq(Item) /\ S \in SUBSET DOMAIN last /\ repeated = At(last, S)
    BY <1>4 DEF ItemsInv, LastInv, Calls
  <2> HIDE DEF S
  <2>2. /\ repeated \in Seq(Item)
        /\ \A r \in DOMAIN repeated : \E i \in S : repeated[r] = last[i]
    BY <2>1, PickedFrom
  <2> QED
    BY <2>1, <2>2, RepeatedLast DEF Repeated
<1> QED
  BY <1>1, <1>2, <1>3, <1>4 DEF Repeatable

-----------------------------------------------------------------------------
\* Plans.

\* A plan keeps the invariant if what it replays is a thread that the client
\* knows, and leaves no call open.
LEMMA Planned ==
  ASSUME ItemsInv, NEW input, NEW reset \in BOOLEAN, NEW known,
         Prepare(input, reset, known),
         made' \in 0..MaxItems, made <= made',
         input \in Seq(Item), Sound(known, made'), Sound(ReplayItems(input, reset), made'),
         ToSet(ReplayItems(input, reset)) = ToSet(known),
         CallIDs(known) \subseteq Answered(known)
  PROVE  ItemsInv'
<1> DEFINE p == [input |-> input, replay |-> ReplayItems(input, reset),
                 reset |-> reset, known |-> known]
<1>1. /\ itemPlan' = p /\ plans' = plans + 1 /\ plans < MaxPlans
      /\ UNCHANGED <<itemHistory, pendingCallIDs, hasCompleted, record, last>>
  BY DEF Prepare, conversation
<1>2. made \in Nat /\ made' \in Nat /\ MaxItems \in Nat /\ MaxPlans \in Nat /\ plans \in Nat
  BY ItemsAssumption DEF ItemsInv, CountInv
<1>3. CountInv'
  BY <1>1, <1>2 DEF ItemsInv, CountInv
<1>4. RecordInv'
  <2>1. Sound(record, made') /\ Sound(itemHistory, made')
    BY <1>2, SoundLonger DEF ItemsInv, RecordInv
  <2>2. Sound(record', made') /\ Sound(itemHistory', made')
    BY <1>1, <2>1
  <2> QED
    BY <1>1, <2>2 DEF ItemsInv, RecordInv
<1>5. LastInv'
  BY <1>1 DEF ItemsInv, LastInv
<1>6. OpenInv'
  BY <1>1 DEF ItemsInv, OpenInv
<1>7. PlanInv'
  <2>1. p.input = input /\ p.reset = reset /\ p.known = known
        /\ p.replay = ReplayItems(input, reset)
    OBVIOUS
  <2>2. p \in ItemPlan
    BY DEF ItemPlan, Sound
  <2>3. /\ itemPlan' \in ItemPlan /\ itemPlan'.input = input /\ itemPlan'.reset = reset
        /\ itemPlan'.known = known /\ itemPlan'.replay = ReplayItems(input, reset)
    BY <1>1, <2>1, <2>2
  <2> HIDE DEF p
  <2>4. itemPlan'.replay = IF itemPlan'.reset THEN itemPlan'.input
                           ELSE Merge(itemHistory' \o itemPlan'.input)
    BY <1>1, <2>3 DEF ReplayItems
  <2>5. /\ Sound(itemPlan'.known, made') /\ Sound(itemPlan'.replay, made')
        /\ ToSet(itemPlan'.replay) = ToSet(itemPlan'.known)
        /\ CallIDs(itemPlan'.known) \subseteq Answered(itemPlan'.known)
    BY <2>3
  <2> QED
    BY <2>3, <2>4, <2>5 DEF PlanInv, ReplayItems
<1> QED
  BY <1>3, <1>4, <1>5, <1>6, <1>7 DEF ItemsInv

LEMMA Alone ==
  ASSUME NEW X, NEW x \in X
  PROVE  <<x>> \in Seq(X) /\ DOMAIN <<x>> = {1} /\ <<x>>[1] = x
OBVIOUS

LEMMA CreateStep ==
  ASSUME ItemsInv, Create
  PROVE  ItemsInv'
<1> DEFINE known == Message(TRUE)
<1>1. NewMessage(TRUE) /\ Prepare(known, TRUE, known)
  BY DEF Create
<1>2. made \in Nat /\ MaxItems \in Nat /\ made' = made + 1 /\ made' \in 0..MaxItems
  BY <1>1, ItemsAssumption DEF NewMessage, ItemsInv, CountInv
<1>3. known = <<User(made + 1)>>
  BY DEF Message
<1>4. User(made + 1) \in Item
  BY <1>2 DEF User, Item, Types
<1>5. Genuine(User(made + 1), made') /\ ~IsCall(User(made + 1)) /\ ~IsOutput(User(made + 1))
  BY <1>2 DEF Genuine, User, IsCall, IsOutput
<1>6. /\ known \in Seq(Item) /\ DOMAIN known = {1}
      /\ known[1] = User(made + 1)
  <2> HIDE DEF known
  <2> QED
    BY <1>3, <1>4, Alone
<1> HIDE DEF known
<1>7. Sound(known, made')
  BY <1>5, <1>6 DEF Sound, Distinct, Ordered
<1>8. CallIDs(known) = {}
  BY <1>5, <1>6, Named
<1>9. ReplayItems(known, TRUE) = known
  BY DEF ReplayItems
<1>10. /\ Sound(ReplayItems(known, TRUE), made')
       /\ ToSet(ReplayItems(known, TRUE)) = ToSet(known)
       /\ CallIDs(known) \subseteq Answered(known)
  BY <1>7, <1>8, <1>9
<1>11. made <= made'
  BY <1>2
<1> QED
  BY <1>1, <1>2, <1>6, <1>7, <1>10, <1>11, Planned

\* The thread as the client knows it when it has sent what is new.
LEMMA KnownThen ==
  ASSUME ItemsInv, NEW worded \in BOOLEAN, NewMessage(worded), NEW outs, AreOutputs(outs)
  PROVE  LET known == record \o (outs \o Message(worded))
         IN  /\ Sound(known, made')
             /\ ToSet(known) = ToSet(record) \cup ToSet(outs \o Message(worded))
             /\ CallIDs(record) \ Answered(record) \subseteq Answered(outs)
                  => CallIDs(known) \subseteq Answered(known)
<1> DEFINE new == outs \o Message(worded)
           known == record \o new
<1>1. /\ made' \in 0..MaxItems /\ made <= made' /\ made' \in Nat
      /\ News(new, made') /\ Answered(new) = Answered(outs) /\ CallIDs(new) = {}
  BY NewsSent
<1>2. made \in Nat /\ record \in Seq(Item) /\ new \in Seq(Item) /\ Sound(record, made)
  BY <1>1, ItemsAssumption DEF News, ItemsInv, CountInv, RecordInv, Sound
<1> HIDE DEF new
<1>3. Sound(record, made')
  BY <1>1, <1>2, SoundLonger
<1>4. \A i \in DOMAIN record, j \in DOMAIN new : ~Alike(record[i], new[j])
  BY <1>1, Held DEF News, Alike
<1>5. Sound(known, made')
  BY <1>1, <1>3, <1>4, SoundExtended DEF News
<1>6. ToSet(known) = ToSet(record) \cup ToSet(new)
  BY <1>2, Followed
<1>7. CallIDs(known) = CallIDs(record) /\ Answered(known) = Answered(record) \cup Answered(outs)
  <2>1. /\ CallIDs(known) = CallIDs(record) \cup CallIDs(new)
        /\ Answered(known) = Answered(record) \cup Answered(new)
    BY <1>2, NamedFollowed
  <2> HIDE DEF known
  <2> QED
    BY <1>1, <2>1
<1> HIDE DEF known
<1>8. CallIDs(record) \ Answered(record) \subseteq Answered(outs)
        => CallIDs(known) \subseteq Answered(known)
  BY <1>7
<1> QED
  BY <1>5, <1>6, <1>8 DEF known, new

LEMMA TranscriptStep ==
  ASSUME ItemsInv, NEW worded \in BOOLEAN, Transcript(worded)
  PROVE  ItemsInv'
<1> DEFINE known == record \o (Outputs \o Message(worded))
<1>1. NewMessage(worded) /\ Prepare(known, TRUE, known)
  BY DEF Transcript
<1>2. AreOutputs(Outputs) /\ Answered(Outputs) = CallIDs(last)
  BY OutputsSent
<1>3. CallIDs(record) \ Answered(record) \subseteq Answered(Outputs)
  BY <1>2 DEF ItemsInv, OpenInv
<1>4. Sound(known, made') /\ CallIDs(known) \subseteq Answered(known)
  BY <1>1, <1>2, <1>3, KnownThen
<1>5. made' \in 0..MaxItems /\ made <= made'
  BY <1>1, <1>2, NewsSent
<1> HIDE DEF known
<1>6. known \in Seq(Item) /\ ReplayItems(known, TRUE) = known
  BY <1>4 DEF Sound, ReplayItems
<1> QED
  BY <1>1, <1>4, <1>5, <1>6, Planned

LEMMA ContinueStep ==
  ASSUME ItemsInv, NEW worded \in BOOLEAN, NEW repeated \in Repeatable, NEW answered,
         Continue(repeated, answered, worded)
  PROVE  ItemsInv'
<1> DEFINE outs == OutputsFor(answered)
           new == outs \o Message(worded)
           known == record \o new
           input == repeated \o new
<1>1. /\ NewMessage(worded) /\ Prepare(input, FALSE, known)
      /\ pendingCallIDs \subseteq Answered(input)
  BY DEF Continue, Prepare, Satisfies
<1>2. AreOutputs(outs)
  BY SomeOutputs
<1> HIDE DEF outs
<1>3. /\ made' \in 0..MaxItems /\ made <= made' /\ made' \in Nat /\ made \in Nat
      /\ News(new, made') /\ Answered(new) = Answered(outs)
  BY <1>1, <1>2, NewsSent, ItemsAssumption DEF ItemsInv, CountInv
<1>4. /\ Sound(known, made') /\ ToSet(known) = ToSet(record) \cup ToSet(new)
      /\ CallIDs(record) \ Answered(record) \subseteq Answered(outs)
           => CallIDs(known) \subseteq Answered(known)
  BY <1>1, <1>2, KnownThen
<1> HIDE DEF new
<1>5. Repeated(repeated)
  BY RepeatedItems
<1>6. /\ repeated \in Seq(Item) /\ new \in Seq(Item) /\ input \in Seq(Item)
      /\ \A j \in DOMAIN input :
           \/ j \in DOMAIN repeated /\ input[j] = repeated[j]
           \/ \E k \in DOMAIN new : j = Len(repeated) + k /\ input[j] = new[k]
      /\ ToSet(input) = ToSet(repeated) \cup ToSet(new)
  BY <1>3, <1>5, Followed DEF Repeated, News
<1>7. CallIDs(known) \subseteq Answered(known)
  <2>1. Answered(input) = Answered(repeated) \cup Answered(new)
    BY <1>6, NamedFollowed
  <2>2. Answered(repeated) = {}
    BY <1>5, Named DEF Repeated
  <2> QED
    BY <1>1, <1>3, <1>4, <2>1, <2>2 DEF ItemsInv, OpenInv
<1> HIDE DEF input, known
<1>8. Sound(itemHistory, made') /\ ToSet(itemHistory) = ToSet(record)
  BY <1>3, SoundLonger DEF ItemsInv, RecordInv
\* A call of the record is one of the history.
<1>9. ASSUME NEW c, \E i \in DOMAIN record : IsCall(record[i]) /\ record[i].callID = c
      PROVE  \E i \in DOMAIN itemHistory : IsCall(itemHistory[i]) /\ itemHistory[i].callID = c
  <2>1. CallIDs(itemHistory) = CallIDs(record)
    BY <1>8, NamedBySet
  <2> QED
    BY <1>9, <2>1, Named
<1>10. \A j \in DOMAIN input :
         \/ input[j] \in ToSet(known)
         \/ /\ IsCall(input[j])
            /\ \E i \in DOMAIN itemHistory :
                 IsCall(itemHistory[i]) /\ itemHistory[i].callID = input[j].callID
  <2> SUFFICES ASSUME NEW j \in DOMAIN input, input[j] \notin ToSet(known)
               PROVE  /\ IsCall(input[j])
                      /\ \E i \in DOMAIN itemHistory :
                           IsCall(itemHistory[i]) /\ itemHistory[i].callID = input[j].callID
    OBVIOUS
  <2>1. j \in DOMAIN repeated /\ input[j] = repeated[j]
    BY <1>4, <1>6, Held
  <2>2. /\ IsCall(input[j])
        /\ \E i \in DOMAIN record : IsCall(record[i]) /\ record[i].callID = input[j].callID
    BY <1>4, <1>5, <2>1 DEF Repeated
  <2> QED
    BY <1>9, <2>2
<1>11. \A j \in DOMAIN input : input[j].id = Absent =>
         /\ input[j] \notin ToSet(itemHistory)
         /\ \A k \in DOMAIN input : input[k] = input[j] => k = j
  <2> SUFFICES ASSUME NEW j \in DOMAIN input, input[j].id = Absent
               PROVE  /\ input[j] \notin ToSet(itemHistory)
                      /\ \A k \in DOMAIN input : input[k] = input[j] => k = j
    OBVIOUS
  <2>1. PICK a \in DOMAIN new : j = Len(repeated) + a /\ input[j] = new[a]
    BY <1>5, <1>6 DEF Repeated
  <2>2. input[j] \notin ToSet(itemHistory)
    BY <1>3, <1>8, <2>1 DEF News
  <2>3. ASSUME NEW k \in DOMAIN input, input[k] = input[j]
        PROVE  k = j
    <3>1. PICK b \in DOMAIN new : k = Len(repeated) + b /\ input[k] = new[b]
      BY <1>5, <1>6, <2>3 DEF Repeated
    <3>2. Alike(new[a], new[b])
      BY <2>1, <2>3, <3>1 DEF Alike
    <3> QED
      BY <1>3, <2>1, <3>1, <3>2 DEF News, Distinct
  <2> QED
    BY <2>2, <2>3
<1>12. \A j \in DOMAIN input : IsOutput(input[j]) =>
         \E i \in DOMAIN itemHistory :
           IsCall(itemHistory[i]) /\ itemHistory[i].callID = input[j].callID
  <2> SUFFICES ASSUME NEW j \in DOMAIN input, IsOutput(input[j])
               PROVE  \E i \in DOMAIN itemHistory :
                        IsCall(itemHistory[i]) /\ itemHistory[i].callID = input[j].callID
    OBVIOUS
  <2>1. PICK a \in DOMAIN new : input[j] = new[a]
    BY <1>5, <1>6 DEF Repeated
  <2>2. \E i \in DOMAIN record : IsCall(record[i]) /\ record[i].callID = input[j].callID
    BY <1>3, <2>1 DEF News
  <2> QED
    BY <1>9, <2>2
<1>13. Repeats(itemHistory \o input, known)
  <2>1. ToSet(itemHistory) \subseteq ToSet(known)
    BY <1>4, <1>8
  <2>2. ToSet(known) \subseteq ToSet(itemHistory) \cup ToSet(input)
    BY <1>4, <1>6, <1>8
  <2> QED
    BY <1>3, <1>6, <1>8, <1>10, <1>11, <1>12, <2>1, <2>2, RepeatsJoined
<1>14. /\ Sound(ReplayItems(input, FALSE), made')
       /\ ToSet(ReplayItems(input, FALSE)) = ToSet(known)
  BY <1>3, <1>4, <1>13, MergeKeeps DEF ReplayItems
<1> QED
  BY <1>1, <1>3, <1>4, <1>6, <1>7, <1>14, Planned

-----------------------------------------------------------------------------
\* The end of a turn.

\* What upstream makes has new numbers, and ids.
LEMMA Responded ==
  ASSUME ItemsInv, NEW types \in Responses, made + Len(types) <= MaxItems
  PROVE  LET response == Response(types)
             count == made + Len(types)
         IN  /\ count \in 0..MaxItems /\ made <= count
             /\ response \in Seq(Item) /\ Distinct(response)
             /\ \A j \in DOMAIN response :
                  /\ Genuine(response[j], count) /\ response[j].n > made
                  /\ response[j].id # Absent /\ ~IsOutput(response[j])
<1> DEFINE response == Response(types)
           count == made + Len(types)
           Upstream == {"assistant", "function_call"}
<1>1. made \in Nat /\ MaxItems \in Nat
  BY ItemsAssumption DEF ItemsInv, CountInv
<1>2. types \in Seq(Upstream)
  <2>1. <<"assistant">> \in Seq(Upstream) /\ <<"function_call">> \in Seq(Upstream)
    OBVIOUS
  <2>2. <<"assistant", "function_call">> \in Seq(Upstream)
    OBVIOUS
  <2>3. <<"function_call", "function_call">> \in Seq(Upstream)
    OBVIOUS
  <2> HIDE DEF Upstream
  <2> QED
    BY <2>1, <2>2, <2>3 DEF Responses
<1>3. Len(types) \in Nat /\ DOMAIN types = 1..Len(types) /\ \A t \in 1..Len(types) : types[t] \in Upstream
  BY <1>2
<1>4. count \in 0..MaxItems /\ made <= count
  BY <1>1, <1>3
<1>5. DOMAIN response = 1..Len(types)
  BY <1>3 DEF Response
<1>6. ASSUME NEW j \in 1..Len(types)
      PROVE  /\ response[j] \in Item /\ Genuine(response[j], count)
             /\ response[j].n = made + j /\ response[j].id = made + j
             /\ response[j].id # Absent /\ ~IsOutput(response[j])
  <2>1. response[j] = [type |-> types[j], n |-> made + j, id |-> made + j,
                       callID |-> IF types[j] = "function_call" THEN made + j ELSE Absent]
    BY <1>3 DEF Response
  <2>2. types[j] \in Upstream
    BY <1>3
  <2>3. made + j \in 1..count /\ made + j \in 0..MaxItems /\ made + j \in 0..(2 * MaxItems)
    BY <1>1, <1>3, <1>4
  <2> HIDE DEF response, count
  <2>4. response[j] \in Item
    BY <2>1, <2>2, <2>3 DEF Item, Types
  <2>5. /\ response[j].n = made + j /\ response[j].id = made + j
        /\ response[j].type = types[j]
        /\ response[j].callID = IF types[j] = "function_call" THEN made + j ELSE Absent
    BY <2>1
  <2>6. Genuine(response[j], count) /\ ~IsOutput(response[j])
    BY <2>2, <2>3, <2>5 DEF Genuine, IsCall, IsOutput
  <2>7. response[j].id # Absent
    BY <2>3, <2>5, ItemsAssumption
  <2> QED
    BY <2>4, <2>5, <2>6, <2>7
<1>7. response \in Seq(Item)
  <2>1. response = [j \in 1..Len(types) |-> response[j]]
    BY <1>3 DEF Response
  <2> HIDE DEF response
  <2>2. \A j \in 1..Len(types) : response[j] \in Item
    BY <1>6
  <2> QED
    BY <1>3, <2>1, <2>2
<1> HIDE DEF response
<1>8. Distinct(response)
  <2> SUFFICES ASSUME NEW i \in 1..Len(types), NEW j \in 1..Len(types),
                      Alike(response[i], response[j])
               PROVE  i = j
    BY <1>5 DEF Distinct
  <2>1. made + i = made + j
    BY <1>6 DEF Alike
  <2> QED
    BY <1>1, <1>3, <2>1
<1>9. \A j \in 1..Len(types) : response[j].n > made
  BY <1>1, <1>3, <1>6
<1> QED
  BY <1>4, <1>5, <1>6, <1>7, <1>8, <1>9 DEF response

LEMMA CommitStep ==
  ASSUME ItemsInv, NEW types \in Responses, Commit(types)
  PROVE  ItemsInv'
<1> DEFINE response == Response(types)
           count == made + Len(types)
           replay == itemPlan.replay
           known == itemPlan.known
           record1 == known \o response
           history1 == Merge(replay \o response)
<1>1. /\ itemPlan # Absent /\ made + Len(types) <= MaxItems
      /\ itemHistory' = CommittedItems(response) /\ pendingCallIDs' = CallIDs(response)
      /\ record' = record1 /\ last' = response
      /\ hasCompleted' = TRUE /\ made' = count /\ itemPlan' = Absent /\ plans' = plans
  BY DEF Commit, Pending
<1>2. /\ Sound(known, made) /\ Sound(replay, made) /\ ToSet(replay) = ToSet(known)
      /\ CallIDs(known) \subseteq Answered(known)
      /\ replay = ReplayItems(itemPlan.input, itemPlan.reset)
  BY <1>1 DEF ItemsInv, PlanInv
<1>3. itemHistory' = history1
  BY <1>1, <1>2 DEF CommittedItems, ReplayItems
<1>4. /\ count \in 0..MaxItems /\ made <= count
      /\ response \in Seq(Item) /\ Distinct(response)
      /\ \A j \in DOMAIN response :
           /\ Genuine(response[j], count) /\ response[j].n > made
           /\ response[j].id # Absent /\ ~IsOutput(response[j])
  BY <1>1, Responded
<1>5. made \in Nat /\ MaxItems \in Nat /\ count \in Nat
  BY <1>4, ItemsAssumption DEF ItemsInv, CountInv
<1> HIDE DEF response, count, replay, known
<1>6. Sound(known, count) /\ Sound(replay, count)
  BY <1>2, <1>4, <1>5, SoundLonger
\* Nothing known is like what upstream makes now.
<1>7. \A i \in DOMAIN known, j \in DOMAIN response : ~Alike(known[i], response[j])
  <2> SUFFICES ASSUME NEW i \in DOMAIN known, NEW j \in DOMAIN response
               PROVE  ~Alike(known[i], response[j])
    OBVIOUS
  <2>1. known[i] \in Item /\ Genuine(known[i], made)
    BY <1>2 DEF Sound
  <2>2. known[i].n <= made /\ (known[i].id # Absent => known[i].id = known[i].n)
        /\ known[i].n \in Nat
    BY <1>5, <2>1, GenuineFacts
  <2>3. response[j] \in Item /\ Genuine(response[j], count)
    BY <1>4
  <2>4. response[j].id = response[j].n /\ response[j].n > made /\ response[j].n \in Nat
    BY <1>4, <1>5, <2>3, GenuineFacts
  <2>5. known[i].n # response[j].n
    BY <1>5, <2>2, <2>4
  <2> QED
    BY <2>2, <2>4, <2>5 DEF Alike
<1>8. Sound(record1, count)
  BY <1>4, <1>5, <1>6, <1>7, SoundExtended
<1>9. ToSet(record1) = ToSet(known) \cup ToSet(response)
  BY <1>2, <1>4, Followed DEF Sound
<1>10. Repeats(replay \o response, record1)
  <2>1. \A j \in DOMAIN response : response[j] \in ToSet(record1)
    BY <1>9, Held
  <2>2. ToSet(replay) \subseteq ToSet(record1)
    BY <1>2, <1>9
  <2>3. ToSet(record1) \subseteq ToSet(replay) \cup ToSet(response)
    BY <1>2, <1>9
  <2> HIDE DEF record1
  <2> QED
    BY <1>4, <1>5, <1>6, <2>1, <2>2, <2>3, RepeatsJoined
<1>11. Sound(history1, count) /\ ToSet(history1) = ToSet(record1)
  BY <1>5, <1>8, <1>10, MergeKeeps
<1>12. \A c \in CallIDs(response) : c > made /\ c \in Nat
  <2> SUFFICES ASSUME NEW c \in CallIDs(response)
               PROVE  c > made /\ c \in Nat
    OBVIOUS
  <2>1. PICK j \in DOMAIN response : IsCall(response[j]) /\ response[j].callID = c
    BY Named
  <2>2. response[j] \in Item /\ Genuine(response[j], count)
    BY <1>4
  <2>3. c = response[j].n /\ response[j].n \in Nat
    BY <1>5, <2>1, <2>2, GenuineFacts
  <2> QED
    BY <1>4, <2>3
<1>13. \A c \in Answered(known) : c <= made
  <2> SUFFICES ASSUME NEW c \in Answered(known)
               PROVE  c <= made
    OBVIOUS
  <2>1. PICK i \in DOMAIN known : IsOutput(known[i]) /\ known[i].callID = c
    BY Named
  <2>2. known[i] \in Item /\ Genuine(known[i], made)
    BY <1>2 DEF Sound
  <2> QED
    BY <1>5, <2>1, <2>2, GenuineFacts
<1>14. CallIDs(response) = CallIDs(record1) \ Answered(record1)
  <2>1. /\ CallIDs(record1) = CallIDs(known) \cup CallIDs(response)
        /\ Answered(record1) = Answered(known) \cup Answered(response)
    BY <1>2, <1>4, NamedFollowed DEF Sound
  <2>2. Answered(response) = {}
    BY <1>4, Named
  <2>3. \A c \in CallIDs(response) : c \notin Answered(known)
    BY <1>5, <1>12, <1>13
  <2> HIDE DEF record1
  <2> QED
    BY <1>2, <2>1, <2>2, <2>3
<1>15. ToSet(response) \subseteq ToSet(record1) /\ \A j \in DOMAIN response : response[j].id # Absent
  BY <1>4, <1>9
<1> HIDE DEF record1, history1
<1>16. CountInv'
  BY <1>1, <1>4 DEF ItemsInv, CountInv
<1>17. RecordInv'
  <2>1. Sound(record', made') /\ Sound(itemHistory', made') /\ ToSet(itemHistory') = ToSet(record')
    BY <1>1, <1>3, <1>8, <1>11
  <2> QED
    BY <2>1 DEF RecordInv
<1>18. LastInv'
  BY <1>1, <1>4, <1>15 DEF LastInv
<1>19. OpenInv'
  BY <1>1, <1>14 DEF OpenInv
<1>20. PlanInv'
  BY <1>1 DEF PlanInv
<1> QED
  BY <1>16, <1>17, <1>18, <1>19, <1>20 DEF ItemsInv

LEMMA FailStep ==
  ASSUME ItemsInv, Fail
  PROVE  ItemsInv'
BY DEF ItemsInv, Fail, conversation, CountInv, RecordInv, LastInv, OpenInv, PlanInv

LEMMA InitItems == ItemsInit => ItemsInv
<1> SUFFICES ASSUME ItemsInit
             PROVE  ItemsInv
  OBVIOUS
<1>1. /\ itemHistory = <<>> /\ pendingCallIDs = {} /\ hasCompleted = FALSE
      /\ itemPlan = Absent /\ made = 0 /\ plans = 0 /\ record = <<>> /\ last = <<>>
  BY DEF ItemsInit
<1>2. <<>> \in Seq(Item) /\ DOMAIN <<>> = {}
  OBVIOUS
<1>3. Sound(<<>>, 0) /\ Distinct(<<>>)
  BY <1>2 DEF Sound, Distinct, Ordered
<1>4. CallIDs(<<>>) = {} /\ Answered(<<>>) = {}
  BY <1>2, Named
<1>5. CountInv
  <2>1. hasCompleted \in BOOLEAN
    BY <1>1
  <2>2. made \in 0..MaxItems /\ plans \in 0..MaxPlans
    BY <1>1, ItemsAssumption
  <2> QED
    BY <2>1, <2>2 DEF CountInv
<1>6. RecordInv
  <2>1. Sound(record, made) /\ itemHistory = record
    BY <1>1, <1>3
  <2>2. Sound(itemHistory, made)
    BY <2>1
  <2> QED
    BY <2>1, <2>2 DEF RecordInv
<1>7. LastInv
  <2>1. last \in Seq(Item) /\ Distinct(last) /\ ToSet(last) = ToSet(record) /\ DOMAIN last = {}
    BY <1>1, <1>2, <1>3
  <2> QED
    BY <2>1 DEF LastInv
<1>8. OpenInv /\ PlanInv
  BY <1>1, <1>4 DEF OpenInv, PlanInv
<1> QED
  BY <1>5, <1>6, <1>7, <1>8 DEF ItemsInv

LEMMA ItemsStep == ItemsInv /\ [ItemsNext]_itemVars => ItemsInv'
<1> SUFFICES ASSUME ItemsInv, [ItemsNext]_itemVars
             PROVE  ItemsInv'
  OBVIOUS
<1>1. CASE Create
  BY <1>1, CreateStep
<1>2. ASSUME NEW worded \in BOOLEAN, Transcript(worded)
      PROVE  ItemsInv'
  BY <1>2, TranscriptStep
<1>3. ASSUME NEW worded \in BOOLEAN, NEW repeated \in Repeatable,
             NEW answered \in SUBSET CallIDs(last), Continue(repeated, answered, worded)
      PROVE  ItemsInv'
  BY <1>3, ContinueStep
<1>4. ASSUME NEW types \in Responses, Commit(types)
      PROVE  ItemsInv'
  BY <1>4, CommitStep
<1>5. CASE Fail
  BY <1>5, FailStep
<1>6. CASE UNCHANGED itemVars
  BY <1>6 DEF itemVars, conversation, ItemsInv, CountInv, RecordInv, LastInv, OpenInv,
              PlanInv, ReplayItems
<1> QED
  BY <1>1, <1>2, <1>3, <1>4, <1>5, <1>6 DEF ItemsNext

LEMMA ItemsInvariance == ItemsSpec => []ItemsInv
BY InitItems, ItemsStep, PTL DEF ItemsSpec

\* The state of a conversation has its type: its history and the client's
\* record are sequences of items, and every call that is to be answered is one
\* of the history (websocket_state.go:13-37, 216, 234).
THEOREM ItemsTyped == ItemsSpec => []ItemsTypeOK
<1>1. ItemsInv => ItemsTypeOK
  <2> SUFFICES ASSUME ItemsInv
               PROVE  ItemsTypeOK
    OBVIOUS
  <2>1. /\ itemHistory \in Seq(Item) /\ record \in Seq(Item) /\ last \in Seq(Item)
        /\ hasCompleted \in BOOLEAN /\ made \in 0..MaxItems /\ plans \in 0..MaxPlans
        /\ (itemPlan = Absent \/ itemPlan \in ItemPlan)
    BY DEF ItemsInv, CountInv, RecordInv, LastInv, PlanInv, Sound
  <2>2. pendingCallIDs \subseteq CallIDs(itemHistory)
    BY NamedBySet DEF ItemsInv, RecordInv, OpenInv
  <2>3. CallIDs(itemHistory) \subseteq {item.callID : item \in ToSet(itemHistory)}
    BY DEF CallIDs
  <2> QED
    BY <2>1, <2>2, <2>3 DEF ItemsTypeOK
<1> QED
  BY <1>1, ItemsInvariance, PTL

\* The calls that must be answered are those that are open in the history and
\* in the client's record alike, however often the client has repeated them
\* and under which ids (websocket_state.go:234, 357-376).
THEOREM OpenCallsKnown == ItemsSpec => []PendingIsOpen
<1>1. ItemsInv => PendingIsOpen
  <2> SUFFICES ASSUME ItemsInv
               PROVE  PendingIsOpen
    OBVIOUS
  <2>1. /\ pendingCallIDs = CallIDs(record) \ Answered(record)
        /\ ToSet(itemHistory) = ToSet(record)
    BY DEF ItemsInv, RecordInv, OpenInv
  <2>2. CallIDs(itemHistory) = CallIDs(record) /\ Answered(itemHistory) = Answered(record)
    BY <2>1, NamedBySet
  <2> QED
    BY <2>1, <2>2 DEF PendingIsOpen
<1> QED
  BY <1>1, ItemsInvariance, PTL

\* What goes upstream is the client's thread: each of its items once and
\* nothing else, every output behind its call, and no call left open, whatever
\* the client repeats (websocket_state.go:331-446).
THEOREM ThreadReplayed == ItemsSpec => []ReplayIsThread
<1>1. ItemsInv => ReplayIsThread
  <2> SUFFICES ASSUME ItemsInv
               PROVE  ReplayIsThread
    OBVIOUS
  <2>1. CASE itemPlan = Absent
    <3>1. Replayed = <<>>
      BY <2>1 DEF Replayed
    <3>2. DOMAIN <<>> = {}
      OBVIOUS
    <3> QED
      BY <2>1, <3>1, <3>2, Named
         DEF ReplayIsThread, EachItemOnce, OutputsFollowCalls, NoCallLeftOpen
  <2>2. CASE itemPlan # Absent
    <3> DEFINE known == itemPlan.known
               replay == itemPlan.replay
    <3>1. Replayed = replay
      BY <2>2 DEF Replayed
    <3>2. /\ Sound(known, made) /\ Sound(replay, made) /\ ToSet(replay) = ToSet(known)
          /\ CallIDs(known) \subseteq Answered(known)
      BY <2>2 DEF ItemsInv, PlanInv
    <3> HIDE DEF replay
    <3>3. ToSet(Content(replay)) = ToSet(Content(known))
      <4> DEFINE What(item) == [type |-> item.type, n |-> item.n]
      <4>1. \A items : ToSet(Content(items)) = {What(item) : item \in ToSet(items)}
        BY DEF ToSet, Content
      <4> HIDE DEF What, known
      <4> QED
        BY <3>2, <4>1
    <3> HIDE DEF known
    <3>4. Len(replay) = Len(known)
      <4>1. /\ replay \in Seq(Item) /\ known \in Seq(Item)
            /\ \A i, j \in DOMAIN replay : replay[i] = replay[j] => i = j
            /\ \A i, j \in DOMAIN known : known[i] = known[j] => i = j
        BY <3>2 DEF Sound, Distinct, Alike
      <4> QED
        BY <3>2, <4>1, SameLength
    <3>5. EachItemOnce
      BY <3>1, <3>3, <3>4 DEF EachItemOnce, known
    <3>6. OutputsFollowCalls
      BY <3>1, <3>2 DEF OutputsFollowCalls, Sound, Ordered
    <3>7. NoCallLeftOpen
      BY <3>1, <3>2, NamedBySet DEF NoCallLeftOpen
    <3> QED
      BY <3>5, <3>6, <3>7 DEF ReplayIsThread
  <2> QED
    BY <2>1, <2>2
<1> QED
  BY <1>1, ItemsInvariance, PTL
=============================================================================
