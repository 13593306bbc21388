----------------------------- MODULE ReplayHistory -----------------------------
(***************************************************************************)
(* The items of webSocketConversation (internal/proxy/websocket_state.go): *)
(* which history is replayed, how mergeWebSocketItems removes what a       *)
(* client repeats, and which calls the next input must answer.             *)
(* WebSocketTurn has the turns and sockets around it and takes the history *)
(* of a thread as a whole; here it is looked into.                         *)
(*                                                                         *)
(* An item is what it says (a message, a call or an output, and its        *)
(* number) with the id it goes by.  Items from upstream have an id, a      *)
(* client's own have none.                                                 *)
(***************************************************************************)
EXTENDS Naturals, Sequences, FiniteSets, SequencesExt, FiniteSetsExt

CONSTANTS MaxPlans,  \* bound: turns planned
          MaxItems,  \* bound: items upstream or the client makes
          Absent     \* no id, no call id, no plan

ASSUME ItemsAssumption == {MaxPlans, MaxItems} \subseteq Nat /\ Absent \notin Nat

VARIABLES
  itemHistory,    \* c.history
  pendingCallIDs, \* c.pendingCallIDs
  hasCompleted,   \* c.hasCompleted
  itemPlan,       \* the plan of the turn under way, or Absent
  made,           \* how many items have been made
  plans,          \* how many turns have been planned
  record,         \* history: the client's record of the thread
  last            \* history: what the last response gave the client

conversation == <<itemHistory, pendingCallIDs, hasCompleted>>
itemVars == <<conversation, itemPlan, made, plans, record, last>>

Types == {"user", "assistant", "function_call", "function_call_output"}

\* An item that names a call has its number in callID.
Item == [type : Types, n : 0..MaxItems, id : 0..(2 * MaxItems) \cup {Absent},
         callID : 0..MaxItems \cup {Absent}]

ItemPlan == [input : Seq(Item), replay : Seq(Item), reset : BOOLEAN,
         known : Seq(Item)]

\* The type invariant; every pending call is one of the history
\* (websocket_state.go:216, 234).
ItemsTypeOK ==
  /\ itemHistory \in Seq(Item)
  /\ pendingCallIDs \subseteq {item.callID : item \in ToSet(itemHistory)}
  /\ hasCompleted \in BOOLEAN
  /\ itemPlan = Absent \/ itemPlan \in ItemPlan
  /\ made \in 0..MaxItems
  /\ plans \in 0..MaxPlans
  /\ record \in Seq(Item)
  /\ last \in Seq(Item)

ItemsInit ==
  /\ itemHistory = <<>>
  /\ pendingCallIDs = {}
  /\ hasCompleted = FALSE
  /\ itemPlan = Absent
  /\ made = 0
  /\ plans = 0
  /\ record = <<>>
  /\ last = <<>>

-----------------------------------------------------------------------------
\* mergeWebSocketItems.

\* The items at the indices of a set, in their order.
Rank(indices, i) == Cardinality({j \in indices : j <= i})

At(items, indices) ==
  [r \in 1..Cardinality(indices) |-> items[CHOOSE i \in indices : Rank(indices, i) = r]]

IsCall(item) == item.type = "function_call"

IsOutput(item) == item.type = "function_call_output"

\* Of the calls with one callID the first stays.
FirstCalls(items) ==
  At(items, {i \in DOMAIN items :
               IsCall(items[i]) =>
                 \A j \in 1..(i - 1) :
                   IsCall(items[j]) => items[j].callID # items[i].callID})

\* An item some output refers to.
Referenced(items, i) ==
  /\ items[i].callID # Absent
  /\ \E j \in DOMAIN items : IsOutput(items[j]) /\ items[j].callID = items[i].callID

\* Of the items with one id the last stays, or the last an output refers to.
KeepByID(items, id) ==
  LET same == {i \in DOMAIN items : items[i].id = id}
      referenced == {i \in same : Referenced(items, i)}
  IN  Max(IF referenced # {} THEN referenced ELSE same)

LastOfEachID(items) ==
  At(items, {i \in DOMAIN items : KeepByID(items, items[i].id) = i})

OneOfEachID(items) ==
  At(items, {i \in DOMAIN items :
               items[i].id = Absent \/ KeepByID(items, items[i].id) = i})

Merge(items) == OneOfEachID(FirstCalls(items))

-----------------------------------------------------------------------------
\* prepare.

CallIDs(items) == {item.callID : item \in {it \in ToSet(items) : IsCall(it)}}

Answered(items) == {item.callID : item \in {it \in ToSet(items) : IsOutput(it)}}

\* webSocketInputLooksLikeTranscript.
LooksComplete(input) ==
  \E item \in ToSet(input) : item.type \in {"function_call", "assistant"}

\* webSocketInputSatisfiesCalls.
Satisfies(input) == pendingCallIDs \subseteq Answered(input)

ReplayItems(input, reset) == IF reset THEN input ELSE Merge(itemHistory \o input)

\* A request is planned; known is the thread as the client then knows it.
Prepare(input, reset, known) ==
  /\ itemPlan = Absent
  /\ plans < MaxPlans
  /\ plans' = plans + 1
  /\ ~reset => hasCompleted /\ Satisfies(input)
  /\ itemPlan' = [input |-> input, replay |-> ReplayItems(input, reset), reset |-> reset,
                  known |-> known]
  /\ UNCHANGED <<conversation, record, last>>

User(n) == [type |-> "user", n |-> n, id |-> Absent, callID |-> Absent]

Output(call) == [type |-> "function_call_output", n |-> call, id |-> Absent, callID |-> call]

Calls(items) == At(items, {i \in DOMAIN items : IsCall(items[i])})

\* The client's outputs for the calls of the last response.
Outputs == [c \in DOMAIN Calls(last) |-> Output(Calls(last)[c].callID)]

OutputsFor(callIDs) == At(Outputs, {c \in DOMAIN Outputs : Outputs[c].callID \in callIDs})

\* Its new message, which it may leave out only when it has outputs to send.
NewMessage(said) ==
  /\ IF said THEN made < MaxItems ELSE Outputs # <<>>
  /\ made' = IF said THEN made + 1 ELSE made

Message(said) == IF said THEN <<User(made + 1)>> ELSE <<>>

\* response.create of a new thread.
Create ==
  /\ NewMessage(TRUE)
  /\ Prepare(Message(TRUE), TRUE, Message(TRUE))

\* response.create of everything the client has of the thread.
Transcript(said) ==
  /\ record # <<>>
  /\ NewMessage(said)
  /\ LET input == record \o (Outputs \o Message(said))
     IN  LooksComplete(input) /\ Prepare(input, TRUE, input)

\* The client may send a call under another id than the one it got.
Renamed(items) ==
  [i \in DOMAIN items |->
     IF IsCall(items[i]) THEN [items[i] EXCEPT !.id = @ + MaxItems] ELSE items[i]]

\* response.append, or response.create with previous_response_id if nothing is
\* repeated: outputs and a message, behind what it repeats of upstream's.
Continue(repeated, answered, said) ==
  /\ NewMessage(said)
  /\ LET new == OutputsFor(answered) \o Message(said)
     IN  Prepare(repeated \o new, FALSE, record \o new)

FromUpstream(items) == At(items, {i \in DOMAIN items : items[i].id # Absent})

Repeatable ==
  {<<>>, last, Renamed(last), FromUpstream(record), Calls(last)}

-----------------------------------------------------------------------------
\* The turn ends.

\* A response of messages and calls, each of which takes a number.
Response(types) ==
  [t \in DOMAIN types |->
     [type |-> types[t], n |-> made + t, id |-> made + t,
      callID |-> IF types[t] = "function_call" THEN made + t ELSE Absent]]

PendingLastOnly(items) ==
  IF items # <<>> /\ IsCall(Last(items)) THEN {Last(items).callID} ELSE {}

\* pendingWebSocketCallIDs.
Pending(items) == CallIDs(items)

CommittedInputOnly(response) ==
  IF itemPlan.reset THEN itemPlan.input ELSE Merge(itemHistory \o itemPlan.input)

\* What commit makes of the history.
CommittedItems(response) ==
  Merge((IF itemPlan.reset THEN itemPlan.input ELSE Merge(itemHistory \o itemPlan.input)) \o response)

\* commit.
Commit(types) ==
  /\ itemPlan # Absent
  /\ made + Len(types) <= MaxItems
  /\ LET response == Response(types)
     IN  /\ itemHistory' = CommittedItems(response)
         /\ pendingCallIDs' = Pending(response)
         /\ record' = itemPlan.known \o response
         /\ last' = response
  /\ hasCompleted' = TRUE
  /\ made' = made + Len(types)
  /\ itemPlan' = Absent
  /\ UNCHANGED plans

\* The turn fails; what the client had said is not part of the thread.
Fail ==
  /\ itemPlan # Absent
  /\ itemPlan' = Absent
  /\ UNCHANGED <<conversation, made, plans, record, last>>

Responses ==
  {<<"assistant">>, <<"function_call">>, <<"assistant", "function_call">>,
   <<"function_call", "function_call">>}

ItemsNext ==
  \/ Create
  \/ \E said \in BOOLEAN :
       \/ Transcript(said)
       \/ \E repeated \in Repeatable, answered \in SUBSET CallIDs(last) :
            Continue(repeated, answered, said)
  \/ \E types \in Responses : Commit(types)
  \/ Fail

ItemsSpec == ItemsInit /\ [][ItemsNext]_itemVars

-----------------------------------------------------------------------------
\* What items say, whatever ids they go by.
Content(items) == [i \in DOMAIN items |-> [type |-> items[i].type, n |-> items[i].n]]

Replayed == IF itemPlan = Absent THEN <<>> ELSE itemPlan.replay

\* A replay holds each item of the client's thread exactly once and nothing
\* else, whatever the client repeats and under which ids: a response that is
\* repeated is not doubled, and an item without an id is not lost
\* (websocket_state.go:384-446, 157-163, 212-217).
EachItemOnce ==
  itemPlan # Absent =>
    /\ ToSet(Content(Replayed)) = ToSet(Content(itemPlan.known))
    /\ Len(Replayed) = Len(itemPlan.known)

\* In a replay an output stands behind its call, also when the client repeats
\* the call after its output: upstream rejects an output without a call before
\* it (websocket_state.go:404-418).
OutputsFollowCalls ==
  \A o \in DOMAIN Replayed : IsOutput(Replayed[o]) =>
    \E c \in 1..(o - 1) : IsCall(Replayed[c]) /\ Replayed[c].callID = Replayed[o].callID

\* No turn is submitted that leaves a call of an earlier response of the
\* thread open (websocket_state.go:78-80, 331-355).
NoCallLeftOpen == CallIDs(Replayed) \subseteq Answered(Replayed)

\* The calls that must be answered are those the thread has open, in the
\* history and in the client's record alike: none is asked for twice, and
\* none of an abandoned thread is (websocket_state.go:234, 357-376).
PendingIsOpen ==
  /\ pendingCallIDs = CallIDs(itemHistory) \ Answered(itemHistory)
  /\ pendingCallIDs = CallIDs(record) \ Answered(record)

\* What goes upstream is the client's thread: whole, in an order upstream
\* accepts, and with no call left open (websocket_state.go:331-446).
ReplayIsThread == EachItemOnce /\ OutputsFollowCalls /\ NoCallLeftOpen
=============================================================================
