--------------------------- MODULE ChatCompletions ---------------------------
(***************************************************************************)
(* internal/proxy/chat.go: a Responses stream is turned into a Chat        *)
(* Completions answer, event by event (streamChatResponse,                 *)
(* translateChatEvent) or from the completed response (collectResponse,    *)
(* convertChatResponse), and the answer comes back in the messages of the  *)
(* next request (convertChatRequest).                                      *)
(*                                                                         *)
(* One upstream stream is given to both handlers at once, so that what two *)
(* clients would get from it can be compared.  A piece of text, reasoning  *)
(* or arguments is known by its number, a call by its place in the output. *)
(***************************************************************************)
EXTENDS Naturals, Sequences, FiniteSets, SequencesExt

CONSTANTS MaxItems,   \* bound: items of the response
          MaxPieces,  \* bound: deltas of the stream
          None

Kinds == {"reasoning", "message", "function_call"}

\* An item with its pieces as they came, and which of them are of a reasoning
\* item's summary; the others are its text.
Item == [type : Kinds, pieces : Seq(1..MaxPieces), summary : SUBSET (1..MaxPieces)]

ASSUME BoundsAssumption == {MaxItems, MaxPieces} \subseteq Nat

ASSUME NoneAssumption == None \notin Seq(Item)

VARIABLES
  output,       \* the items upstream has produced
  pieces,       \* how many deltas it has sent
  started,      \* it has sent response.created
  ended,        \* how the stream stands: open, or how it ended
  includeUsage, \* the client asked for stream_options.include_usage
  roleSent, terminalSent, tools, nextTool, \* chatStreamState
  client,       \* the streaming handler: writing, finished, or its client gone
  out,          \* the chunks it has written
  final,        \* collectResponse: the completed response
  upstreamErr,  \* an error event was read
  collected     \* the collecting handler: reading, an answer, or an error

upstream == <<output, pieces, started, ended>>
state == <<roleSent, terminalSent, tools, nextTool, client, out>>
collecting == <<final, upstreamErr, collected>>
chatVars == <<upstream, includeUsage, state, collecting>>

Ends == {"open", "completed", "failed", "EOF", "broken"}

Chunk(kind, index, piece) == [kind |-> kind, index |-> index, piece |-> piece]

Plain(kind) == Chunk(kind, None, None)

\* The type invariant; tool indices are handed out once (chat.go:533-551).
ChatTypeOK ==
  /\ output \in Seq(Item) /\ Len(output) <= MaxItems
  /\ pieces \in 0..MaxPieces
  /\ {started, includeUsage, roleSent, terminalSent, upstreamErr} \subseteq BOOLEAN
  /\ ended \in Ends
  /\ nextTool \in 0..MaxItems
  /\ tools \in [DOMAIN tools -> 0..(nextTool - 1)]
  /\ DOMAIN tools \subseteq DOMAIN output
  /\ \A i, j \in DOMAIN tools : tools[i] = tools[j] => i = j
  /\ client \in {"writing", "finished", "gone"}
  /\ final \in {None, output}
  /\ collected \in {"reading", "answer", "error"}

ChatInit ==
  /\ output = <<>>
  /\ pieces = 0
  /\ started = FALSE
  /\ ended = "open"
  /\ includeUsage \in BOOLEAN
  /\ roleSent = FALSE
  /\ terminalSent = FALSE
  /\ tools = <<>>
  /\ nextTool = 0
  /\ client = "writing"
  /\ out = <<>>
  /\ final = None
  /\ upstreamErr = FALSE
  /\ collected = "reading"

-----------------------------------------------------------------------------
\* translateChatEvent.

\* ensureRole.
Role == IF roleSent THEN <<>> ELSE <<Plain("role")>>

\* What is written, unless the client has gone, and whether the role was.
Write(chunks) ==
  IF client = "writing" THEN out' = out \o chunks ELSE UNCHANGED out

WriteWithRole(chunks) == roleSent' = TRUE /\ Write(Role \o chunks)

Created ==
  /\ ended = "open"
  /\ ~started /\ output = <<>>
  /\ started' = TRUE
  /\ WriteWithRole(<<>>)
  /\ UNCHANGED <<output, pieces, ended, includeUsage, terminalSent, tools, nextTool,
                 client, collecting>>

IndexByItem(i) == i - 1

\* The index of an output item: the next one where it has none.
ToolIndex(i) == IF i \in DOMAIN tools THEN tools[i] ELSE nextTool

\* response.output_item.added.
AddItem(type) ==
  /\ ended = "open"
  /\ Len(output) < MaxItems
  /\ output' = Append(output, [type |-> type, pieces |-> <<>>, summary |-> {}])
  /\ LET i == Len(output) + 1
     IN  IF type = "function_call"
         THEN /\ tools' = [k \in DOMAIN tools \cup {i} |-> ToolIndex(k)]
              /\ nextTool' = nextTool + 1
              /\ WriteWithRole(<<Chunk("tool", ToolIndex(i), i)>>)
         ELSE UNCHANGED <<tools, nextTool, roleSent, out>>
  /\ UNCHANGED <<pieces, started, ended, includeUsage, terminalSent, client, collecting>>

\* Upstream goes on with the last item, or with any of the calls it makes in
\* parallel.
Open(i) ==
  i = Len(output) \/ \A j \in i..Len(output) : output[j].type = "function_call"

\* The delta events: a reasoning item has those of its summary and those of its
\* text, which are written alike.
Delta(i) ==
  /\ ended = "open"
  /\ i \in DOMAIN output /\ Open(i)
  /\ pieces < MaxPieces
  /\ pieces' = pieces + 1
  /\ \E summary \in SUBSET (IF output[i].type = "reasoning" THEN {pieces + 1} ELSE {}) :
       output' = [output EXCEPT ![i].pieces = Append(@, pieces + 1),
                                ![i].summary = @ \cup summary]
  /\ IF output[i].type = "function_call"
     THEN /\ Write(<<Chunk("arguments", ToolIndex(i), pieces + 1)>>)
          /\ UNCHANGED roleSent
     ELSE WriteWithRole(<<Chunk(output[i].type, None, pieces + 1)>>)
  /\ UNCHANGED <<started, ended, includeUsage, terminalSent, tools, nextTool, client,
                 collecting>>

Finish == IF DOMAIN tools # {} THEN "tool_calls" ELSE "stop"

\* response.completed and response.incomplete.
Complete ==
  /\ ended = "open"
  /\ ended' = "completed"
  /\ WriteWithRole(<<Chunk("finish", None, Finish)>>
                   \o (IF includeUsage THEN <<Plain("usage")>> ELSE <<>>)
                   \o <<Plain("DONE")>>)
  /\ terminalSent' = TRUE
  /\ final' = output
  /\ UNCHANGED <<output, pieces, started, includeUsage, tools, nextTool, client,
                 upstreamErr, collected>>

\* error and response.failed.
FailUpstream ==
  /\ ended = "open"
  /\ ended' = "failed"
  /\ Write(<<Plain("error"), Plain("DONE")>>)
  /\ terminalSent' = TRUE
  /\ upstreamErr' = TRUE
  /\ UNCHANGED <<output, pieces, started, includeUsage, roleSent, tools, nextTool,
                 client, final, collected>>

\* The stream ends, possibly without having been completed.
EOF ==
  /\ ended \in {"open", "completed", "failed"}
  /\ ended' = "EOF"
  /\ Write(IF terminalSent THEN <<>> ELSE <<Plain("DONE")>>)
  /\ client' = IF client = "gone" THEN client ELSE "finished"
  /\ collected' = IF upstreamErr \/ final = None THEN "error" ELSE "answer"
  /\ UNCHANGED <<output, pieces, started, includeUsage, roleSent, terminalSent, tools,
                 nextTool, final, upstreamErr>>

\* Reading fails.
Break ==
  /\ ended \in {"open", "completed", "failed"}
  /\ ended' = "broken"
  /\ client' = IF client = "gone" THEN client ELSE "finished"
  /\ collected' = "error"
  /\ UNCHANGED <<output, pieces, started, includeUsage, roleSent, terminalSent, tools,
                 nextTool, out, final, upstreamErr>>

\* A write to the streaming client fails; its handler returns.
HangUp ==
  /\ client = "writing"
  /\ client' = "gone"
  /\ UNCHANGED <<upstream, includeUsage, roleSent, terminalSent, tools, nextTool, out,
                 collecting>>

ChatNext ==
  \/ Created \/ Complete \/ FailUpstream \/ EOF \/ Break \/ HangUp
  \/ \E type \in Kinds : AddItem(type)
  \/ \E i \in 1..MaxItems : Delta(i)

ChatSpec == ChatInit /\ [][ChatNext]_chatVars

-----------------------------------------------------------------------------
\* What the clients have in the end.

\* The members of a set, in an order that is given by its pairs.
InOrder(S, before) ==
  [r \in 1..Cardinality(S) |->
     CHOOSE x \in S : Cardinality({y \in S : <<y, x>> \in before}) = r - 1]

Ascending(S) == {pair \in S \X S : pair[1] < pair[2]}

\* The items at the indices of a set, in their order.
At(items, S) == [r \in 1..Cardinality(S) |-> items[InOrder(S, Ascending(S))[r]]]

CallsMade == {i \in DOMAIN output : output[i].type = "function_call"}

Calls == InOrder(CallsMade, Ascending(CallsMade))

\* Where the pieces of the items of a type are.
Places(type) ==
  {place \in (1..MaxItems) \X (1..MaxPieces) :
     /\ place[1] \in DOMAIN output /\ output[place[1]].type = type
     /\ place[2] \in DOMAIN output[place[1]].pieces}

PieceAt(place) == output[place[1]].pieces[place[2]]

PartSwapped(place) == IF PieceAt(place) \in output[place[1]].summary THEN 2 ELSE 1

\* The part of its item a piece is in: the summary is taken first.
Part(place) == IF PieceAt(place) \in output[place[1]].summary THEN 1 ELSE 2

\* The order of the pieces: by item, part and place in it.
SummaryBefore(S) ==
  {pair \in S \X S :
     \/ pair[1][1] < pair[2][1]
     \/ pair[1][1] = pair[2][1] /\ Part(pair[1]) < Part(pair[2])
     \/ /\ pair[1][1] = pair[2][1] /\ Part(pair[1]) = Part(pair[2])
        /\ pair[1][2] < pair[2][2]}

Joined(type) ==
  LET places == InOrder(Places(type), SummaryBefore(Places(type)))
  IN  [r \in 1..Cardinality(Places(type)) |-> PieceAt(places[r])]

\* convertChatResponse.
Converted ==
  [content |-> Joined("message"),
   reasoning_content |-> Joined("reasoning"),
   tool_calls |-> [c \in DOMAIN Calls |->
                     [id |-> Calls[c], arguments |-> output[Calls[c]].pieces]],
   finish_reason |-> IF Calls # <<>> THEN "tool_calls" ELSE "stop"]

Indices == 0..MaxItems \cup {None}

\* The chunks of a kind with one of some indices.
Select(chunks, kind, indices) ==
  At(chunks, {c \in DOMAIN chunks : chunks[c].kind = kind /\ chunks[c].index \in indices})

Of(kind) == Select(out, kind, Indices)

Pieces(chunks) == [c \in DOMAIN chunks |-> chunks[c].piece]

\* What a client puts together from the chunks, calls by their index.
Assembled ==
  [content |-> Pieces(Of("message")),
   reasoning_content |-> Pieces(Of("reasoning")),
   tool_calls |->
     [c \in DOMAIN Of("tool") |->
        [id |-> Select(out, "tool", {c - 1})[1].piece,
         arguments |-> Pieces(Select(out, "arguments", {c - 1}))]],
   finish_reason |-> Of("finish")[1].piece]

InputNamedCalls(message) ==
  (IF message.content # <<>> THEN <<[type |-> "message", id |-> None]>> ELSE <<>>)
  \o LET calls == message.tool_calls
         named == At(calls, {c \in DOMAIN calls : calls[c].arguments # <<>>})
     IN  [c \in DOMAIN named |-> [type |-> "function_call", id |-> named[c].id]]

\* convertChatRequest of an assistant message.
AssistantInput(message) ==
  (IF message.content # <<>> THEN <<[type |-> "message", id |-> None]>> ELSE <<>>)
  \o [c \in DOMAIN message.tool_calls |->
        [type |-> "function_call", id |-> message.tool_calls[c].id]]

\* convertChatRequest of the messages that follow: the client's results.
ToolInput(message) ==
  [c \in DOMAIN message.tool_calls |->
     [type |-> "function_call_output", id |-> message.tool_calls[c].id]]

-----------------------------------------------------------------------------
Streamed == client = "finished" /\ ended = "EOF"

\* x is text of an item, and y of its summary but came later.
Late(x, y) ==
  /\ x < y
  /\ \E i \in DOMAIN output :
       /\ {x, y} \subseteq ToSet(output[i].pieces)
       /\ x \notin output[i].summary /\ y \in output[i].summary

\* The same pieces, none twice; two of them have changed places exactly where a
\* part of a summary came late.
Rearranged(streamed, joined) ==
  /\ Len(streamed) = Len(joined) /\ ToSet(streamed) = ToSet(joined)
  /\ \A k, l \in DOMAIN streamed : streamed[k] = streamed[l] => k = l
  /\ \A k, l \in DOMAIN streamed, m, n \in DOMAIN joined :
       k < l /\ joined[m] = streamed[k] /\ joined[n] = streamed[l]
         => (n < m <=> Late(streamed[k], streamed[l]))

SummariesFirst == \A x, y \in 1..MaxPieces : ~Late(x, y)

\* Streaming and collecting the same response give the same content, the same
\* calls and the same finish reason, and the stream reports a finish exactly
\* where the collected answer is one.  The reasoning is the same too, but that the
\* collected answer has the summary of an item before its text, which the
\* stream has as they come (chat.go:311-403, 454-583, service.go:506-548).
StreamAgrees ==
  Streamed =>
    IF collected = "answer"
    THEN /\ [Assembled EXCEPT !.reasoning_content = Joined("reasoning")] = Converted
         /\ Rearranged(Assembled.reasoning_content, Converted.reasoning_content)
         /\ SummariesFirst => Assembled = Converted
    ELSE Of("finish") = <<>>

\* The stream of chunks is one a client can read: the role first and once,
\* a call announced before its arguments come, one finish, and usage only
\* after it and only if asked for.  Read to its end, it closes with exactly one
\* [DONE], however upstream ended (chat.go:442-451, 491-578).
Readable ==
  /\ Streamed => out # <<>> /\ Last(out).kind = "DONE"
  /\ Len(Of("role")) <= 1 /\ Len(Of("finish")) <= 1
  /\ \A c \in DOMAIN out :
       /\ out[c].kind \in {"message", "reasoning", "tool", "finish"}
            => \E b \in 1..(c - 1) : out[b].kind = "role"
       /\ out[c].kind = "arguments"
            => \E b \in 1..(c - 1) : out[b].kind = "tool" /\ out[b].index = out[c].index
       /\ out[c].kind = "usage" => includeUsage /\ out[c - 1].kind = "finish"
       /\ out[c].kind = "DONE" => c = Len(out)

\* Sent back with the client's results, each call of the answer reaches
\* upstream with its result behind it, in the order the calls were made, also
\* calls without arguments (chat.go:164-184).
ResentPaired ==
  Streamed /\ collected = "answer" =>
    LET input == AssistantInput(Assembled) \o ToolInput(Assembled)
        some(type) == At(input, {i \in DOMAIN input : input[i].type = type})
        ids(type) == [c \in DOMAIN some(type) |-> some(type)[c].id]
    IN  ids("function_call") = Calls /\ ids("function_call_output") = Calls

\* A streaming client gets the collected answer, but for the order of late
\* summaries, in chunks it can read
\* (chat.go:311-403, 442-583).
StreamedAnswer == StreamAgrees /\ Readable
=============================================================================
