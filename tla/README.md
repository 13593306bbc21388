# A TLA+ verification of CodexOne

CodexOne is a Go gateway that offers one ChatGPT/Codex account through an
OpenAI-compatible API: HTTP and WebSocket `responses`, Chat Completions, a
small administration site, SQLite or PostgreSQL underneath. This directory
holds TLA+ modules translated from its source, TLC configurations that check
them on small instances, and proofs checked by TLAPS.

## 1. Inventory

| component | state | operations | interacts with | what is hard | modelled by |
|---|---|---|---|---|---|
| Codex account manager `internal/codex/auth.go` | `credentialMu`, login flows in the session store, the account row | start/poll/complete a login, import, `FreshCredential`, `FetchQuota`, `DeleteAccount` | every proxied request asks it for a credential; OpenAI's token endpoint | refreshes, logins and disconnects of concurrent requests; rotating refresh tokens; late answers | `CodexAccount` |
| Account and quota rows `internal/store/store.go` | two single-row tables | `SaveAccount`, `DeleteAccount`, `SaveQuota` | the manager | a snapshot saved for an account that is gone | `CodexAccount` |
| Responses WebSocket `internal/proxy/websocket.go` | upstream socket and generation, retry time, inbox, writer | one turn per client message; reuse, dial, forward, fall back to HTTP | manager, conversation, upstream | broken sockets, unknown delivery, left-over frames, account switches | `WebSocketTurn`, `DownstreamInbox` |
| Upstream socket `upstreamWebSocket` in `websocket.go` | event queue, byte budget, error, three channels that close | `readLoop`, `pingLoop`, `close` | the session takes its frames | a full queue nobody empties, two closers, the reason of a close | `UpstreamSocket` |
| Conversation record `internal/proxy/websocket_state.go` | history, last response and generation, settings, pending calls | `prepare`, `bodyFor`, `commit` | the session | replay and increment must agree with what upstream remembers | `WebSocketTurn`; the items: `ReplayHistory` |
| Server lifecycle `cmd/server/main.go`, `proxy/service.go` | activity counter and channel, shutdown flag, registry of WebSockets, cleanup goroutine | begin, end, `BeginShutdown`, `WaitForIdle`, `run` | all handlers | accepting races with shutting down | `Lifecycle` |
| Session store `internal/session/store.go` | map with expiries, `nextExpiry` | `Put`, `Get`, `Delete` | login flows, admin sessions | two-phase `Get`, cached next expiry, capacity | `SessionStore`, `TtlMap` |
| HTTP handlers `proxy/service.go` | models cache | `Responses`, `Compact`, `InputTokens`, `Models` | manager, upstream | a cache filled for the previous account | planned |
| Administrator sign-in `internal/web` | password hash, sessions, login limiter | sign in, sign out, change password, guard every `/api` call | session store, database | a password change against sign-ins and calls in flight; parallel attempts | `AdminAccess` |
| API keys `internal/web`, `store.go` | rows of keys | create, list, revoke, look up | every proxied request; the keys page | revocation against a session in flight; each use reads the row again | `KeysPage`, but for the lookups |
| Chat adapter `proxy/chat.go` | per-stream converter | one pass over upstream events; the same from the completed response; requests back | HTTP handler | event order, tool indices, exactly one end, two translations that must agree | `ChatCompletions` |
| Identity remapping `proxy/identity.go` | two-way map per connection | rewrite bodies and headers | all proxy paths | collisions, budget | planned |
| Normalisation `proxy/normalize.go`, `upstream_compat.go` | none | rewrite a request | all proxy paths | unique item ids | planned in part |
| Key file `cryptox/cipher.go` | one file | load or create | start-up | crash between create and write | planned |
| Console `web/src/App.tsx`, `api.ts`, `Login.tsx`, `Shell.tsx` | `session`, the page of the hash, a form that is sending | check the session, sign in and out, navigate | every page's calls; the browser's cookie | a 401 signs out whoever asked and however long ago | `ConsoleCalls`, `AdminConsole` |
| Account page `web/src/pages/Account.tsx` | account with quota, device login, three forms, one `busy` | load, four buttons, three forms, polling | `/api/admin/account`, password | polls overlap, forms are closed while they send, answers come in any order | `AccountPage` |
| Keys page `web/src/pages/Keys.tsx` | list, form, the secret just made | load, create, revoke | `/api/admin/keys` | the secret exists in one answer only | `KeysPage` |
| Overview page `web/src/pages/Overview.tsx` | day, data, selected entry | load a day, refresh, select | `/api/admin/overview`, `logs` | the answer for an earlier day comes last | `OverviewPage` |
| Dialogs `web/src/components/Modal.tsx` | `document.body.style.overflow`, through closures | open, close, render | the two pages with dialogs | each saves what another has set | `Dialogs` |
| Configuration, logging ring, TLS client, routing | - | - | - | I/O, display, or read once | not modelled |

What makes each component correct:

* **manager**: the stored account is the one last connected; a refresh token
  is spent once; a refresh does not lose the next one; a finished login is not
  redeemed again; no call hangs; a quota belongs to the account it is shown with.
* **WebSocket session**: a turn reaches upstream once, on its own account, with
  exactly the conversation and settings the client has in front of it, and the
  frames it forwards answer it. The client's messages are handled in order or
  not at all, and whoever ends the session, all of its goroutines end.
* **upstream socket**: frames arrive in order and without a gap, the byte budget
  is exact, its goroutines end with the connection, and the session learns why.
* **lifecycle**: an accepted proxy request finishes and is logged before the database
  closes, and a shutdown never hangs on a session or a stream.
* **session store**: a live entry is lost only by being deleted or replaced.
* **administrator sign-in**: a session lets nobody in once the password it was
  opened with has been changed, however sign-in, change and call interleave;
  parallel attempts do not outrun the limiter.
* **replayed items**: a replay is the client's thread, each item once, each
  output behind its call, no call left open, whatever the client repeats.
* **chat adapter**: streaming and collecting one response give one answer, but
  for the place of a reasoning summary that came after its item's text; the
  stream is readable and ends once; the answer can be sent back.
* **console**: once no call is under way, what a page shows is what the server
  has; the administrator is signed out for a reason; the secret of a new key is
  seen; the page scrolls again after a dialog.
* **planned ones**: a remapped identity maps back; a stored key file is whole.

The `hazards` of `PROJECT.json` list, at their lines, the places where these
can go wrong and which property watches each.

## 2. Modules

### `CodexAccount`

A process is a goroutine serving one HTTP request. Its control state `pc` is
where the call is between two points at which others can move: an HTTP round
trip to OpenAI, or the wait for `credentialMu`. The row, the quota and the
login flows are the variables `row`, `quota` and `flow`; a token is named by
the *grant*, the answer of the token endpoint that contained it. The endpoint
is external: it may rotate a refresh token and refuses a rotated one.

| action | code |
|---|---|
| `CallFresh`, `Relock` | `FreshCredential` up to the upstream call: read, test, lock, read again |
| `RefreshAnswered`, `SaveRefreshed`, `RefreshFails` | the answer, `credentialFromTokens` with the inherited fields, `saveCredential`, unlock |
| `QuotaAnswered`, `QuotaFails` | the rest of `FetchQuota` |
| `StartFlow`, `ContinueFlow`, `Exchanged`, `EndFlow`, `FlowFails` | device and browser logins, which differ in how the code is obtained and not in what they write |
| `Import`, `Replace`, `ReplaceFails`, `Finish` | `ImportAuthJSON`, `replaceCredential`, the removal of the flow |
| `Disconnect` | `DeleteAccount` |
| `Expire` | an access token comes within two minutes of its end |

History variables: `current` (grant of the last login), `redeemed` (logins
reported complete), `excused` (tokens used up by a refresh whose answer was
never saved; the code cannot know of them).

### `WebSocketTurn`

One downstream connection. A turn is one client message; its number also
stands for its input, its response and whatever settings it carries, so a
transcript is the *thread*, the sequence of turns in it. `phase` is where the
session goroutine is: `idle` (the loop of `ResponsesWebSocket`), `planned`
(`prepare` succeeded), `ready` (an upstream is chosen), `forward` (submitted
over the socket), `fallback` and `answered` (over HTTP), `closed`.

`sock` is `s.upstream` with its far end: the requests it has not answered, the
thread it remembers, the frames under way. Upstream may break silently, lose
what was written, complain and go on, or answer late. `BeginTurn` takes any
account: whichever is connected when `FreshCredential` runs. `seen`, `said`
and `owed` record what the client saw complete, which is what the properties
compare the submissions with; they are never read by the actions.

### `UpstreamSocket`

The inside of what `WebSocketTurn` calls `sock`: `readLoop` (`reader`, with the
frame it has read in `held`), `pingLoop` (`pinger`) and the session around the
`events` channel. `closed` holds which of the channels `stop`, `events` and
`done` are closed, `closing` who is inside `closeOnce.Do`. `queued` is the byte
budget, reserved when a frame is read and released after it was taken.
`StopOffering` is the `select` of the reader taking `stop`, which it may also
where the queue has room; `LeaveReading` is its deferred calls, one at a time.
Upstream numbers its frames; `got` is the history of those the session took.

### `DownstreamInbox`

The client's side of the session: `reader` is the goroutine that fills the
inbox, `canceler` the one that cancels the session's context when the reader
has ended, `pinger` is `pingLoop`, and `session` is `ResponsesWebSocket`, with
a turn cut down to where it waits and what it watches. Where `UpstreamSocket`
waits for room, `Offer` closes the connection. `Take` and `SeeEnd` are the cases
of one `select`, of which any that is ready may be chosen. A turn on the socket
(`forwarding`) watches `inbox.done` and the context; one over HTTP (`streaming`)
has the context in its request only, so it is the canceler that ends it
(`CutOff`). `ReadFails` on an open connection is the read deadline that passes
without a message or a pong. `got` and `late` are history.

### `Lifecycle`

`main` is where `run` is, `pc` where each request is. A WebSocket passes
`upgrading`, `upgraded` (hijacked: net/http no longer knows it) and only then
registers, so that `closeAll`, copied under the lock and carried out outside
of it, can come in between. `idle` numbers the channels `beginRequest` makes;
`closedIdle` are those `endRequest` has closed. The deferred calls of `run`
are `StopCleaner` and `CloseDatabase`.

### `ReplayHistory`

The items `WebSocketTurn` leaves out. An item is its type and number with the
id it goes by; upstream's items have ids, a client's own have none. `Prepare`
and `Commit` are `prepare` and `commit`; `Merge` is `mergeWebSocketItems`:
`FirstCalls` drops later calls of one `call_id`, `OneOfEachID` keeps the last
item of an id, or the last an output refers to. The client is an actor of its
own: it opens a thread, sends its whole transcript, or continues it with a
message, outputs for some of the open calls, and a repetition of earlier items,
possibly under other ids. `record` is the thread as the client has it; what is
replayed is compared with it and never computed from it. A filter is given by
the indices it keeps (`At` takes the items at them, by rank) rather than by
recursion, so that the proofs can reason about it.

### `AdminAccess`

A call is a goroutine that serves one request and gives way wherever it touches
the database, the session store or the limiter. `loginHandler` is `Admit`,
`ReadHash`, then `Fail`, or `PutSession` and `Welcome`; a guarded call is
`Authenticate` (the session's value), `Verify` (the password hash) and the
operation: `Logout`, `ReadCurrent` and `SetPassword`, or one that is not about
access (`Leave`). `Allowed` and `Failure` are the limiter's methods. A hash is
the password with the number of the change that made it, since bcrypt's salt
makes two hashes of one password differ. `Crash` may keep the sessions (Redis)
or lose them. `issued`, `fails` and `promise` are history variables.

### `ChatCompletions`

One upstream stream is given to both translations at once: `out` holds the
chunks `streamChatResponse` has written, `final` and `collected` what
`collectResponse` found. Actions are the events `translateChatEvent` tells
apart (`Created`, `AddItem`, `Delta`, `Complete`, `FailUpstream`) and the ways
a stream ends (`EOF`, `Break`); `HangUp` is the client's end. `Converted` is
`convertChatResponse`, `Assembled` what a client makes of the chunks, and
`AssistantInput` with `ToolInput` is `convertChatRequest` of what comes back.
What is read off a sequence is given by the order of the places it comes from
(`InOrder`, and with it `At`, `Select`, `Calls` and `Joined`).

A delta of a reasoning item is one of its summary or one of its text
(`response.reasoning_summary_text.delta`, `response.reasoning_text.delta`), and
the item's `summary` says which. Both are streamed alike, as they come
(`chat.go:512-522`); the collected answer has the summary of each item before its
text (`chat.go:339-359`, `Part` and `SummaryBefore`). So the two answers differ
where part of a summary is `Late`, that is, comes after text of its item, and
`StreamAgrees` says by how much: content, calls and finish reason are equal; the
reasoning is the same pieces, `Rearranged`, with two of them in the other order
exactly where the later is a late part of the summary. Without late parts
the answers are equal.

### The administration console

The console is one browser tab. `ConsoleCalls` is `api.ts` and what is common
to its calls: a call is sent with the cookie of that moment, done by the server
in one step, and answered; those under way are done and answered in any order
and may fail on either side of being done. `to` says whose closure awaits the
answer; when that component is unmounted it is nobody's, and React drops what
the closure sets, while the calls the closure goes on to make are made all the
same (`NobodyAnswered`, `LoginAnswered`). `mine` says that the dialog or device
login the call was made for is still there.

`OverviewPage`, `AccountPage` and `KeysPage` hold each page's state in one
record, named as the component's `useState` calls, and the part of the server's
state it shows: `row` and `live` (device logins to poll), `stored`. They have
the administrator's steps, the server's and the answers' in this order.
`Dialogs` is the effect of `Modal`: `onClose` is a new function whenever the
page renders, so every open dialog cleans up and sets up again then, and a step
of the console ends with `Rendered`. `AdminConsole` composes them: `App`'s
session, navigation that mounts a page and orphans the calls of the last one,
the sign-in form, and `SignedOut`, which is what the event `codexone:unauthorized`
does.

History: `heard` (the page has missed an answer, or applied one that another
had overtaken), `old` of a call, `given` (keys whose secret was put away, or
came for a page that had gone), `stacked`. The properties about what a page
shows exclude late answers, because nothing in the code orders them: with an
account disconnected while its quota is fetched, the quota of no account is
shown until the page is opened again. `plan` picks, per behaviour, the kinds of
calls made in it, so that the pages do not multiply each other's states.

### `SessionStore` and `TtlMap`

`TtlMap` is what callers may rely on: a bounded map whose entries end when a
caller replaces or deletes them or they expire. Its `requests` are the calls
callers wait for, so that nothing can be lost without somebody asking for it.
`SessionStore` is `memoryStore`, with `Put` cut between reading the clock and
taking the lock, and `Get` cut between its look under the read lock, the clock,
and the removal under the write lock. It implements `TtlMap` with `until[k]` the expiry of `items[k]` while that lies
ahead, and 0 otherwise: a stored entry that has expired is not there for a
caller, so removing it, lazily, is a stutter.

## 3. Runs

| run | question | instance | distinct states |
|---|---|---|---|
| `codex_account` | safety of the manager; does every call return | 2 processes, 2 accounts, 3 grants, 1 flow | about 590 000 |
| `codex_account_quota` | is a stored quota the stored account's (violated) | no flow | - |
| `websocket_turn` | safety of the turn machine | 4 turns, 2 accounts, 5 kinds of request | about 1.5 million |
| `websocket_fallback` | is a shown response always continued (violated) | 3 turns | - |
| `session_store` | implements `TtlMap`, and the bounds | 3 keys, 2 callers, capacity 2, lifetimes 1 and 3, clock to 4 | about 1.3 million |
| `upstream_socket` | order, budget and end of the socket's goroutines | queue of 2 frames and 4 bytes, frames of 1 or 2 bytes, 5 frames | about 240 000 |
| `downstream_inbox` | order, budget and end of the session's goroutines | queue of 2 messages and 4 bytes, messages of 1 and 2 bytes and one too long, 5 messages | about 140 000 |
| `lifecycle` | safety and end of a shutdown | 1 HTTP request, 2 WebSockets | about 49 000 |
| `admin_access` | sessions against password changes; the limiter | 3 calls, 2 passwords, 2 tokens, a change; 2 failures in a window of 1 block for 2; clock to 2 | about 2.8 million |
| `chat_completions` | streamed and collected answers agree, but for late summaries | 3 items, 4 deltas | about 1.1 million |
| `replay_history` | what is replayed is the client's thread | 4 turns, 8 items | about 10 000 |
| `admin_console` | what the console shows, and when it signs out | 2 calls at a time, 2 sign-ins, 2 accounts, 2 device logins, 2 keys, 2 days, 7 plans | about 810 000 |

Why the bounds are enough. *Account*: three grants are a login, its refresh
and a login of another account, with both processes anywhere in between; the
one mutex makes a third process repeat the second. *Turns*: the shortest ways
to go wrong need three turns (one completed, one that fails or resets, one
that continues), and a fourth lets a socket be redialed in between; the five
request kinds are a new thread with both settings or neither and an append with
none, new instructions, or new tools and blank instructions. All twelve kinds
with three turns (1.1 million states) show nothing more. Accounts are
symmetric. *Store*: capacity 2 of 3 keys gives refusals and replacements, two
callers give every overtaking of two calls, lifetimes 1 and 3 let an entry be
the earliest, be overtaken by a shorter one, and expire in between. *Socket*: 5 frames fill the
queue, the reader's hand and the session's, and leave one over; four bytes are
fewer than these frames can hold and more than the queue needs. *Inbox*: the
same, so that a message is refused for the queue's length, for its bytes and for
its own size, with one message in hand and one behind. *Shutdown*:
one request net/http knows of and two it does not know of. *Sign-in*: two
tokens, so that a login has read the old hash while a session of the other token
changes the password, and stores and uses its own session afterwards; one
change, which tells the hash of before from the one in force; three calls, since
it takes three attempts side by side for a late one to open a window and lift the
block; the clock passes a window and a whole block, and the bound on the failures
is reached. *Chat*: three items are two parallel
calls and something before, between or behind them; four deltas let the
arguments of both interleave, and summaries and text of an item in all orders. *Items*: four turns are a response with calls,
its outputs, a repetition of both, and a commit that must still be right.
*Console*: two calls are two polls, two loads, a form's call and another's, or
a call and what follows it, which takes over its slot; the plans are signing in
and out beside a page with calls and a page with dialogs, the three ways to
connect an account together, what there is to do with one, and the keys beside
another page and beside a sign-out. A plan starts with an empty database, which
reaches the others.

Deadlock is checked in the passing `CodexAccount` run. The others may
stop: the session, socket or stream ends; the clock and the numbers of turns
and requests are bounded.

**Fairness.** `CodexAccount`: every HTTP round trip ends, since the client has
a 30 second timeout (weak fairness of what a process has under way, by answer
or failure), and a goroutine
waiting for `credentialMu` gets it, since Go's mutex hands itself over to a
waiter that has starved for a millisecond (strong fairness of the step that
takes it, because the mutex may be taken and released any number of times).
No login, disconnect or expiry is ever forced. `Lifecycle`: the calls of `run`,
the timer of `server.Shutdown`, and the end of a request whose connection is
closed. Neither the signal nor the drain's timer is fair: the property must
hold although the timer never fires, so it is the cut-off that ends the
requests. A request need not finish by itself. `UpstreamSocket`: its goroutines
run, a ticker ticks, and writing to a connection that is gone fails in the end
(`WriteControl` has a deadline). A read blocks for as long as nothing comes,
the far end need never send or break, and the session need neither take a
frame nor close: that the goroutines end must not depend on it.

`DownstreamInbox`: goroutines run, the ticker ticks, and the database and a
cancelled request answer. The read deadline need not pass while the connection
is open, and upstream need never answer a turn: that everything ends once the
client has left must not depend on it.

**What the properties combine.** `UsedOnce`, `OwnSocket`, `ShutdownInOrder`,
`GaplessOrTold`, `InboxKept`, `ReplayIsThread`, `StreamedAnswer`, `LimiterHolds`
and `Current` are each the conjunction of named properties about one promise, stated above it.

**What the console's properties leave open.** Three behaviours of the code are
excluded by name in the properties, and the run reaches all of them. A wrong
current password is answered with 401 (`admin.go:124`), which `api.ts` takes
for the end of the session, so the form's own error is never seen
(`SignedOutRightly`). The same event ends a new session when a call made with
the old cookie is refused late. And `ScrollLock` allows for two dialogs at once:
a form opened while a browser or device login is being started is joined by the
login's dialog; Escape closes the one that comes first in the page, and when
the other is closed too, `body` keeps `overflow: hidden` until it is reloaded.

**What the two violated runs show.** `codex_account_quota`: a quota fetch is
under way while another account replaces the stored one; `SaveQuota` then
puts the old account's numbers beside the new account, where they stay until
the next fetch. `ForeignQuotaOnlyIfLate` shows, and the proof for any instance,
that this is the only way to get there. `websocket_fallback`: the response of
an HTTP fallback is shown, its commit fails, the session goes on, and the next
append is sent with the history before it. The same failure over the WebSocket
ends the session. `ContextComplete` shows that apart from this case, and until
the client starts a new thread, every turn has its exact context.

## 4. Proofs

`CodexAccountProofs` proves for any sets of processes, accounts, grants and
flows, assuming only that `Owner` maps grants to accounts and `None` is none
of them (`OwnerAssumption`, `NoneAssumption`):

* `TypeCorrect`: `Spec => []TypeOK`
* `LastLoginWins`: `Spec => []RowIsLastLogin`
* `SwitchDropsQuota`: `Spec => []ForeignQuotaOnlyIfLate`
* `SingleUse`: `Spec => UsedOnce`, of refresh tokens and of login flows
* `TokenKept`: `Spec => RefreshKeepsToken`

None of them but the first is inductive. That a refresh does not bring an old
account back depends on what its goroutine still holds when it saves, so the
invariant `IInv` adds: `Shape`, what a process holds at each `pc`; `LockInv`,
the mutex is held by the one process in a refresh and by nobody else;
`RefreshInv`, during a refresh the row is exactly the credential the process
read, because every other writer waits for the same mutex; and `TokenInv`, a
rotated token is gone from the row unless it is excused. One lemma per conjunct
goes through the actions; `Invariance` joins them.

`SessionStoreProofs`, for any finite set of keys, any callers and capacity and
any lifetimes of which one is the longest (`SizeAssumption`):

* `ImplementsMap`: `Spec => KeepsPromise`, the refinement of `TtlMap`
* `SweepNotMissed`: `Spec => []NextExpiryNotLate`
* `NeverLockedOut`: `Spec => RefusedOnlyWhenFull`
* `TypeCorrect`: `Spec => []TypeOK`, the bound on the entries included

The invariant is `NextExpiryNotLate` entry by entry with what a call holds
between the clock and the lock: `now` is not ahead of the clock, and what it is
to store ends after `now` (`CallInv`). The start of a `Put` or `Delete` maps to `Call`, its step
under the lock to `Put`, `Refuse` or `Delete`, the clock to `Tick`, and a `Get`
with its lazy removal to a stutter. That a `Put` need not sweep before `nextExpiry`
follows from `SweepNotMissed`; that the sweep's new minimum exists, from the
well-ordering of the naturals, which the library gives for finite sets
(`LeastNatural`).

`AdminAccessProofs`, for any finite set of calls, any passwords and tokens, a
limit of two or more and blocks that outlast windows (`BoundsAssumption`), if
`None` is none of what it stands beside (`NoneAssumption`):

* `OldSessionsEnd`: `Spec => SessionDiesWithPassword`
* `LimiterHeld`: `Spec => LimiterHolds`
* `TypeCorrect`: `Spec => []TypeOK`

The first is about one step, and rests on where a session's value was before:
the hash its login read, from before the token is known to anybody (`FreshInv`),
while it is stored (`StoredInv`), until a call compares it (`FetchedInv`).

The second bounds a history, the failures of the last window, by the limiter's
one count. While an address is blocked nobody is let in, so each failure uses
up one of the calls that were at work (`BlockedInv`, `ServedInv`); while it is
not, those of the entry's window are counted (`CountedInv`), and those before it
stem from the window that ended or was blocked (`ForgottenInv`). `PromiseInv`
follows a block for as long as nothing from before it has ended. The bound is
`2 * (Limit + Cardinality(Calls) - 2)`; one call less for the second window, as
one might expect, is not true, and TLC shows it with three calls.

`ServerProofs` has two parts. The first is `Lifecycle`, for any finite set of
requests and any WebSockets among them:
`ShutdownOrdered` (`Spec => []ShutdownInOrder`), `IdleSignalled`
(`Spec => []IdleSignal`) and `TypeCorrect`. The invariant adds what `run` has
done at each place of its shutdown (`ShuttingDownInv`, `AwaitInv`), and that of
the registered sessions `closeAll` has closed those it no longer has to
(`ClosingInv`). That the count is that of the accepted requests needs them to be
finitely many.

The second is `ChatCompletions`, for any `MaxItems` and `MaxPieces`, so that both
bounds of the run are lifted:

* `StreamedAsCollected`: `ChatSpec => []StreamedAnswer`, agreement but for the
  order of late summaries
* `CallsSentBack`: `ChatSpec => []ResentPaired`
* `ChatTyped`: `ChatSpec => []ChatTypeOK`

`StreamedAnswer` speaks of finished streams; the invariant (`ChatInv`) says of
every chunk written so far what it adds. The index of a call is its place among
the calls (`ToolsInv`). The pieces of a text, chunk by chunk, are those of its
items one after the other (`TextInv`), because only the last item gets pieces of
text. Calls may get theirs in turn, so that the same holds of each call by
itself: announced once, its pieces behind its index, nothing at an index not yet
given (`CallInv`). `NumbersInv` says that pieces are numbered
as they come and that only reasoning has a summary; with it, of two pieces of a
text the streamed and the collected order differ exactly where the later is a
late part of a summary (`LateSwaps`), and as sequences in these two orders
(`Listed`) they are each other `Rearranged` (`ReasoningRearranged`), or equal where
nothing is late (`OrderKept`). `FinishInv` and `OnceInv` count the finish and the role, `ReadInv`
puts each chunk behind those it needs and nothing behind `[DONE]`, and `StandInv`
relates the two handlers to the stream they read.

An item or a piece more changes every sequence read off the state, and showing
how would take induction if they were defined by recursion or folds. They are
defined by an order of places, where three lemmas take its place: in a finite
order the members below one tell it apart (`Positions`), so there is exactly one
sequence in that order (`Placed`), and a member above all others is appended to
it and moves none (`InOrderLonger`, then `AtLonger` and `SelectLonger`).

`UpstreamSocketProofs`, for any queue, budget, sizes and number of frames:

* `NoGapUntold`: `Spec => []GaplessOrTold`
* `BudgetKept`: `Spec => []BudgetExact`
* `TypeCorrect`: `Spec => []TypeOK`, the limits of the queue included

The invariant numbers the frames from what was taken over the queue and the
reader's hand to the wire (`QueueInv`, `WireInv`), and says who must have left a
reason when a channel is closed (`ReasonInv`). `BudgetExact` states the sum over
the queue by its partial sums from the back (`Tallies`), which shift when a frame
is taken and all grow by its size when one is offered; that needs no induction
over the queue, which a fold would.

`DownstreamInboxProofs`, for any backlog, budget, sizes and number of messages:

* `MessagesKept`: `Spec => []InboxKept`
* `TypeCorrect`: `Spec => []TypeOK`

The argument is that of the upstream socket, but for the end: the reader
refuses a message only for good, so what is in the queue and in its hand is
always what follows the last one taken (`QueueInv`, `WireInv`).

`WebSocketTurnProofs`, for any accounts, kinds of requests and number of turns,
with the HTTP fallback or without (`ConstantsAssumption`):

* `ContextKept`: `Spec => []ContextComplete`
* `NeverResubmitted`: `Spec => []SubmittedOnce`
* `SocketToItself`: `Spec => []OwnSocket`
* `SettingsKept`: `Spec => []CarriedOver`
* `TypeCorrect`: `Spec => []TypeOK`

`ContextComplete` compares what upstream answers on with what the client has
seen, and three things lie between. The conversation is what the client has
seen, unless a fallback response could not be kept (`KnownInv`). What upstream
remembers on a socket is the conversation whenever their generations agree and
nothing is outstanding between turns (`QuietInv`), which is why an increment may
go out there and only there; a new socket never has an old generation
(`GenInv`). During a turn whatever is outstanding answers it (`AnswerInv`). `TransportInv`
counts the submissions by the place in the turn; `LengthInv` bounds the threads.

For `SettingsKept` the settings in force are those of the last turn of the
thread that set them; that such a turn exists in a thread of any length follows
from the well-foundedness of strict subsets (`LargestIndex`), and that adding a
turn changes it as `commit` does, from two lemmas about `LastAmong`.

The second half of that module is about the items, `ReplayHistory`, for any number of
turns and items (`ItemsAssumption`):

* `ThreadReplayed`: `ItemsSpec => []ReplayIsThread`
* `OpenCallsKnown`: `ItemsSpec => []PendingIsOpen`
* `ItemsTyped`: `ItemsSpec => []ItemsTypeOK`

The invariant (`ItemsInv`) is that the history holds what the client's record
holds, and that both are made of items as they were made (type and number give
the ids), without one twice and with every output behind its call (`RecordInv`). What
the client may repeat is from the record and has an id (`LastInv`), the open calls are
those of the last response (`OpenInv`), and a plan's replay holds what the client
then knew, with no call left open (`PlanInv`). The order alone may differ:
an item repeated counts where it was repeated, unless it is a call.
The work is in `mergeWebSocketItems`: `FirstCallsKept` and `OneOfEachKept` say what
each pass keeps and where, and `MergeKeeps` that a history with something the
client repeats behind it is again such a history. That dropping items keeps the
order of the others rests on ranks (`Ranks`), for which no induction is needed.

`AdminConsoleProofs`, for any number of calls at a time, sign-ins and kinds of
calls made, and any accounts, device logins, keys and days, if `None` is no
account, no key and no call (`NoneAssumption`, which `AdminConsole` also needs to
tell a free slot from a call; `TodayAssumption`, `SignInsAssumption`):

* `ShowsCurrent`: `Spec => []Current`
* `KeepsSecret`: `Spec => []SecretKept`
* `SignsOutRightly`: `Spec => SignedOutRightly`
* `PageScrolls`: `Spec => []ScrollLock`
* `TypeCorrect`: `Spec => []TypeOK`

All but `PageScrolls` rest on `CallsInv`, which says of each call under way what
its answer may be: true of the server's account and keys unless it is marked
old, and refused only for a cookie that is no longer good. `Fits` says it of one
call with the server's state as arguments, so that the lemmas about what the
console does to its calls (`AllFitPut`, `AllFitUpdated`, `AllFitReplied`) hold in
whatever state they are used. `Current` is then the end of a promise:
as long as a page does not show what the server has, a load for it, or the answer
to a call that has changed it, is still under way, unless one came too late or
was not heard (`DayInv`, `AccountInv`, `KeysInv`). `MountInv` says that only the
page that is up has a state. `SecretInv` needs two facts that `SecretKept`
does not mention: at most one creation belongs to the form that is open, and the
form and a secret are not open together. `StepKinds` sorts the steps into those
in which a page comes, one goes, the page that is up is let alone, or is used, so that
each invariant has one lemma per kind. `PageScrolls` has an invariant of its own
(`ScrollInv`): without two dialogs at once, the open one found the page visible.

Only model-checked are the four liveness properties `CallsReturn`,
`ShutdownEndsRequests`, `BrokenSocketEnds` and `AllEnd`: liveness under fairness is out
of the prover's reach. Every invariant and every action property of the passing
runs, and the refinement of the map with expiries by the session store, is
stated by a theorem.

## 5. Assumptions and omissions

* OpenAI's endpoints are external. Upstream sends frames only in answer to
  requests, and answers those of one socket in order.
* The session store of the login flows is the in-memory one, whose `Delete`
  does not fail; with Redis a failed removal would leave a finished flow behind.
* Database transactions are atomic and are applied or fail as a whole.
* `WebSocketTurn` makes no statement about a client that has left.
  A message `prepare` rejects leaves no trace and is left out, and so is an
  API key lookup, but for its ending the session (`EndSession`).
* `DownstreamInbox` leaves to `WebSocketTurn` what a turn does upstream, and
  replaces the sizes of messages by small numbers. Writing to the client, which
  has a deadline, is part of the step that writes. A message taken after the
  reader has ended and before the context is cancelled may still be answered.
* Byte limits elsewhere appear as nondeterministic failures (a commit may fail), not as
  numbers.
* A session's turns before its last are left out of `Lifecycle`. Its requests
  are those that `beginRequest` counts, the proxy's, and its other user of the
  database is the cleanup. The administration handlers use the database too,
  are not counted, and one that `server.Shutdown` did not wait out is not
  waited for after `server.Close`: `ShutdownInOrder` says nothing of them.
* `ReplayHistory`: ids and call ids from upstream are new. A client repeats
  items that have an id; one that names `previous_response_id` and repeats an
  assistant message or a call is taken for sending a transcript, which the code
  resets to, so that case is `Transcript`. A transcript is complete. `Absent`,
  which stands for no id, is no number.
* `ChatCompletions`: a stream whose reading breaks ends without `[DONE]`
  (`chat.go:449`): `Readable` promises `[DONE]` only for streams read to
  their end, and of the others the order of their chunks. The parts of one
  summary, text or message come in their order. Upstream ends a stream with at
  most one of completed, incomplete and failed, announces a call before its
  arguments, and sends deltas of the last item or of calls in parallel. `None`, which stands for no
  completed response, is no sequence of items.
* The console: one tab; the server does a call in one step (its own
  interleavings are in `CodexAccount` and `AdminAccess`); the two requests of
  the overview are one call, since they are awaited together; a dialog's
  backdrop keeps the page behind it from being used; reloading the page is the
  initial state. Toasts, error texts, the clipboard, the display of figures and
  quotas, the keyboard focus, and React's double effects in development are
  left out.
* `AdminAccess`: one address, since the limiter's entries do not touch. A block may end early
  when an attempt let in before it succeeds: `LimiterHolds` says so.

## 6. Plan

Done: `CodexAccount`, `UpstreamSocket`, `DownstreamInbox`, `Lifecycle`,
`AdminAccess`, `WebSocketTurn`, `ReplayHistory`, `ChatCompletions`, `SessionStore`
over `TtlMap` and the administration console, checked and proved. To come, most
important first:

1. The models cache against account switches.
2. Identity remapping as a two-way map with a budget, and the item ids that
   normalisation makes unique.

Abstract specifications: a `Dialogue` of a client with upstream, in which each
turn is answered on the thread meant or fails, for `WebSocketTurn` to implement;
a FIFO channel that closes once, with a reason, for `UpstreamSocket` and
`DownstreamInbox`.
