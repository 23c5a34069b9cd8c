# Verification of the Agent Host Protocol's TypeScript client and reducers

The Agent Host Protocol (AHP) connects user interfaces to hosts that run
coding agents. A host owns the state of every channel (root, session, chat,
terminal, changeset, ...). It stamps each accepted action with a `serverSeq` and
sends it to the subscribers, who reduce it with the same pure reducer. A client
shows its own actions before the host has ordered them (write-ahead) and, after
a lost connection, catches up from a replay or from snapshots.

This directory holds TLA+ models of the parts where that can go wrong, the TLC
configurations that check them on small instances, and TLAPS proofs for any
number of readers, values and so on. Source paths below are relative to the
repository; `client/` is `clients/typescript/src/client/`.

## 1. Inventory

| Component | State it keeps | Operations | Talks to |
|---|---|---|---|
| `AsyncBroadcastQueue` (`client/async-queue.ts`) | shared buffer, base position, closed flag, one cursor per reader with at most one parked promise | publish, close, reader, next, return, trim | every `Subscription`, `events()` and `stateChanges()` stream is a reader |
| `AhpClient` (`client/client.ts`) and the in-memory transport (`client/transport.ts`) | connection state, pending requests and timers, subscriptions per URI, next request id and `clientSeq`, server-request handler, receive loop | connect, shutdown, request and its wrappers, subscribe, attach, unsubscribe, dispatch, frames in, tear-down | transport below, queues above |
| `ManagedSubscriptionManager` (`client/managed-subscriptions.ts`) | one entry per URI with holders, status and source | acquire, dispose of a lease, start, pump, close | `AhpClient.subscribe` / `unsubscribe`, a queue per entry |
| `HostRuntime` and policy (`client/hosts/runtime.ts`, `policy.ts`) | state, generation, current client, tracked subscriptions, `serverSeq`, root mirror, two abort controllers | supervisor loop, connectOnce, runConnection, reconnect, shutdown, subscribe, unsubscribe, dispatch | an `AhpClient` per connection, the fan-in queues |
| `HostClientHandle`, `MultiHostClient`, client-id store (`client/hosts/`) | hosts and reserved ids, generation of each handle | addHost, removeHost, reconnect, shutdown, client | `HostRuntime` |
| State mirrors (`client/state-mirror.ts`, `client/hosts/state-mirror.ts`) | one state per resource (and host) | applySnapshot, apply | reducers |
| `WebSocketTransport` (`clients/typescript/src/ws/transport.ts`) | inbox, queue of waiting `recv()` calls, sticky error, closed flag | connect, fromSocket, send, recv, close, socket events | the socket below, the receive loop of `AhpClient` above |
| Write-ahead reconciliation (`docs/.vitepress/theme/notebook.ts`, `NotebookSession`) | host log and replay buffer; per client confirmed state, pending actions, `lastSeenServerSeq`, outbox | dispatch, receive, emit, publish, flush, apply, disconnect, reconnect request and result | chat reducer |
| Chat reducer (`types/channels-chat/reducer.ts`) | turns, active turn with response parts, status bits, pending messages, metadata | some forty `chat/*` actions | session summaries |
| Session reducer (`types/channels-session/reducer.ts`) | chats, default chat, status, input queue, clients, directories, customizations | `session/*` actions | |
| Other reducers (terminal, changeset, annotations, automation, automation run, root, canvas, resource watch) | keyed lists and single fields | upsert, remove, replace | |
| Protocol types, messages and versions (`types/`) | none | version negotiation; which version knows an action or notification; who may dispatch an action | everything |
| Ports (Rust, Go, Swift, Kotlin, .NET), generated types, schema, scripts, site | | | kept in step by the shared `types/test-cases` |

### Where it is hard

* *Interleaving around awaits.* The TypeScript code is single-threaded, but every
  `await` is a point where timers, frames, failures, `shutdown()` and other
  callers run. `AhpClient`, `ManagedSubscriptionManager` and `HostRuntime` read
  state before such a point and use it after.
* *One shared buffer, many cursors.* Overflow, trimming and wake-ups of the
  broadcast queue use absolute positions against indices of a moving array.
* *Loss and recovery.* A lost connection loses a tail in both directions; the
  client cannot tell which of its actions were ordered.
* *Stored summaries.* A chat's status and a session's status are stored and
  recomputed by each action, not derived on reading.
* *Stale actions.* Actions of several clients are ordered by the host, so a
  reducer meets actions about turns, tool calls and messages that are gone.

* *One wire, two numberings.* Both sides number their requests from 1, and an
  inbound message shows only by its fields whether it answers one of ours.

`PROJECT.json` lists these hazards one by one with the line at which they bite
and the properties that cover them.

### What makes each component correct

* Queue: a reader gets the stream in order, without repetition, loses only what
  overflowed its own mailbox, is never left asleep, and learns of the end.
* Client: every request settles once; a closed client holds nothing; an open
  subscription misses nothing; `shutdown()` returns; server requests are answered.
* Managed subscriptions: the server is subscribed exactly while a lease is held,
  answers to an old entry never touch a new one, a lease misses no event from the
  moment it is made, and everything a holder awaits settles.
* Host runtime: the mirrored state follows the server across every kind of
  reconnect, no client is left behind, handles act on the current connection, and
  `reconnect()` and `shutdown()` return.
* Multi-host client: a host keeps its client id over restarts, no runtime escapes
  `shutdown()`, and the resources of two hosts never share a key.
* Transport: frames in order and without a gap, an honest end of stream, no caller
  left waiting.
* Write-ahead: confirmed states are prefixes of the host's, nothing is shown
  twice, clients converge.
* Reducers: stored status agrees with the content, ids stay unique and references
  name something, streamed content is complete, history is settled and ordered,
  and pending messages are neither lost, doubled nor overtaken.

## 2. Plan

The modules below cover the plan's components: queue, client, managed
subscriptions, host runtime, multi-host client, transport, write-ahead, chat turns,
and all channel reducers behind the state mirror, over the protocol's types.
`WebSocketTransport` composes the transport with the client's dispatch and the
version handshake; `StateMirror` composes the reducers.

What is left is proof, in this order: `TransportContract` of `WebSocketTransport`, whose
parts are inductive together; `RoutedAsMeant`, which needs the frames on the way related to
the requests they answer; and the list properties of `StateMirror`, one reducer at a time.

## 3. Modules

Each `...Proofs` module extends the module of its name (section 5). `Subsequence` is the
array method `filter()` for a set of kept values: it equals `SelectSeq` and is written as
a recursive function so that it can be proved about. `WriteAhead`, `ChatTurns`,
`ManagedSubscriptions` and `HostRuntime` use it.

### BroadcastQueue, PrivateMailboxes

`BroadcastQueue.tla` is `AsyncBroadcastQueue` method by method. The n-th published
value is the number n. `status` says whether a reader's cursor is in
`this.cursors`; `waiter` is the cursor's stored resolver; `outstanding`,
`delivered` and `ended` record what the caller's promises did. `next()` is four
actions, one per branch; `trim()` is part of publish, next and return.
`PrivateMailboxes.tla` is the promise: each reader owns a bounded first-in
first-out mailbox and knows nothing of other readers. The refinement maps a
cursor to the part of the shared buffer it has not read.

### AhpClient

One connection with its transport. Requests, their timers, and subscribes are
records in `pending`; a Subscription object is a handle. Frames in both
directions are sequences. The steps of `shutdown()` between its awaits are
separate actions (`Shutdown`, `ShutdownClosed`, `ShutdownReturns`), and so are the
asynchronous `send` (`SendDone`, `SendFails`), the timer (`TimeoutFires`), the
receive loop (`HandleFrame`, `RecvNull`, `RecvFails`) and the server-request
handler (`HandlerFinishes`). The typed wrappers are one `Request` action. The
server is external: it may answer, emit, ask or stay silent.

### WebSocketTransport

One connection from the browser's socket to the client's dispatch. The handlers of
the socket's events, `send`, `recv` and `close` are one action each; `connect()` is
its outcomes. Frames are numbered as the host sends them, and the inbox, the readers
and the event streams hold numbers. One of the readers is `driveTransport` of
`AhpClient`, with `handleFrame` and `dispatchInbound`, which looks at the fields of
real protocol messages; the others only call `recv()`. The socket follows the
WebSocket standard (no message event once it is closing, an error event is followed
by a close event, a clean close comes after the last frame). The host negotiates a
version with `negotiateProtocolVersion`, then answers, asks and notifies within it,
and may send frames that are no message. What it and the client ask and announce is
checked to be a message of the protocol (`MessageAssumption`).

### ManagedSubscriptions

Counted leases over one wire subscription per URI. Every entry ever made keeps its
state, since a lease, an unanswered `subscribe()` and a pump outlive their place in
the map. `start()` is split at its await: the answer is received, then the
continuation activates, discards, fails or is ignored. Each lease has its own place in
the entry's stream: `joined` is how much the entry had published when `createLease()`
opened the lease's reader, and the lease is given what comes after. The overflow of
`eventBuffer` is left out here; what a queue does then is `BroadcastQueue`'s matter. The
wires are first-in first-out; the server may refuse or stay silent.

### HostRuntime

The supervisor of one host is one thread: `pc` names the await it is in and each
action runs from one await to the next (factory, reconnect, initialize,
listSessions, event stream, backoff, parked after giving up, tear-down). Callers of
`subscribe`, `unsubscribe`, `reconnect` and `shutdown` run between. The server keeps
a log of actions and answers a reconnect with a replay, with snapshots or not at all; the
request may also fail or time out at any moment.
Handles carry the generation they were issued for. The mirrored root state is the sequence
of the root actions folded into it. Policies are records as in `policy.ts`; delays are only
told apart as none, which a negative `maxMs` gives too (the code asks `ms <= 0`), or some.
`tally` is history: the connects that failed since the last connection and, for a policy
that does not reset, those that count from before. It follows what happened to the
connects, not the counter of the code.

### MultiHost

`addHost` with its two awaits on the client-id store, `removeHost`, `shutdown`,
crashes that leave only the store, and the mirror that a consumer feeds. Host ids
and URIs are sequences of characters, and a key is their concatenation as in the code, so
that ids and URIs that run together can be told from ones that do not. The decimal text
of a length is one piece of a key: the NUL after it ends it.

### WriteAhead

`NotebookSession` with any number of clients. The reducer is deterministic, so a
state is the sequence of actions it was reduced from. `InBuffer`
chooses replay or snapshot, and a replay is the log beyond the client's bookmark
(`Missed`); both clear `pending` as `completeReconnect` does.
Every position of the replay buffer's start is possible at each reconnect.
`LoseInflight` is the network.

### ChatTurns

The turn life-cycle of `chatReducer`: start, complete, cancel, error, resume,
truncate, load older turns, response parts, the tool-call state machine with its
confirmation, authentication and review states, input requests, and the flags.
A part is its kind, id and state. `chat/responsePart` brings any part the host likes
(`GenericParts`), a tool call that waits and an open input request included, and leaves the
status as it is; `unseen` is history, the parts that came that way since the status was last
computed. A page of older turns may overlap the window, but holds no turn that the host has
dropped from it: a page sent before a truncation and received after it would bring turns
back, and the protocol leaves it to the host not to send one. Every action is tried for the active turn, other
turns and unknown ids, since the reducer must cope with stale ones.

### Types, reducers and StateMirror

`ProtocolTypes`, `SessionChannel`, `ChannelReducers`, `ChatContent`, `ActionOrigins`,
`ProtocolVersions` and `ProtocolMessages` extend one another in this order.
A type of `types/` is the set of its values under its own name; each actions file is
the set of its actions; a reducer is an operator of state and action, with the list
edits they share in `KeyedLists`. Strings and URIs are members of small sets, an
absent field is `None`, a status bit set is the set of its bits, streamed text is the
sequence of its chunks, and a type that the code only carries has one sample value in
the actions that bring it. `ActionOrigins` has the table of what a client may
dispatch, `ProtocolVersions` the negotiation and the tables of what each version
introduced (both compared entry by entry with the source), `ProtocolMessages` the
commands, notifications, error codes and request envelopes.

`StateMirror` is `AhpStateMirror`: `applySnapshot` and `apply` over these reducers.
A behaviour stays with one topic (a group of actions that changes its own fields) and
takes every sequence of the topic's actions, before and after snapshots. `history`
records what was sent since the snapshot (chunks, answers, commands, flags, messages) for
the properties that compare the state with it. `HostMaySend`
is what a host does on its own account, for instance not to start a tool call twice; an action
that a client may dispatch (`IS_CLIENT_DISPATCHABLE`) is held to nothing.

## 4. Runs

| Run | Checks | Shows |
|---|---|---|
| `queue` | `BufferAligned`, `StreamsSound`, `ImplementsMailboxes`, `ClosedReachesReaders` | two readers of a two-slot queue and four values, which overflow it twice past a lagging reader: no cursor leaves the buffer, no wake-up is lost, each reader sees what a private mailbox would give it |
| `queue_return` (violation) | `ReturnSettlesNext` | finding 1 |
| `write_ahead` | `ConfirmedSideSound`, `OptimisticSideSound`, `EventuallyConverged` | two clients, two actions each, two agent actions and two lost connections: nothing is skipped, repeated or reordered, and all converge |
| `client` | `NothingMissed`, `ClosedLeavesNothing`, `SettlesOnce` | two requests or subscriptions against timers, late answers, failed sends and tear-down |
| `client_progress` | `FreshClientSeq`, `CallsSettle`, `ServerAnsweredOnce` | requests settle, `shutdown()` returns and server requests are answered once; `clientSeq`s stay fresh |
| `ws_transport` | `TransportContract`, `RoutedAsMeant`, `NegotiationIsBest`, `ClosedIsNoticed` | two callers of `recv()`, two requests in each direction, three frames and five offers of versions |
| `managed_subscriptions` | `MapMatchesLifecycle`, `OneWireSubscription`, `LeaseGetsTheRest`, `EverythingSettles` | two entries of one URI one after the other, three leases that join before, during and after the subscribe, stale answers, timeouts and the end of the client |
| `host_runtime` | `MirrorsFollowServer`, `NoClientLeft`, `HandlesStayCurrent`, `GivesUpAsConfigured`, `CallsReturn` | two connections, a manual reconnect and a shutdown at every await, under policies of one retry since the last connection, one in all, and none |
| `host_subscribe_lost` (violation) | `TrackedIsSubscribed` | finding 2 |
| `multi_host` | `IdentityPersisted`, `NoHostEscapes`, `MirrorKeepsHostsApart` | two overlapping `addHost` calls, removal, shutdown, a failing store and a crash |
| `chat_turns` | `StatusFollowsTurn`, `HistoryIsSettled`, `TranscriptAppendOnly` | turns with up to three parts, ended, failed, resumed, truncated, loaded by pages and hit by stale actions in every order: the status is what its last computation should have given, and only what `chat/responsePart` brought since is not in it |
| `mirror` | `ListsStayConsistent`, `StatusAgrees`, `ContentComplete`, `ReplacementIsExact`, `PendingMessagesKept`, `ApprovalStaysOnRecord` | every reducer under every sequence of its topic's actions, with and without a snapshot first |

Every property of a passing run has a mutant: an operator `Faulty...` that changes
one definition as a plausible bug would (an off-by-one, a dropped guard, a missing
reset) and breaks the property.

### Bounds

Each bound is a named constant, chosen so that the case a property is about occurs.
Four values overflow a two-slot buffer twice. Two clients and two drops give a replay
and a snapshot to the same client with foreign actions in between. Two requests let a
late answer meet another request's timer. Three leases and two entries let an entry be
released with its subscribe unanswered and be succeeded by one with two holders. Two
connections reach the replay, a replaced handle and, with policies of one retry and of none,
the give-up: after a connection that dropped, a failed connect is the last one for the
policy that counts over connections and the first for the one that does not. The server
acts or notifies twice in all: its actions change the root mirror and its notifications the
session list, and neither looks at the other. The host ids of `multi_host` are chosen so that one is a prefix of the other
and two different pairs concatenate to the same string. Three frames let a server
request with the id of a pending client request arrive between the handshake's answer
and the end of the stream; the offers lie below, at, inside and above the supported
ranges. Three parts hold two tool calls and an input request, or a tool call before and
after an error; two older turns let a page overlap the window. Three messages, chats
and directories are the least for which a reorder can drop, repeat and move entries at
once; two chunks (three for a terminal) on either side of a command or a part tell a
lost chunk from a moved one. A reordering names up to three ids (`MaxOrder`), repeated and
unknown ones included. The generic parts of `chat_turns` are an open input request, a tool
call that waits for the user, and the error that the reducer must refuse.

Symmetry is used only in runs without liveness properties, over ids that the models
only compare for equality.

Deadlock is checked in `chat_turns` only. The other systems may stop: a closed queue,
a shut-down client, runtime or transport, converged clients, and a topic whose bounded
content is complete have nothing left to do.

### Fairness

* Queue: weak fairness of each reader's `next()`, as in a `for await` loop, for
  `ClosedReachesReaders` only.
* Write-ahead: messages on a live connection arrive and a client goes on trying to
  reconnect. `EventuallyConverged` needs drops and actions to stop, which the
  bounds give.
* Client: the JavaScript event loop runs timers, promise continuations of sends,
  handlers and `shutdown()`, and the receive loop. Nothing is assumed of the
  server, so settling rests on the timers.
* Transport: the continuations of the receive loop run. Nothing is assumed of the
  socket, the host or the application.
* Managed subscriptions: continuations of `start()`, the pump, and the request timer of
  `AhpClient`; the server may stay silent.
* Host runtime: continuations, timers, and that an abort wakes what listens to it.
  Neither the factory nor the server need answer.

## 5. Proofs

Each `...Proofs` module extends a component's module and proves its theorems with
TLAPS, for every value of the constants that meets the assumptions of that module.
The bounds of the runs are arbitrary natural numbers there, so the theorems hold
without them. For each component there is an inductive invariant, one lemma per action
or kind of step that it is kept, and the theorem as a consequence.

| Module | Theorem | States |
|---|---|---|
| `BroadcastQueueProofs` | `BufferSound` | `Spec => []BufferAligned` |
| | `StreamsOrdered` | `Spec => []StreamsSound` |
| | `Refinement` | `Spec => ImplementsMailboxes` |
| `WriteAheadProofs` | `ConfirmedSide` | `Spec => []ConfirmedSideSound` |
| | `OptimisticSide` | `Spec => []OptimisticSideSound` |
| `ChatTurnsProofs` | `HistorySettled` | `Spec => []HistoryIsSettled` |
| | `TranscriptGrows` | `Spec => TranscriptAppendOnly` |
| | `StatusFollows` | `Spec => []StatusFollowsTurn` |
| `AhpClientProofs` | `ClosedClient` | `Spec => []ClosedLeavesNothing` |
| | `SettleOnce` | `Spec => SettlesOnce` |
| | `ClientSeqFresh` | `Spec => []FreshClientSeq` |
| | `EventsNotMissed` | `Spec => []NothingMissed` |
| | `AnsweredAtMostOnce` | `Spec => []NeverAnsweredTwice` |
| `HostRuntimeProofs` | `ClientsClosed` | `Spec => []NoClientLeft` |
| | `HandlesCurrent` | `Spec => []HandlesStayCurrent` |
| | `GivesUp` | `Spec => []GivesUpAsConfigured` |
| | `MirrorsFollow` | `Spec => []MirrorsFollowServer` |
| `ManagedSubscriptionsProofs` | `MapAgrees` | `Spec => []MapMatchesLifecycle` |
| | `OneSubscription` | `Spec => []OneWireSubscription` |
| | `LeasesGetTheRest` | `Spec => []LeaseGetsTheRest` |
| `MultiHostProofs` | `IdentityKept` | `Spec => []IdentityPersisted` |
| | `HostsContained` | `Spec => []NoHostEscapes` |
| | `MirrorApart` | `Spec => []MirrorKeepsHostsApart` |

### Queue

Assumed: the limit and the bounds are natural numbers. The first two theorems rest on
one inductive invariant, `IInv`. None of its parts is inductive alone: that a value
read is the next of the stream needs the alignment of the buffer; that trimming is
safe needs the cursors in the window; that a woken reader gets a value needs that a
parked one has read everything. The buffer is written as `Window(base, published)`,
the sequence of the numbers in between, and lemmas say what append, drop, head and
tail do to a window; `TrimBaseBounds` says what `trim()` does, from the existence of
a least cursor.

For `Refinement`, a reader's unread part of the buffer is
`Window(position[r], published)` by the invariant (`BoxesHold`), so a step of the
queue is read off as a step on windows. The step that matters is `publish()` on a full
buffer (`PublishBox`): the one value the shared buffer drops is dropped from exactly
those mailboxes that would have overflowed by themselves.

### What `filter()` keeps

`SubsequenceProofs` has the lemmas about `Kept` that the others cite: its elements are
those of the sequence that pass the test (`KeptElements`), each at an index that grows
with its place (`KeptIndex`), so that an increasing sequence stays increasing
(`KeptIncreasing`). Increasing sequences with the same elements are equal (`SameElements`),
and one that holds every number of an interval and no other is that interval (`Counting`):
that is how the two theorems about streams get from "nothing is missed, nothing is repeated,
nothing is out of order" to an equation. The induction over the length is the absence of a least
counterexample, from the well-foundedness of the natural numbers (`NoLeast`).

### Write-ahead

Assumed: the host is none of the devices, and the bounds are natural numbers. `Sound`
is inductive: the confirmed state of a client is the log up to the `serverSeq` it has
seen (`Prefix`), and the outbox is the rest of it while it is connected (`Rest`). Each
needs the other, since a client that takes a message must find it to be the next of the
log. The optimistic side needs more, `IInv`: what a client has on its way is
numbered in its dispatch order and comes after all of its actions in the log
(`Numbered`); what it still shows as pending is not in its confirmed state
(`Unseen`) and is, while the connection lives, on its way to the host or back
(`Underway`). A replay keeps what is true because `completeReconnect` empties
`pending`.

### Chat turns

Assumed: the generic parts and the flags are among those the reducer knows, and the
bounds are natural numbers. `HistoryIsSettled` is not inductive: a page of older turns
goes in front of the window also while a turn is active, and is only known to be older
than the window. `Started` adds that the active turn, and every turn that can become
active again, is newer than any page. `StatusFollows` is about every set of generic parts.
`chat/responsePart` does not refresh the status, so what can be proved is that the status
is the one of the parts outside `unseen` (`Refreshed`), and that every action that computes
it takes all parts into account again; what the guide asks beyond that is in section 6. That a
part keeps its place and kind is proved once for all the tool-call and input updaters
(`UpdatersUpdate`) and then used by both the invariant and `TranscriptGrows`.

### Client

Assumed: the bounds are natural numbers, the switches Booleans, and "no handle" is no
handle. Four invariants stand on `Typed`, which says that every frame on a wire names a
request, event or server request that exists. `Settled` adds that ids at and beyond
`nextRequestId` are unused; from it follow `ClosedClient` and the action property
`SettleOnce`. `FreshClientSeq` is inductive as it stands. `Asked` counts, for each
server request, the one place it is in: the wire, the handler, the answer's send or the
answers. `Delivered` is behind `EventsNotMissed`: an open subscription is either still
waiting for its answer or is held by the server with no `unsubscribe` of its
channel behind it on the wire (`NotUndone`), and the events it has together with
those on the wire are those emitted since, in order (`EventsInOrder`, `Complete`).

### Host runtime

Assumed: every policy is a `ReconnectPolicy` whose `maxAttempts` is a natural number or
absent, the bounds are natural numbers, and the root channel is none of the URIs.
`Supervised` is about control only: `ClientsByPhase` says which client each await of the
supervisor leaves open, `Generations` how the generations of the shared state, the handle
source and the handles relate. The actions
are first classified by what they do to these (`StepKinds`: they stay, go round the
loop, abort, open, commit, close or issue a handle), and each part of the invariant is
proved against the seven kinds.

`GivesUp` has an invariant of its own, since `GivesUpAsConfigured` speaks of what became of
the connects (`tally`) and only the code's `attempt` decides. `CountsTally` ties the two at
every await: the counter is one ahead while a connect is under way, equal while the host
waits for the next or is given up, and after a connection it is what the policy carries
over. `WithinLimit` says on which side of `maxAttempts` it stands. The steps are
classified by what they do to the counter (`RetrySteps`).

`MirrorsFollow` adds `Following`, about the data. `MirrorsFollowServer` only speaks of the
state `running` with an open connection; what it needs must already hold while the
connection is down or coming up:

* `Mirrored`, at every await: the mirrored root state is the root history of the log up to
  the bookmark `serverSeq` (`RootHistory`: increasing, root actions only, all of them), and
  nothing beyond the bookmark was published;
* `Asked` and `Answered`, inside `connectOnce()`: the bookmark that was read before the
  handshake is still the current one, and the answer goes on from it, as a replay that
  leaves out no root action (`Follows`) or as a snapshot taken at or beyond it;
* `Awaited`: the events buffered since the answer go on from where the answer will move the
  bookmark (`Reach`), already while the sessions are being listed, and an open connection
  has brought every root action there is (`Buffers`). A connection that has ended only keeps
  a prefix, which is why the conjunct on completeness asks for an open one;
* `Noted`: the last buffered notification about a session agrees with the server and, when
  the sessions were listed, so does the summary of a session that none is about.

The steps that no mirror takes part in are dealt with in two lemmas (`LeavesStep`,
`BesideStep`); the others have one each. `HistoryComplete` then says that history and
buffer together are the whole root history, `SummariesComplete` that summaries and buffered
notifications are the server's sessions. `TypeOK`, a part of the property, follows from the
same invariant. It says nothing of `delay`: the backoff is a power, which the
prover has no type for.

### Managed subscriptions

Assumed: there is a URI and an option, and the bounds are natural numbers. `Mapped`
relates the map to the life of an entry; it needs `ActiveIsStarted`, that an active
entry is done with its `start()`, since otherwise a late rejection could take an active
entry out of the map. `Wired` is about the two wires while the client is open. What
the server will hold is decided by the last `subscribe` or `unsubscribe` for a URI on the
wire: the last `subscribe` is the one of the entry in the map, whose `start()` still
waits (`LastAsks`), no request meets a URI that will be held when it arrives
(`NoneAskedTwice`), and after the whole wire exactly the URIs of the map are held, but for
requests that have failed (`HeldIsMapped`, `MappedIsHeld`). With empty wires and no `start()` under way, this
is the second half of `OneWireSubscription`.

`LeasesGetTheRest` stands on both and on `Streamed`. For the entry in the map, what its
leases were given and what waits for them (`Stream`) is in the order of the channel and
before what is on the wire (`StreamInOrder`), and every event beyond the snapshot has
arrived or is on the wire (`Complete`). `Complete` must hold from the moment the server
answers, with the snapshot still on the wire (`Snapshot`), since events overtake the
continuation of `start()`; it is kept because the server holds the channel from then on
(`MappedIsHeld`) and because the entry in the map is among the readers of its channel. The
theorem is about each lease: what a lease is given is the stream of its entry from where it
joined, and beyond that point and the snapshot nothing is lacking. A lease that joins late
does lack what was published before (section 6).

### Multi-host client

Assumed: host ids and URIs are sequences of characters, there is a host id, automations
are URIs, and the decimal texts of two lengths differ when the lengths do. `Hosted` is
the conjunction of `Registered` (a live runtime is registered and a shut-down client has
none), `Resolving` (at most one `addHost()` under way per host, and the id it is about
to store) and `Persisted` (what is registered, or was used, is stored). That a
registered host keeps its stored id needs that no call is under way for it, and that a
generated id is used again needs that a call about to store another generated one finds
none in the store.
`MirrorApart` is a fact about keys: a key determines its host and URI whatever
characters they hold (`SameHost`, `KeysDiffer`), because the length in front of the host
id says where it ends, and a key starts with the prefix of a host exactly when it is one
of its keys (`KeysOfHost`). A write, a new catalogue and a reset then touch one host only.

### Only model-checked

* Liveness: `ClosedReachesReaders`, `EventuallyConverged`, `CallsSettle`,
  `EverythingSettles`, `CallsReturn`, `ClosedIsNoticed`, and that a server request
  is answered at all (`ServerAnsweredOnce`, of which `AnsweredAtMostOnce` is the safety
  half). Liveness under fairness and `ENABLED` are out of the prover's reach.
* `TransportContract` and `RoutedAsMeant` of `WebSocketTransport`: no proof has been written.
* `NegotiationIsBest`, and all properties of `StateMirror`, are about
  the protocol's tables and reducers, whose list edits and folds are recursions over data:
  what such a recursion computes for every input is out of the prover's reach.

## 6. Findings

1. `return()` on a reader with a parked `next()` deletes the cursor and leaves the
   promise unsettled for ever (`client/async-queue.ts:149`), while
   `client/client.ts:156` says `close()` terminates the consumer's iterator.
2. A `subscribe()` while the supervisor is inside the handshake tracks the URI after
   the list of subscriptions was copied, and the connection that comes up never asks
   for it (`client/hosts/runtime.ts:391`), against `runtime.ts:380`: "the next
   successful (re)connect will subscribe to it automatically".

### Observed while modelling, without a run

Client and transport:

* After a failed send or receive has torn the client down, `shutdown()` returns at its
  first line and the transport is never closed (`client/client.ts:323`), against
  `:318`. `connect()` after `shutdown()` of a client that never was connected brings it
  back to life (`:312`). `shutdown()` waits for ever if `close()` fails and the stream
  stays open.
* `recv()` of `WebSocketTransport` rejects once there is an error and hands out no frame
  buffered before it (`ws/transport.ts:191`). The error for an unsupported payload stays
  set, so it ends the connection although the comment at `:132` calls tearing down worse.
* JSON that is no object, and an `action` notification without params, throw out of
  `dispatchInbound` and tear the client down, although the comment at
  `client/client.ts:740` says that a single malformed frame does not.
* One string that is no version makes `negotiateProtocolVersion` throw for the whole
  offer. A client on 1.0.x never sees `chat/configChanged` or `chat/moved`.
* `InMemoryTransport`, a test double, keeps one waiting `recv()` only. A second `next()`
  on one queue reader before the first settles loses the first promise; the consumers in
  the repository make one call at a time.
* A lease that joins an active entry shares the first subscribe's snapshot, while its
  reader starts at the current end of the entry's queue
  (`client/managed-subscriptions.ts:254`): what was published in between reaches it in
  neither way, against `:48-50` and `:171-172`. `LeaseGetsTheRest` says what it does get.

Hosts:

* A transport that the factory delivers after the connect was aborted is never closed.
* A dropped connection is retried at once, although the comment at `runtime.ts:514` says
  "fall through to the retry/backoff path". So with `maxAttempts` 0 it is connected again
  too, since only a failed connect asks `attemptsExhausted()`, against `policy.ts:61`: "`0`
  disables reconnect entirely". `GivesUpAsConfigured` counts what the code counts.
* An `unsubscribe()` during the handshake leaves the server subscribed, one during the
  await of `subscribe()` is undone by it (`runtime.ts:395`). The root mirror is not
  refreshed when the root channel is subscribed again. The session list stays the old one
  when `listSessions` fails. `removed` of an old runtime can follow `added` of its
  successor under the same id.
* `AhpStateMirror.apply` does not look at `serverSeq`: a consumer must drop events that a
  later snapshot already contains. It applies automation actions before a catalogue was
  seeded, which `MultiHostStateMirror` drops.

Reducers:

* A tool call that waits for the user, or an input request, that comes as a
  `chat/responsePart` leaves the status `InProgress`
  (`types/channels-chat/reducer.ts:404`), against `docs/guide/state-model.md:144` and
  `docs/guide/elicitation.md:39`; `docs/guide/actions.md:71` lists tool calls among the
  parts of that action. `StatusFollowsTurn` bounds the exception. A tool-call action after
  the turn failed turns the status from `Error` to `Idle` although it updates nothing
  (`:164`), against `docs/guide/state-model.md:142`.
* A session whose input queue holds only client executions does not carry `InputNeeded`
  (`types/channels-session/reducer.ts:44`; `state.ts:238-243` agrees), against
  `docs/specification/session-channel.md:107`. An idle session whose queue fills and drains
  ends `InProgress` (`:61`), against the comment at `:53-54`: "an already-idle session stays
  idle". `StatusAgrees` states what the reducer does in both cases.
* `session/defaultChatChanged` is not client-dispatchable
  (`types/action-origin.generated.ts:476`) and no other action sets the default chat, while
  `docs/specification/session-channel.md:153` and `:167` name it among the actions that
  clients dispatch and servers validate.
* What a running command writes after `terminal/cleared` becomes an unclassified part
  (`types/channels-terminal/reducer.ts:26`), against
  `types/channels-terminal/actions.ts:155-156`; `docs/guide/terminals.md:136-139` describes
  what the reducer does, and `ContentComplete` asks for that.
* Of two clients that start a turn at once, the second replaces the active turn of the
  first (`types/channels-chat/reducer.ts:358`). `toolCallReady` on a running call drops its content and selected option.
  The tool-call diagram of `docs/guide/state-model.md:448` has no edge from
  pending-confirmation to completed, which the reducer accepts (`:633`).
* The default chat of a session, and the primary session of an automation run, can name
  one that is not listed.

## 7. Not modelled

* Windowed delivery and flow control: `types/` declares the messages and the docs
  describe them, but the repository has no code that keeps a window.
* The scripted checkpoints and diffs of the notebook, and the sample hosts of
  `notebook-channels.ts`: presentation.
* The other language clients: ports of the code modelled here, kept in step by the shared
  `types/test-cases`.
* Code generators, `message-checks.ts`, release scripts: they run at build time, keep no
  state, and what they print is string formatting.
* Vendor metadata (`_meta`), texts, URIs, timestamps, tool inputs and results as such:
  the code carries them and looks into none of them.
