---------------------------- MODULE HostRuntime ----------------------------
(***************************************************************************)
(* HostRuntime of clients/typescript/src/client/hosts/runtime.ts: the       *)
(* supervisor of one host, its reconnect policy (policy.ts), the state it   *)
(* mirrors, and the generation-checked handles (host-client-handle.ts).     *)
(*                                                                          *)
(* The supervisor is one thread of control: pc names the await it is in,    *)
(* and each continuation runs to the next await.  Callers of subscribe(),   *)
(* unsubscribe(), reconnect() and shutdown() run between its steps.  The    *)
(* server and the transport are external: actions and notifications arrive  *)
(* in order, a connection may end at any time, and the factory or the       *)
(* server may stay silent for ever.  Promise continuations that only carry  *)
(* a received answer onwards belong to the step that receives it.           *)
(***************************************************************************)
EXTENDS Integers, Sequences, FiniteSets, SequencesExt, FiniteSetsExt, Subsequence

CONSTANTS
    Root,         \* ROOT_RESOURCE_URI
    Uris,         \* other channels, which callers subscribe to
    Sessions,     \* sessions the host may have
    Policies,     \* reconnect policies to choose from
    Reasons,      \* reasons of a shutdown
    MaxSeq,       \* bound: actions of the server
    MaxSteps,     \* bound: its actions and session notifications together
    MaxConnects,  \* bound: transports opened
    MaxReconnects,\* bound: reconnect() calls
    MaxHandles    \* bound: handles kept

ASSUME BoundAssumption ==
    /\ {MaxSeq, MaxSteps, MaxConnects, MaxReconnects, MaxHandles} \subseteq Nat
    /\ Root \notin Uris

Channels == Uris \cup {Root}
Forever  == -1   \* maxAttempts: null

-----------------------------------------------------------------------------
(* policy.ts.  Delays in milliseconds, jitter in percent.                  *)

Backoff ==
    [kind : {"immediate"}] \cup [kind : {"constant"}, delayMs : Int]
        \cup [kind : {"exponential"}, initialMs : Int, maxMs : Int, multiplier : Int]

ReconnectPolicy ==
    [backoff : Backoff, jitter : Int, maxAttempts : Int, resetOnSuccess : BOOLEAN]

\* maxAttempts: the retries allowed, none of them with 0, or no limit.
ASSUME PolicyAssumption ==
    \A p \in Policies : p \in ReconnectPolicy /\ p.maxAttempts \in Nat \cup {Forever}

backoffDelayForAttempt(backoff, n) ==
    CASE backoff.kind = "immediate" -> 0
      [] backoff.kind = "constant" -> Max({0, backoff.delayMs})
      [] backoff.kind = "exponential" ->
            Min({Max({0, backoff.initialMs * Max({1, backoff.multiplier}) ^ (Max({1, n}) - 1)}),
                 backoff.maxMs})

\* The delays delayWithJitter may return: the random sample is any of 0..100.
delayWithJitter(p, n, sample) ==
    LET base   == backoffDelayForAttempt(p.backoff, n)
        jitter == Min({100, Max({0, p.jitter})})
        factor == 10000 + (sample * 2 - 100) * jitter
    IN IF p.jitter <= 0 \/ base = 0 THEN base ELSE Max({0, (base * factor) \div 10000})

\* Faulty: allows one retry too many.
FaultyAttemptsExhausted(p, n) == p.maxAttempts # Forever /\ n > p.maxAttempts + 1

attemptsExhausted(p, n) == p.maxAttempts # Forever /\ n > p.maxAttempts

disabledPolicy ==
    [backoff |-> [kind |-> "immediate"], jitter |-> 0, maxAttempts |-> 0, resetOnSuccess |-> TRUE]
immediateForeverPolicy == [disabledPolicy EXCEPT !.maxAttempts = Forever]
exponentialPolicy ==
    [backoff |-> [kind |-> "exponential", initialMs |-> 250, maxMs |-> 30000, multiplier |-> 2],
     jitter |-> 25, maxAttempts |-> Forever, resetOnSuccess |-> TRUE]

-----------------------------------------------------------------------------
VARIABLES
    policy,
    pc,             \* the await the supervisor is in
    attempt,
    tally,          \* history: what became of the connects, see NoTally
    delay,          \* the backoff being slept
    manual,         \* the manual-reconnect controller is aborted
    waiting,        \* a reconnect() call waits for its acknowledgement
    shared,         \* HostShared
    handleSource,   \* HostClientHandleSource
    prior,          \* connectOnce: what it read before the handshake
    result,         \* connectOnce: the answer to the handshake
    listed,         \* connectOnce: listSessions of the last connection succeeded
    published,      \* fanOut: serverSeqs of the actions published
    handles,        \* HostClientHandles issued
    subscribing,    \* subscribe() calls that wait for their answer
    clients,        \* AhpClients made and not shut down
    conn,           \* the newest connection: client, open, subscribed channels
    events,         \* what its client.events() iterator has not read yet
    log, sessions, notes, gone,  \* server: actions, sessions, deleted channels
    reconnects

supVars    == <<pc, attempt, tally, delay, manual, waiting>>
wireVars   == <<clients, conn, events>>
serverVars == <<log, sessions, notes, gone>>
vars == <<policy, supVars, shared, handleSource, prior, result, listed, published, handles,
          subscribing, wireVars, serverVars, reconnects>>

HostStatus == {"disconnected", "connecting", "connected", "reconnecting", "failed"}
ShutdownReason == {"none", "removed", "shutdown"}

ASSUME ReasonAssumption == Reasons \subseteq ShutdownReason \ {"none"}

ClientIds == 0..MaxConnects     \* 0: no client

\* HostShared.  rootState is the sequence of root actions folded into it.
HostShared ==
    [state : HostStatus, serverSeq : 0..MaxSeq, rootState : Seq(1..MaxSeq),
     subscriptions : SUBSET Channels, sessionSummaries : SUBSET Sessions,
     generation : 0..MaxConnects, currentClient : ClientIds,
     shutdownReason : ShutdownReason]

makeInitialShared ==
    [state |-> "disconnected", serverSeq |-> 0, rootState |-> <<>>,
     subscriptions |-> {Root}, sessionSummaries |-> {}, generation |-> 0,
     currentClient |-> 0, shutdownReason |-> "none"]

HostClientHandleSource ==
    [generation : 0..MaxConnects, currentClient : ClientIds, shutdownReason : ShutdownReason]

\* Since a caller last asked for a connection (by start() or reconnect()): how many
\* connects failed since the last that succeeded, and how many up to that one
\* still count against the policy.
NoTally == [failures |-> 0, before |-> 0]

\* The locals of connectOnce() outside of it.
NoPrior  == [serverSeq |-> 0, subscriptions |-> {}]
NoResult == [type |-> "none"]

Init ==
    /\ policy \in Policies
    /\ pc = "new" /\ attempt = 0 /\ tally = NoTally /\ delay = 0 /\ manual = FALSE /\ waiting = FALSE
    /\ shared = makeInitialShared
    /\ handleSource = [generation |-> 0, currentClient |-> 0, shutdownReason |-> "none"]
    /\ prior = NoPrior /\ result = NoResult
    /\ listed = FALSE /\ published = <<>> /\ handles = {} /\ subscribing = {}
    /\ clients = {} /\ conn = [client |-> 0, open |-> FALSE, subs |-> {}] /\ events = <<>>
    /\ log = <<>> /\ sessions = {} /\ notes = 0 /\ gone = {}
    /\ reconnects = 0

ShutDown  == shared.shutdownReason # "none"
Cancelled == ShutDown \/ manual      \* linkAbortSignals

-----------------------------------------------------------------------------
(* The supervisor loop.                                                    *)

\* The loop goes round with counter n: a new attempt, or the end.  The status
\* moves before a waiting reconnect() is acknowledged.
Iterate(n, sh) ==
    IF ShutDown
    THEN /\ pc' = "exited"
         /\ handleSource' = [handleSource EXCEPT !.currentClient = 0,
                                                 !.generation = sh.generation]
         /\ shared' = sh /\ delay' = 0
         /\ UNCHANGED <<attempt, waiting>>
    ELSE /\ pc' = "factory"
         /\ attempt' = n + 1
         /\ shared' = [sh EXCEPT !.state = IF n = 0 THEN "connecting" ELSE "reconnecting"]
         /\ waiting' = FALSE /\ delay' = 0
         /\ UNCHANGED handleSource

\* Faulty: gives up without looking at a manual reconnect.
FaultyConnectFailed ==
    IF ShutDown
    THEN Iterate(attempt, shared) /\ UNCHANGED <<manual, tally>>
    ELSE /\ IF attemptsExhausted(policy, attempt)
            THEN /\ pc' = "failed" /\ manual' = FALSE
                 /\ shared' = [shared EXCEPT !.state = "failed"]
                 /\ UNCHANGED delay
            ELSE /\ pc' = "sleeping"
                 /\ \E sample \in {0, 50, 100} : delay' = delayWithJitter(policy, attempt, sample)
                 /\ UNCHANGED <<shared, manual>>
         /\ tally' = [tally EXCEPT !.failures = @ + 1]
         /\ UNCHANGED <<attempt, waiting, handleSource>>

\* The catch of the loop and what follows a failed connect.  A connect that a
\* manual reconnect interrupted is tried again at once.
ConnectFailed ==
    IF ShutDown
    THEN Iterate(attempt, shared) /\ UNCHANGED <<manual, tally>>
    ELSE IF manual
    THEN Iterate(0, shared) /\ manual' = FALSE /\ tally' = NoTally
    ELSE /\ IF attemptsExhausted(policy, attempt)
            THEN /\ pc' = "failed"
                 /\ shared' = [shared EXCEPT !.state = "failed"]
                 /\ UNCHANGED delay
            ELSE /\ pc' = "sleeping"
                 /\ \E sample \in {0, 50, 100} : delay' = delayWithJitter(policy, attempt, sample)
                 /\ UNCHANGED shared
         /\ tally' = [tally EXCEPT !.failures = @ + 1]
         /\ UNCHANGED <<attempt, manual, waiting, handleSource>>

\* start()
Start ==
    /\ pc = "new"
    /\ Iterate(0, shared)
    /\ UNCHANGED <<policy, tally, manual, prior, result, listed, published, handles, subscribing,
                   wireVars, serverVars, reconnects>>

\* The wait of a backoff ends by its timer; one of no length is not cancelled.
SleepElapses ==
    /\ pc = "sleeping" /\ (delay <= 0 \/ ~Cancelled)
    /\ Iterate(attempt, shared)
    /\ UNCHANGED <<policy, tally, manual, prior, result, listed, published, handles, subscribing,
                   wireVars, serverVars, reconnects>>

\* A wait, of a backoff or of a host that has failed, is cut short by a manual
\* reconnect or a shutdown.
WaitAborted ==
    /\ pc = "failed" \/ (pc = "sleeping" /\ delay > 0)
    /\ Cancelled
    /\ Iterate(0, shared)
    /\ manual' = IF ShutDown THEN manual ELSE FALSE
    /\ tally' = IF ShutDown THEN tally ELSE NoTally
    /\ UNCHANGED <<policy, prior, result, listed, published, handles, subscribing,
                   wireVars, serverVars, reconnects>>

-----------------------------------------------------------------------------
(* connectOnce()                                                           *)

ConnectAborted ==
    /\ pc = "factory" /\ Cancelled
    /\ ConnectFailed
    /\ UNCHANGED <<policy, prior, result, listed, published, handles, subscribing, wireVars,
                   serverVars, reconnects>>

FactoryFails ==
    /\ pc = "factory" /\ ~Cancelled
    /\ ConnectFailed
    /\ UNCHANGED <<policy, prior, result, listed, published, handles, subscribing, wireVars,
                   serverVars, reconnects>>

\* The factory delivers a transport.  The event stream is attached, the
\* bookmark and the subscriptions are read, and the handshake is sent.
FactoryOpens ==
    /\ pc = "factory" /\ ~Cancelled /\ conn.client < MaxConnects
    /\ conn' = [client |-> conn.client + 1, open |-> TRUE, subs |-> {}]
    /\ clients' = clients \cup {conn.client + 1}
    /\ events' = <<>>
    /\ prior' = [serverSeq |-> shared.serverSeq, subscriptions |-> shared.subscriptions]
    /\ pc' = IF shared.serverSeq > 0 /\ shared.subscriptions # {}
             THEN "reconnecting" ELSE "initializing"
    /\ result' = NoResult
    /\ UNCHANGED <<policy, attempt, tally, delay, manual, waiting, shared, handleSource, listed, published,
                   handles, subscribing, serverVars, reconnects>>

\* The sequence numbers of the actions on some channels.
Numbers(subs) == {i \in 1..Len(log) : log[i] \in subs}

\* Actions of the log that a client with the bookmark has not seen.
Missed(from, subs) ==
    Kept([i \in 1..Len(log) |-> i], {i \in Numbers(subs) : i > from})

RootAt(n) == Kept([i \in 1..n |-> i], Numbers({Root}))

\* ReconnectResult and InitializeResult: missed actions and the channels that
\* are gone, or snapshots of the channels that are left.
Replay(from, subs)   == [type |-> "replay", actions |-> Missed(from, subs \ gone),
                         missing |-> subs \cap gone]
Snapshots(kind, subs) == [type |-> kind, resources |-> subs \ gone, fromSeq |-> Len(log)]

Handshaken(r) ==
    /\ conn.open /\ ~Cancelled
    /\ result' = r
    /\ conn' = [conn EXCEPT !.subs = prior.subscriptions \ gone]
    /\ pc' = "listing"
    /\ UNCHANGED <<policy, attempt, tally, delay, manual, waiting, shared, handleSource, prior,
                   listed, published, handles, subscribing, clients, events, serverVars, reconnects>>

ReconnectAnswered ==
    /\ pc = "reconnecting"
    /\ \E r \in {Replay(prior.serverSeq, prior.subscriptions),
                 Snapshots("snapshot", prior.subscriptions)} : Handshaken(r)

\* The server refuses the reconnect with an RpcError: initialize instead.
ReconnectRefused ==
    /\ pc = "reconnecting" /\ conn.open /\ ~Cancelled
    /\ pc' = "initializing"
    /\ UNCHANGED <<policy, attempt, tally, delay, manual, waiting, shared, handleSource, prior, result,
                   listed, published, handles, subscribing, wireVars, serverVars, reconnects>>

InitializeAnswered ==
    /\ pc = "initializing"
    /\ Handshaken(Snapshots("init", prior.subscriptions))

\* The handshake fails, its connection ends, or it is cancelled: the half-built
\* client is shut down.
HandshakeFails ==
    /\ pc \in {"reconnecting", "initializing"} \/ (pc = "listing" /\ Cancelled)
    /\ pc' = "aborting"
    /\ prior' = NoPrior /\ result' = NoResult
    /\ UNCHANGED <<policy, attempt, tally, delay, manual, waiting, shared, handleSource,
                   listed, published, handles, subscribing, wireVars, serverVars, reconnects>>

AbortDone ==
    /\ pc = "aborting"
    /\ clients' = clients \ {conn.client}
    /\ conn' = [conn EXCEPT !.open = FALSE, !.subs = {}]
    /\ events' = <<>>
    /\ ConnectFailed
    /\ UNCHANGED <<policy, prior, result, listed, published, handles, subscribing, serverVars,
                   reconnects>>

\* The subscriptions kept after the handshake.  Those a caller added during it
\* are kept in both cases.
Surviving ==
    CASE result.type = "replay"   -> shared.subscriptions \ result.missing
      [] result.type = "snapshot" -> {u \in shared.subscriptions :
                                        u \in result.resources \/ u \notin prior.subscriptions}
      [] OTHER -> shared.subscriptions

FromSeq == IF result.type = "replay" \/ (result.type = "snapshot" /\ result.resources = {})
           THEN prior.serverSeq ELSE result.fromSeq

\* applyEnvelopeLocally() of one action after the other: the bookmark only
\* moves forward, and root actions are folded into the mirrored root state.
applyEnvelopeLocally(sh, actions) ==
    [sh EXCEPT !.serverSeq = Max({@} \cup ToSet(actions)),
               !.rootState = @ \o Kept(actions, Numbers({Root}))]

\* Faulty: the replayed actions reach the fan-out but not the mirrored state.
FaultyCommitted(ok) ==
    [shared EXCEPT
        !.generation = @ + 1, !.currentClient = conn.client, !.state = "connected",
        !.serverSeq = IF result.type = "replay" /\ result.actions # <<>>
                      THEN Last(result.actions) ELSE Max({@, FromSeq}),
        !.rootState = IF result.type # "replay" /\ Root \in result.resources
                      THEN RootAt(result.fromSeq) ELSE @,
        !.sessionSummaries = IF ok THEN sessions ELSE @,
        !.subscriptions = Surviving]

\* The shared state that connectOnce commits once the sessions are listed or
\* listing them has failed; replayed actions are applied in order.
Committed(ok) ==
    LET base == [shared EXCEPT
            !.generation = @ + 1, !.currentClient = conn.client, !.state = "connected",
            !.serverSeq = Max({@, FromSeq}),
            !.rootState = IF result.type # "replay" /\ Root \in result.resources
                          THEN RootAt(result.fromSeq) ELSE @,
            !.sessionSummaries = IF ok THEN sessions ELSE @,
            !.subscriptions = Surviving]
    IN IF result.type = "replay" THEN applyEnvelopeLocally(base, result.actions) ELSE base

\* listSessions settles and the connection is committed in one go: replayed
\* actions are published before the status becomes `connected`.
Connected ==
    /\ pc = "listing" /\ ~Cancelled
    /\ listed' \in {conn.open, FALSE}
    /\ shared' = Committed(listed')
    /\ handleSource' = [handleSource EXCEPT !.generation = shared.generation + 1,
                                            !.currentClient = conn.client]
    /\ published' = IF result.type = "replay" THEN published \o result.actions ELSE published
    /\ attempt' = IF policy.resetOnSuccess THEN 0 ELSE attempt
    /\ tally' = [failures |-> 0, before |-> IF policy.resetOnSuccess THEN 0
                                            ELSE tally.before + tally.failures + 1]
    /\ pc' = "running"
    /\ prior' = NoPrior /\ result' = NoResult
    /\ UNCHANGED <<policy, delay, manual, waiting, handles, subscribing, wireVars,
                   serverVars, reconnects>>

-----------------------------------------------------------------------------
(* runConnection()                                                         *)

\* handleEvent(): mirrors first, then the fan-out.
HandleEvent ==
    /\ pc = "running" /\ ~Cancelled /\ events # <<>>
    /\ LET e == Head(events) IN
       \/ /\ e.type = "action"
          /\ shared' = applyEnvelopeLocally(shared, <<e.seq>>)
          /\ published' = Append(published, e.seq)
       \/ /\ e.type = "sessionAdded"
          /\ shared' = [shared EXCEPT !.sessionSummaries = @ \cup {e.session}]
          /\ UNCHANGED published
       \/ /\ e.type = "sessionRemoved"
          /\ shared' = [shared EXCEPT !.sessionSummaries = @ \ {e.session}]
          /\ UNCHANGED published
    /\ events' = Tail(events)
    /\ UNCHANGED <<policy, supVars, handleSource, prior, result, listed, handles, subscribing, clients,
                   conn, serverVars, reconnects>>

\* Faulty: the handles keep seeing the client that is being shut down, and the
\* client is not shut down when a manual reconnect replaces it.
FaultyTearDown ==
    /\ shared' = [shared EXCEPT !.currentClient = 0]
    /\ handleSource' = [handleSource EXCEPT !.currentClient = 0]
    /\ clients' = IF manual THEN clients ELSE clients \ {shared.currentClient}
    /\ conn' = [conn EXCEPT !.open = FALSE, !.subs = {}]
    /\ events' = <<>>

\* tearDownClient() up to its await, which ends with the client shut down.
TearDown ==
    /\ shared' = [shared EXCEPT !.currentClient = 0]
    /\ handleSource' = [handleSource EXCEPT !.currentClient = 0]
    /\ clients' = clients \ {shared.currentClient}
    /\ conn' = [conn EXCEPT !.open = FALSE, !.subs = {}]
    /\ events' = <<>>

\* The event loop ends: shutdown, manual reconnect, or an event stream that has
\* ended and is drained.
ConnectionLeft ==
    /\ pc = "running"
    /\ Cancelled \/ (events = <<>> /\ ~conn.open)
    /\ pc' = IF ShutDown THEN "closingShutdown"
             ELSE IF manual THEN "closingManual" ELSE "closing"
    /\ TearDown
    /\ subscribing' = {}
    /\ UNCHANGED <<policy, attempt, tally, delay, manual, waiting, prior, result, listed, published, handles,
                   serverVars, reconnects>>

\* The client is shut down; go round.  A dropped connection is retried without
\* a backoff.
ClosingDone ==
    /\ pc \in {"closing", "closingManual", "closingShutdown"}
    /\ Iterate(IF pc = "closing" THEN attempt ELSE 0, shared)
    /\ manual' = IF pc = "closingManual" THEN FALSE ELSE manual
    /\ tally' = IF pc = "closingManual" THEN NoTally ELSE tally
    /\ UNCHANGED <<policy, prior, result, listed, published, handles, subscribing, wireVars,
                   serverVars, reconnects>>

-----------------------------------------------------------------------------
(* The public methods.                                                     *)

callVars == <<policy, pc, attempt, tally, delay, prior, result, listed, published>>

\* reconnect() up to its await.  A second call shares the acknowledgement.
Reconnect ==
    /\ ~ShutDown /\ pc # "new" /\ reconnects < MaxReconnects
    /\ reconnects' = reconnects + 1
    /\ waiting' = TRUE
    /\ manual' = TRUE
    /\ UNCHANGED <<callVars, shared, handleSource, handles, subscribing, wireVars, serverVars>>

\* shutdown(reason) up to its await of the supervisor.
Shutdown(reason) ==
    /\ ~ShutDown
    /\ shared' = [shared EXCEPT !.shutdownReason = reason]
    /\ handleSource' = [handleSource EXCEPT !.shutdownReason = reason]
    /\ waiting' = FALSE
    /\ UNCHANGED <<callVars, manual, handles, subscribing, wireVars, serverVars, reconnects>>

\* subscribe(uri) without a client: tracked for the next connection.
SubscribeOffline(u) ==
    /\ ~ShutDown /\ shared.currentClient = 0
    /\ shared' = [shared EXCEPT !.subscriptions = @ \cup {u}]
    /\ UNCHANGED <<callVars, manual, waiting, handleSource, handles, subscribing, wireVars,
                   serverVars, reconnects>>

\* subscribe(uri) on the current client up to its await.
SubscribeSent(u) ==
    /\ ~ShutDown /\ shared.currentClient # 0 /\ conn.open
    /\ u \notin gone /\ u \notin subscribing
    /\ conn' = [conn EXCEPT !.subs = @ \cup {u}]
    /\ subscribing' = subscribing \cup {u}
    /\ UNCHANGED <<callVars, manual, waiting, shared, handleSource, handles, clients, events,
                   serverVars, reconnects>>

\* The answer has come, and the URI is tracked.
SubscribeAnswered(u) ==
    /\ u \in subscribing /\ conn.open
    /\ subscribing' = subscribing \ {u}
    /\ shared' = [shared EXCEPT !.subscriptions = @ \cup {u}]
    /\ UNCHANGED <<callVars, manual, waiting, handleSource, handles, wireVars, serverVars, reconnects>>

\* unsubscribe(uri): untracks, and tells the server when there is a client.
Unsubscribe(u) ==
    /\ u \in shared.subscriptions \cup subscribing \cup conn.subs
    /\ shared' = [shared EXCEPT !.subscriptions = @ \ {u}]
    /\ conn' = IF ~ShutDown /\ shared.currentClient # 0
               THEN [conn EXCEPT !.subs = @ \ {u}] ELSE conn
    /\ UNCHANGED <<callVars, manual, waiting, handleSource, handles, subscribing, clients, events,
                   serverVars, reconnects>>

\* MultiHostClient.client(): a handle for the current connection.
GetHandle ==
    /\ ~ShutDown /\ shared.currentClient # 0 /\ Cardinality(handles) < MaxHandles
    /\ handles' = handles \cup {[generation |-> shared.generation, client |-> shared.currentClient]}
    /\ UNCHANGED <<callVars, manual, waiting, shared, handleSource, subscribing, wireVars,
                   serverVars, reconnects>>

\* Faulty: asks for a client rather than for the handle's own generation.
FaultyCheckAlive(h) == handleSource.shutdownReason = "none" /\ handleSource.currentClient # 0

\* HostClientHandle.checkAlive() does not throw.
checkAlive(h) ==
    /\ handleSource.shutdownReason = "none"
    /\ handleSource.generation = h.generation

-----------------------------------------------------------------------------
(* The server and the connection.  What the server does after a shutdown    *)
(* reaches nobody and is left out.                                          *)

supervisorVars == <<policy, supVars, shared, handleSource, prior, result, listed, published, handles,
                    reconnects>>

ServerActs(ch) ==
    /\ Len(log) < MaxSeq /\ Len(log) + notes < MaxSteps
    /\ ch \notin gone /\ ~ShutDown
    /\ log' = Append(log, ch)
    /\ events' = IF conn.open /\ ch \in conn.subs
                 THEN Append(events, [type |-> "action", seq |-> Len(log) + 1]) ELSE events
    /\ UNCHANGED <<supervisorVars, subscribing, clients, conn, sessions, notes, gone>>

\* Session notifications go to every connection that has been initialized.
ServerNotifies(s) ==
    /\ Len(log) + notes < MaxSteps /\ ~ShutDown
    /\ notes' = notes + 1
    /\ sessions' = IF s \in sessions THEN sessions \ {s} ELSE sessions \cup {s}
    /\ events' = IF conn.open /\ pc \in {"listing", "running"}
                 THEN Append(events, [type |-> IF s \in sessions THEN "sessionRemoved"
                                               ELSE "sessionAdded", session |-> s])
                 ELSE events
    /\ UNCHANGED <<supervisorVars, subscribing, clients, conn, log, gone>>

ServerDeletes(u) ==
    /\ u \in Uris \ gone /\ ~ShutDown
    /\ gone' = gone \cup {u}
    /\ conn' = [conn EXCEPT !.subs = @ \ {u}]
    /\ UNCHANGED <<supervisorVars, subscribing, clients, events, log, sessions, notes>>

ConnectionEnds ==
    /\ conn.open
    /\ conn' = [conn EXCEPT !.open = FALSE]
    /\ subscribing' = {}
    /\ UNCHANGED <<supervisorVars, clients, events, serverVars>>

-----------------------------------------------------------------------------

Supervisor ==
    \/ Start \/ SleepElapses \/ WaitAborted \/ ConnectAborted \/ HandshakeFails \/ AbortDone
    \/ Connected \/ HandleEvent \/ ConnectionLeft \/ ClosingDone

Next ==
    \/ Supervisor
    \/ FactoryOpens \/ FactoryFails \/ ReconnectAnswered \/ ReconnectRefused \/ InitializeAnswered
    \/ Reconnect \/ GetHandle
    \/ \E reason \in Reasons : Shutdown(reason)
    \/ \E u \in Uris : \/ SubscribeOffline(u) \/ SubscribeSent(u) \/ SubscribeAnswered(u)
                       \/ Unsubscribe(u)
    \/ \E ch \in Channels : ServerActs(ch)
    \/ \E s \in Sessions : ServerNotifies(s)
    \/ \E u \in Uris : ServerDeletes(u)
    \/ ConnectionEnds

\* The supervisor's own continuations run: aborts are noticed, timers fire,
\* closing a client ends, and a buffered event is handled.  Nothing is assumed
\* of the factory, of the server, or that a handshake or listing is answered.
Fairness ==
    /\ WF_vars(Start) /\ WF_vars(SleepElapses) /\ WF_vars(WaitAborted)
    /\ WF_vars(ConnectAborted) /\ WF_vars(HandshakeFails /\ Cancelled)
    /\ WF_vars(AbortDone) /\ WF_vars(ConnectionLeft) /\ WF_vars(ClosingDone)

Spec == Init /\ [][Next]_vars /\ Fairness

-----------------------------------------------------------------------------

TypeOK ==
    /\ policy \in Policies
    /\ shared \in HostShared /\ handleSource \in HostClientHandleSource
    /\ published \in Seq(1..MaxSeq) /\ attempt \in Nat
    /\ clients \subseteq ClientIds

\* What the actions still buffered will add to the mirrored root state.
Buffered ==
    LET actions == Kept(events, {[type |-> "action", seq |-> i] : i \in Numbers({Root})})
    IN [i \in 1..Len(actions) |-> actions[i].seq]

\* The sessions once the buffered notifications are handled: the last one about
\* a session tells, and without one the summary does.
AfterNotes ==
    LET About(s) == {k \in 1..Len(events) : events[k].type # "action" /\ events[k].session = s}
    IN {s \in Sessions : IF About(s) = {} THEN s \in shared.sessionSummaries
                         ELSE events[Max(About(s))].type = "sessionAdded"}

\* While a connection is live, the mirrored root state and the root actions
\* still buffered are exactly the server's root history: across lost
\* connections, replays, snapshots, fallbacks to initialize and events that
\* arrive during the handshake, no root action is lost or applied twice, and
\* the fan-out neither repeats nor reorders one.  The session summaries follow
\* the server's sessions when they could be listed.
MirrorsFollowServer ==
    /\ TypeOK
    /\ (pc = "running" /\ conn.open) => shared.rootState \o Buffered = RootAt(Len(log))
    /\ (pc = "running" /\ conn.open /\ listed) => AfterNotes = sessions
    /\ \A i \in 1..(Len(published) - 1) : published[i] < published[i + 1]

\* At most one client is ever open, it is the one the supervisor works with, and
\* none is left once the supervisor has exited, however connects are aborted.
NoClientLeft ==
    /\ clients \subseteq {conn.client}
    /\ pc \in {"new", "factory", "sleeping", "failed", "exited"} =>
          clients = {} /\ shared.currentClient = 0 /\ handleSource.currentClient = 0
    /\ shared.currentClient # 0 => clients = {shared.currentClient}

\* A handle that passes its check acts on the newest connection of the host and
\* never on one that a reconnect has replaced.
HandlesStayCurrent ==
    \A h \in handles : checkAlive(h) =>
        /\ h.generation = shared.generation
        /\ shared.currentClient \in {0, h.client}

\* The host is given up when, and only when, a connect fails and more than
\* maxAttempts connects count: with resetOnSuccess those that failed since the
\* last connection, without it all since a caller asked.  It is not given up
\* earlier and is retried until then, however connections come and go and callers
\* interrupt, and a manual reconnect starts over.  It is a failed connect that
\* is counted: a connection that drops is connected again also by a policy of no
\* retries, of which policy.ts:61 says that it disables reconnect entirely.
GivesUpAsConfigured ==
    (policy.maxAttempts # Forever /\ pc # "exited") =>
        (pc = "failed" <=> /\ tally.failures > 0
                           /\ tally.before + tally.failures > policy.maxAttempts)

\* reconnect() returns and shutdown() ends the supervisor, whatever it was
\* waiting for and although factory and server may never answer.
CallsReturn ==
    /\ waiting ~> ~waiting
    /\ (ShutDown /\ pc # "new") ~> (pc = "exited")

\* "The URI is still appended to the local subscription list first, so the next
\* successful (re)connect will subscribe to it automatically" (subscribe()):
\* a live connection with no subscribe() under way carries every tracked URI.
TrackedIsSubscribed ==
    (pc = "running" /\ conn.open /\ subscribing = {} /\ ~Cancelled)
        => shared.subscriptions \subseteq conn.subs \cup gone

=============================================================================
