----------------------------- MODULE AhpClient -----------------------------
(***************************************************************************)
(* AhpClient of clients/typescript/src/client/client.ts: one connection,    *)
(* its pending requests with their timers, its subscription queues, the     *)
(* receive loop and the requests the server makes of the client.            *)
(*                                                                          *)
(* Code between two awaits runs without interruption, so a method up to its *)
(* first await is one action, and each continuation is another.  A          *)
(* subscription is what BroadcastQueue shows it to be: a private mailbox.   *)
(* The state 'closing' exists only inside shutdown().  The transport and    *)
(* the server are external: both wires are first-in first-out, a send or a  *)
(* receive may fail at any time, and the server may answer late or never.   *)
(* How a frame is told apart from others, and what becomes of one that      *)
(* cannot be used, is in WebSocketTransport.                                *)
(***************************************************************************)
EXTENDS Integers, Sequences, FiniteSets, SequencesExt

CONSTANTS
    Uris,               \* channels
    Handles,            \* Subscription objects
    MaxRequests,        \* bound: request() calls
    MaxEvents,          \* bound: events the server emits
    MaxServerRequests,  \* bound: requests of the server
    MaxDispatches,      \* bound: dispatch() calls
    MaxSending,         \* bound: unfinished sends an unsubscribe() may add to
    Timeouts,           \* requestTimeoutMs > 0
    CloseMayFail        \* transport.close() may throw and leave it open

ASSUME BoundAssumption ==
    {MaxRequests, MaxEvents, MaxServerRequests, MaxDispatches, MaxSending} \subseteq Nat
Requests       == 1..MaxRequests
ServerRequests == 1..MaxServerRequests
NoHandle       == "none"

ASSUME SwitchAssumption == {Timeouts, CloseMayFail} \subseteq BOOLEAN
ASSUME HandleAssumption == NoHandle \notin Handles

VARIABLES
    status,         \* connection state: "idle", "connected", "closed"
    loop,           \* receiveLoop: "none", "running", "done"
    nextRequestId,
    outcome,        \* per request: "unused", "pending" or how it settled
    timer,          \* requests whose timer is armed
    subscribing,    \* per request: the handle a subscribe() waits for it with
    subs,           \* URIs with a queue in `subscriptions`
    handle,         \* per handle: its URI and state, "none", "open", "ended", "closed"
    got,            \* per handle: the events delivered to it
    nextClientSeq, seqs,   \* counter, and the clientSeqs dispatched so far, in order
    handlerSet,     \* a server request handler is installed
    answering,      \* server requests whose handler is running
    shutdownCall,   \* one shutdown() call: "none", "closing", "draining", "returned"
    transport,      \* "open", "closed"
    sending,        \* messages handed to transport.send() and not through yet
    inbound,        \* frames sent by the server and not received yet
    srvOpen,        \* server: requests received and not answered
    srvSubs,        \* server: subscribed URIs
    since,          \* per handle: number of events when the server subscribed it
    emitted,        \* server: URIs of the events emitted so far
    srvAsked,       \* server: requests made of the client so far
    answers         \* server: answers received, per request it made

reqVars    == <<nextRequestId, outcome, timer, subscribing>>
subVars    == <<subs, handle, got>>
seqVars    == <<nextClientSeq, seqs>>
callVars   == <<handlerSet, answering>>
wireVars   == <<transport, sending, inbound>>
serverVars == <<srvOpen, srvSubs, since, emitted, srvAsked, answers>>
vars == <<status, loop, shutdownCall, reqVars, subVars, seqVars, callVars,
          wireVars, serverVars>>

Init ==
    /\ status = "idle" /\ loop = "none" /\ shutdownCall = "none"
    /\ nextRequestId = 1
    /\ outcome = [i \in Requests |-> "unused"]
    /\ timer = {}
    /\ subscribing = [i \in Requests |-> NoHandle]
    /\ subs = {}
    /\ handle \in [Handles -> [uri : Uris, state : {"none"}]]
    /\ got = [h \in Handles |-> <<>>]
    /\ nextClientSeq = 1 /\ seqs = <<>>
    /\ handlerSet = FALSE /\ answering = {}
    /\ transport = "open" /\ sending = <<>> /\ inbound = <<>>
    /\ srvOpen = {} /\ srvSubs = {} /\ emitted = <<>> /\ srvAsked = 0
    /\ since = [h \in Handles |-> -1]
    /\ answers = [i \in ServerRequests |-> 0]

-----------------------------------------------------------------------------
(* Helpers of the client.                                                  *)

\* isClosed(); assertOpen() throws when it holds.
IsOpen == status # "closed"

Send(msg) == sending' = Append(sending, msg)

\* The handles of a closed queue end; those of other queues are untouched.
Ended(uris) ==
    [h \in Handles |-> IF handle[h].state = "open" /\ handle[h].uri \in uris
                       THEN [handle[h] EXCEPT !.state = "ended"] ELSE handle[h]]

\* Rejecting a subscribe() request closes its Subscription.
Released(hs, S) ==
    [h \in Handles |-> IF h \in S /\ hs[h].state # "none"
                       THEN [hs[h] EXCEPT !.state = "closed"] ELSE hs[h]]

\* Faulty: leaves the requests of subscribe() calls in the map.
FaultyTearDown(reason) ==
    IF status = "closed" THEN UNCHANGED <<status, reqVars, subVars>>
    ELSE /\ status' = "closed"
         /\ outcome' = [i \in Requests |->
                IF outcome[i] = "pending" /\ subscribing[i] = NoHandle
                THEN reason ELSE outcome[i]]
         /\ timer' = {}
         /\ handle' = Ended(Uris)
         /\ subs' = {}
         /\ UNCHANGED <<nextRequestId, subscribing, got>>

\* tearDown(reason): fails every pending request, disarms its timer and closes
\* every queue.  A second call changes nothing.
TearDown(reason) ==
    IF status = "closed" THEN UNCHANGED <<status, reqVars, subVars>>
    ELSE /\ status' = "closed"
         /\ outcome' = [i \in Requests |->
                IF outcome[i] = "pending" THEN reason ELSE outcome[i]]
         /\ timer' = {}
         /\ handle' = Released(Ended(Uris),
                {subscribing[i] : i \in {j \in Requests : outcome[j] = "pending"}})
         /\ subs' = {}
         /\ UNCHANGED <<nextRequestId, subscribing, got>>

\* Faulty: the late answer of a request that has timed out resolves it again.
FaultyIsPending(i) == outcome[i] # "unused"

\* this.pending has an entry for i.
IsPending(i) == outcome[i] = "pending"

\* The pending request i settles and leaves the map.
Settle(i, how) ==
    /\ outcome' = [outcome EXCEPT ![i] = how]
    /\ timer' = timer \ {i}
    /\ handle' = IF how = "result" THEN handle
                 ELSE Released(handle, {subscribing[i]})
    /\ UNCHANGED <<nextRequestId, subscribing, subs, got>>

-----------------------------------------------------------------------------
(* Calls of the application.                                               *)

\* connect(): a no-op once a loop was started.
Connect ==
    /\ loop = "none"
    /\ status' = "connected"
    /\ loop' = "running"
    /\ UNCHANGED <<shutdownCall, reqVars, subVars, seqVars, callVars,
                   wireVars, serverVars>>

\* shutdown() up to its first await; it returns at once on a closed client.
Shutdown ==
    /\ shutdownCall = "none"
    /\ shutdownCall' = IF IsOpen THEN "closing" ELSE "returned"
    /\ TearDown("clientClosed")
    /\ UNCHANGED <<loop, seqVars, callVars, wireVars, serverVars>>

\* shutdown(): transport.close() is through, or has thrown.
ShutdownClosed ==
    /\ shutdownCall = "closing"
    /\ shutdownCall' = "draining"
    /\ transport' \in IF CloseMayFail THEN {transport, "closed"} ELSE {"closed"}
    /\ UNCHANGED <<status, loop, reqVars, subVars, seqVars, callVars,
                   sending, inbound, serverVars>>

\* shutdown(): the receive loop has ended.
ShutdownReturns ==
    /\ shutdownCall = "draining" /\ loop # "running"
    /\ shutdownCall' = "returned"
    /\ UNCHANGED <<status, loop, reqVars, subVars, seqVars, callVars,
                   wireVars, serverVars>>

\* request(): registers the request and its timer, then sends.
StartRequest(h) ==
    /\ IsOpen /\ nextRequestId <= MaxRequests
    /\ nextRequestId' = nextRequestId + 1
    /\ outcome' = [outcome EXCEPT ![nextRequestId] = "pending"]
    /\ timer' = IF Timeouts THEN timer \cup {nextRequestId} ELSE timer
    /\ subscribing' = [subscribing EXCEPT ![nextRequestId] = h]
    /\ Send([type |-> "request", id |-> nextRequestId])

Request ==
    /\ StartRequest(NoHandle)
    /\ UNCHANGED <<status, loop, shutdownCall, subVars, seqVars, callVars,
                   transport, inbound, serverVars>>

\* attachSubscription(): creates the queue if there is none, and a reader of it.
Attach(h) ==
    /\ IsOpen /\ handle[h].state = "none"
    /\ handle' = [handle EXCEPT ![h].state = "open"]
    /\ subs' = subs \cup {handle[h].uri}
    /\ UNCHANGED got

AttachSubscription(h) ==
    /\ Attach(h)
    /\ UNCHANGED <<status, loop, shutdownCall, reqVars, seqVars, callVars,
                   wireVars, serverVars>>

\* subscribe(): attaches first, then sends the request.
Subscribe(h) ==
    /\ Attach(h)
    /\ StartRequest(h)
    /\ UNCHANGED <<status, loop, shutdownCall, seqVars, callVars,
                   transport, inbound, serverVars>>

\* Subscription.close().
CloseSubscription(h) ==
    /\ handle[h].state \in {"open", "ended"}
    /\ handle' = Released(handle, {h})
    /\ UNCHANGED <<status, loop, shutdownCall, reqVars, subs, got, seqVars,
                   callVars, wireVars, serverVars>>

\* unsubscribe(): closes and drops the queue if there is one, and notifies
\* the server in any case.
Unsubscribe(u) ==
    /\ IsOpen /\ Len(sending) < MaxSending
    /\ handle' = Ended({u})
    /\ subs' = subs \ {u}
    /\ Send([type |-> "unsubscribe", uri |-> u])
    /\ UNCHANGED <<status, loop, shutdownCall, reqVars, got, seqVars, callVars,
                   transport, inbound, serverVars>>

\* Faulty: an explicit clientSeq sets the counter, forwards or backwards.
FaultyNextSeq(seq) == seq + 1

\* The counter after a dispatch with an explicit clientSeq.
NextSeq(seq) == IF seq + 1 > nextClientSeq THEN seq + 1 ELSE nextClientSeq

\* dispatch(): with the counter's clientSeq or with one of the caller's.
Dispatch(seq) ==
    /\ IsOpen /\ Len(seqs) < MaxDispatches
    /\ nextClientSeq' = IF seq = nextClientSeq THEN seq + 1 ELSE NextSeq(seq)
    /\ seqs' = Append(seqs, seq)
    /\ Send([type |-> "dispatch"])
    /\ UNCHANGED <<status, loop, shutdownCall, reqVars, subVars, callVars,
                   transport, inbound, serverVars>>

\* setServerRequestHandler(): installs or clears the handler.
SetHandler ==
    /\ MaxServerRequests > 0
    /\ handlerSet' = ~handlerSet
    /\ UNCHANGED <<status, loop, shutdownCall, reqVars, subVars, seqVars,
                   answering, wireVars, serverVars>>

-----------------------------------------------------------------------------
(* Continuations: timers and sends.                                        *)

\* The timer of request().
TimeoutFires(i) ==
    /\ i \in timer /\ IsPending(i)
    /\ Settle(i, "timeout")
    /\ UNCHANGED <<status, loop, shutdownCall, seqVars, callVars, wireVars,
                   serverVars>>

\* transport.send() is through.  What a closed transport accepts is lost.
SendDone ==
    LET m == Head(sending) IN
    /\ sending # <<>>
    /\ sending' = Tail(sending)
    /\ srvOpen' = IF transport = "open" /\ m.type = "request"
                  THEN srvOpen \cup {m.id} ELSE srvOpen
    /\ srvSubs' = IF transport = "open" /\ m.type = "unsubscribe"
                  THEN srvSubs \ {m.uri} ELSE srvSubs
    /\ answers' = IF transport = "open" /\ m.type = "answer"
                  THEN [answers EXCEPT ![m.id] = @ + 1] ELSE answers
    /\ UNCHANGED <<status, loop, shutdownCall, reqVars, subVars, seqVars,
                   callVars, transport, inbound, since, emitted, srvAsked>>

\* sendMessage(): transport.send() fails, and the client is torn down.
SendFails ==
    /\ sending # <<>>
    /\ sending' = Tail(sending)
    /\ TearDown("transport")
    /\ UNCHANGED <<loop, shutdownCall, seqVars, callVars, transport, inbound,
                   serverVars>>

-----------------------------------------------------------------------------
(* The receive loop, driveTransport().                                     *)

\* recv() yields frame f; after handling it the loop goes on only while the
\* client is connected.  A frame that arrives after the tear-down is handled.
Received(f) ==
    /\ loop = "running" /\ inbound # <<>> /\ f = Head(inbound)
    /\ inbound' = Tail(inbound)
    /\ loop' = IF status = "connected" THEN "running" ELSE "done"
    /\ UNCHANGED <<status, shutdownCall, seqVars, handlerSet, transport, serverVars>>

\* dispatchInbound(): a response.  Unknown and settled ids are ignored.
HandleResponse(f) ==
    /\ f.type \in {"result", "error"}
    /\ Received(f)
    /\ IF IsPending(f.id) THEN Settle(f.id, f.type) ELSE UNCHANGED <<reqVars, subVars>>
    /\ UNCHANGED <<answering, sending>>

\* Faulty: a Subscription gets events only once its request is answered.
FaultyLateFanOut(channel, n) ==
    [h \in Handles |->
        IF /\ channel \in subs /\ handle[h].uri = channel /\ handle[h].state = "open"
           /\ \A i \in Requests : subscribing[i] = h => outcome[i] # "pending"
        THEN Append(got[h], n) ELSE got[h]]

\* fanOut(): the queue of the channel, if there is one, gets event n.
FanOut(channel, n) ==
    [h \in Handles |->
        IF channel \in subs /\ handle[h].uri = channel /\ handle[h].state = "open"
        THEN Append(got[h], n) ELSE got[h]]

\* handleNotification() of an action or another notification of a channel.
HandleEvent(f) ==
    /\ f.type = "event"
    /\ Received(f)
    /\ got' = FanOut(emitted[f.id], f.id)
    /\ UNCHANGED <<reqVars, subs, handle, answering, sending>>

\* Faulty: without a handler the server gets no answer.
FaultyHandleServerRequest(f) ==
    /\ f.type = "ask"
    /\ Received(f)
    /\ answering' = IF handlerSet THEN answering \cup {f.id} ELSE answering
    /\ UNCHANGED <<sending, reqVars, subVars>>

\* handleServerRequest() up to the handler's await; MethodNotFound without one.
HandleServerRequest(f) ==
    /\ f.type = "ask"
    /\ Received(f)
    /\ IF handlerSet
       THEN answering' = answering \cup {f.id} /\ UNCHANGED sending
       ELSE Send([type |-> "answer", id |-> f.id]) /\ UNCHANGED answering
    /\ UNCHANGED <<reqVars, subVars>>

\* The handler returns or throws; either way one response is sent, whatever
\* has become of the client.
HandlerFinishes(i) ==
    /\ i \in answering
    /\ answering' = answering \ {i}
    /\ Send([type |-> "answer", id |-> i])
    /\ UNCHANGED <<status, loop, shutdownCall, reqVars, subVars, seqVars,
                   handlerSet, transport, inbound, serverVars>>

\* recv() yields null once a closed transport is drained, or fails.
LoopEnds ==
    /\ loop = "running"
    /\ loop' = "done"
    /\ TearDown("transport")
    /\ UNCHANGED <<shutdownCall, seqVars, callVars, wireVars, serverVars>>

\* Faulty: the end of the stream is noticed only by a client that is open.
FaultyRecvNull == IsOpen /\ transport = "closed" /\ inbound = <<>> /\ LoopEnds

RecvNull  == transport = "closed" /\ inbound = <<>> /\ LoopEnds
RecvFails == transport = "open" /\ LoopEnds

-----------------------------------------------------------------------------
(* The server and the network, external.                                   *)

Deliver(f) == transport = "open" /\ inbound' = Append(inbound, f)
ClientUnchanged == UNCHANGED <<status, loop, shutdownCall, reqVars, subVars,
                               seqVars, callVars, transport, sending>>

\* The server adds the connection to the channel of the subscribe request i.
ServerSubscribes(i) ==
    /\ i \in srvOpen /\ subscribing[i] # NoHandle /\ since[subscribing[i]] = -1
    /\ srvSubs' = srvSubs \cup {handle[subscribing[i]].uri}
    /\ since' = [since EXCEPT ![subscribing[i]] = Len(emitted)]
    /\ ClientUnchanged /\ UNCHANGED <<inbound, srvOpen, emitted, srvAsked, answers>>

ServerAnswers(i) ==
    /\ i \in srvOpen
    /\ srvOpen' = srvOpen \ {i}
    /\ \E how \in {"result", "error"} :
          /\ subscribing[i] # NoHandle => ((how = "result") <=> (since[subscribing[i]] >= 0))
          /\ Deliver([type |-> how, id |-> i])
    /\ ClientUnchanged /\ UNCHANGED <<srvSubs, since, emitted, srvAsked, answers>>

ServerEmits(u) ==
    /\ Len(emitted) < MaxEvents
    /\ emitted' = Append(emitted, u)
    /\ Deliver([type |-> "event", id |-> Len(emitted) + 1])
    /\ ClientUnchanged /\ UNCHANGED <<srvOpen, srvSubs, since, srvAsked, answers>>

ServerAsks ==
    /\ srvAsked < MaxServerRequests
    /\ srvAsked' = srvAsked + 1
    /\ Deliver([type |-> "ask", id |-> srvAsked + 1])
    /\ ClientUnchanged /\ UNCHANGED <<srvOpen, srvSubs, since, emitted, answers>>

RemoteClose ==
    /\ transport = "open" /\ transport' = "closed"
    /\ UNCHANGED <<status, loop, shutdownCall, reqVars, subVars, seqVars, callVars,
                   sending, inbound, serverVars>>

-----------------------------------------------------------------------------
HandleFrame ==
    \E f \in ToSet(inbound) :
        HandleResponse(f) \/ HandleEvent(f) \/ HandleServerRequest(f)

Next ==
    \/ Connect \/ Shutdown \/ ShutdownClosed \/ ShutdownReturns
    \/ Request \/ SetHandler
    \/ \E h \in Handles : AttachSubscription(h) \/ Subscribe(h) \/ CloseSubscription(h)
    \/ \E u \in Uris : Unsubscribe(u)
    \/ \E seq \in 1..(MaxDispatches + 1) \cup {nextClientSeq} : Dispatch(seq)
    \/ \E i \in Requests : TimeoutFires(i)
    \/ SendDone \/ SendFails
    \/ HandleFrame \/ RecvNull \/ RecvFails
    \/ \E i \in ServerRequests : HandlerFinishes(i)
    \/ \E i \in Requests : ServerSubscribes(i) \/ ServerAnswers(i)
    \/ \E u \in srvSubs : ServerEmits(u)
    \/ ServerAsks \/ RemoteClose

Spec == Init /\ [][Next]_vars

\* Timers fire, sends and handlers finish, what has arrived is received, and
\* the continuations of shutdown() run.  Nothing is assumed of the server.
Fairness ==
    /\ \A i \in Requests : WF_vars(TimeoutFires(i))
    /\ \A i \in ServerRequests : WF_vars(HandlerFinishes(i))
    /\ WF_vars(SendDone) /\ WF_vars(HandleFrame) /\ WF_vars(RecvNull)
    /\ WF_vars(ShutdownClosed) /\ WF_vars(ShutdownReturns)

FairSpec == Spec /\ Fairness

-----------------------------------------------------------------------------
(* Properties.                                                             *)

Outcomes == {"unused", "pending", "result", "error", "timeout", "transport", "clientClosed"}
Frames == [type : {"result", "error", "event", "ask"}, id : Nat]
Messages == [type : {"request", "answer"}, id : Nat]
            \cup [type : {"unsubscribe"}, uri : Uris] \cup [type : {"dispatch"}]

TypeOK ==
    /\ status \in {"idle", "connected", "closed"}
    /\ loop \in {"none", "running", "done"}
    /\ shutdownCall \in {"none", "closing", "draining", "returned"}
    /\ nextRequestId \in 1..(MaxRequests + 1)
    /\ outcome \in [Requests -> Outcomes]
    /\ timer \subseteq Requests
    /\ subscribing \in [Requests -> Handles \cup {NoHandle}]
    /\ subs \subseteq Uris
    /\ handle \in [Handles -> [uri : Uris, state : {"none", "open", "ended", "closed"}]]
    /\ got \in [Handles -> Seq(1..MaxEvents)]
    /\ nextClientSeq \in Nat /\ seqs \in Seq(Nat)
    /\ handlerSet \in BOOLEAN /\ answering \subseteq ServerRequests
    /\ transport \in {"open", "closed"}
    /\ sending \in Seq(Messages) /\ inbound \in Seq(Frames)
    /\ srvOpen \subseteq Requests /\ srvSubs \subseteq Uris
    /\ since \in [Handles -> -1..MaxEvents]
    /\ emitted \in Seq(Uris)
    /\ srvAsked \in 0..MaxServerRequests
    /\ answers \in [ServerRequests -> Nat]

\* A request settles exactly once: an answer after its timeout, a timeout after
\* its answer, and a tear-down after either leave it alone.
SettlesOnce ==
    [][\A i \in Requests : outcome'[i] # outcome[i] =>
          \/ outcome[i] = "unused" /\ outcome'[i] = "pending"
          \/ outcome[i] = "pending" /\ outcome'[i] # "unused"]_vars

\* However a client was closed, by shutdown(), by a failed send or by the end
\* of the stream, no request is pending, no queue is left and no Subscription
\* waits for an event that cannot come.  At any time exactly the pending
\* requests have an armed timer, so none outlives its request or the client.
ClosedLeavesNothing ==
    /\ status = "closed" =>
        /\ \A i \in Requests : outcome[i] # "pending"
        /\ subs = {}
        /\ \A h \in Handles : handle[h].state # "open"
    /\ timer = IF Timeouts THEN {i \in Requests : outcome[i] = "pending"} ELSE {}

\* While a Subscription made by subscribe() is open the server goes on sending
\* it events, an unsubscribe() on the way never undoing a later subscribe(),
\* and it misses nothing: each event the server emitted on the channel since it
\* took the subscription has been delivered or is on its way, in order, once.
NothingMissed ==
    TypeOK /\ \A h \in Handles :
        /\ \A j, k \in DOMAIN got[h] : j < k => got[h][j] < got[h][k]
        /\ (handle[h].state = "open" /\ since[h] >= 0) =>
               /\ handle[h].uri \in srvSubs
               /\ \A n \in (since[h] + 1)..Len(emitted) : emitted[n] = handle[h].uri =>
                     n \in ToSet(got[h]) \/ [type |-> "event", id |-> n] \in ToSet(inbound)

\* The counter is above every clientSeq used, so that dispatch() without an
\* explicit one never reuses a sequence number.
FreshClientSeq == \A s \in ToSet(seqs) : s < nextClientSeq

\* Every call returns: with timeouts on every request settles, whatever the
\* server does, and shutdown() returns, whatever the loop and the server were
\* doing; only a transport whose close() failed and that stays open can hold
\* shutdown() up.
CallsSettle ==
    /\ \A i \in Requests : (outcome[i] = "pending") ~> (outcome[i] # "pending")
    /\ (shutdownCall # "none") ~>
          (shutdownCall = "returned" \/ (shutdownCall = "draining" /\ transport = "open"))

\* No request of the server is answered twice.
NeverAnsweredTwice == \A i \in ServerRequests : answers[i] <= 1

\* A request of the server is answered while the connection lives, with or
\* without a handler ("so the server does not leak a pending request"), and it
\* is never answered twice, whatever handlers are set and removed meanwhile.
ServerAnsweredOnce ==
    /\ []NeverAnsweredTwice
    /\ \A i \in ServerRequests :
          (srvAsked >= i /\ loop = "running") ~>
               (answers[i] = 1 \/ status = "closed" \/ transport = "closed")

=============================================================================
