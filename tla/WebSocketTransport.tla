------------------------ MODULE WebSocketTransport ------------------------
(***************************************************************************)
(* One connection from the socket to the client's dispatch: the browser      *)
(* WebSocket behind WebSocketTransport (ws/transport.ts), whose recv() calls *)
(* are served in order, and the receive loop of AhpClient (client.ts), which *)
(* decides by its fields alone what an inbound message is.  The rest of the  *)
(* client, its subscriptions and timers, is module AhpClient.                *)
(*                                                                           *)
(* The i-th frame the host sends is sent[i]; the transport, the readers and  *)
(* the event streams hold frame numbers.  Text or binary makes no difference *)
(* once a frame is decoded and is left out.  The host and the socket are not *)
(* in the repository: the socket follows the WebSocket standard, and the     *)
(* host negotiates with negotiateProtocolVersion and sends what the agreed   *)
(* version knows, as types/version/registry.ts is there for.                 *)
(***************************************************************************)
EXTENDS ProtocolMessages

CONSTANTS
    Readers,        \* callers of recv()
    Loop,           \* the one that is the client's receive loop
    Offers,         \* lists of versions a client may offer
    Asks,           \* what a client may request once it is initialized
    ServerAsks,     \* what the host may request of a client
    News,           \* notifications the host may send
    MaxFrames,      \* bound: frames the host sends
    MaxRequests     \* bound: requests of each side

ASSUME TransportAssumption == Loop \in Readers /\ {MaxFrames, MaxRequests} \subseteq Nat

\* A request of either side with its id.
Request(id, ask) == [jsonrpc |-> "2.0", id |-> id, method |-> ask.method, params |-> ask.params]

\* What is requested and announced are messages of the protocol.
ASSUME MessageAssumption ==
    /\ \A id \in 1..MaxRequests :
          /\ \A ask \in Asks : Request(id, ask) \in AhpRequest(ask.method)
          /\ \A ask \in ServerAsks : Request(id, ask) \in AhpServerRequest(ask.method)
    /\ \A news \in News : news \in AhpServerNotification(news.method)

VARIABLES
    readyState,     \* of the socket; "none" before there is one
    sent, arrived,  \* the host's frames; how many the socket has delivered
    inbox, waiters, error, closed, closeInfo,   \* WebSocketTransport
    got,            \* reader -> what its last recv() came to
    taken, ended,   \* history: frames handed out, the first end of stream
    status, pending, nextRequestId,             \* AhpClient
    serving,        \* server requests whose handler runs
    settled,        \* client request -> how its promise settled
    events,         \* frames fanned out to the event streams
    asked, answers, \* host: open client requests; how it answered which
    agreed, known,  \* host: the negotiated version; the news it knows
    open, replies   \* host: its unanswered requests; the replies it got

socketVars == <<readyState, sent, arrived>>
queueVars  == <<inbox, waiters, got, taken, ended>>
wsVars     == <<error, closed, closeInfo>>
clientVars == <<status, pending, nextRequestId, serving, settled, events>>
hostVars   == <<asked, answers, agreed, known, open, replies>>
vars       == <<socketVars, queueVars, wsVars, clientVars, hostVars>>

Ids == 1..MaxRequests

\* What a recv() promise settles with.
Idle     == [is |-> "idle", frame |-> 0]
Waiting  == [is |-> "waiting", frame |-> 0]
Eof      == [is |-> "null", frame |-> 0]
Rejected == [is |-> "error", frame |-> 0]
Frame(n) == [is |-> "frame", frame |-> n]

Init ==
    /\ readyState = "none" /\ sent = <<>> /\ arrived = 0
    /\ inbox = <<>> /\ waiters = <<>> /\ got = [r \in Readers |-> Idle]
    /\ taken = <<>> /\ ended = "no"
    /\ error = None /\ closed = FALSE /\ closeInfo = None
    /\ status = "idle" /\ pending = {} /\ nextRequestId = 1 /\ serving = {}
    /\ settled = [id \in Ids |-> "no"] /\ events = <<>>
    /\ asked = {} /\ answers = [id \in Ids |-> "no"] /\ agreed = None /\ known = {}
    /\ open = {} /\ replies = {}

-----------------------------------------------------------------------------
(* Opening.                                                                *)

\* The socket of WebSocketTransport.connect; without a constructor, or when
\* it throws, connect() rejects and nothing is left behind.
Connect ==
    /\ readyState = "none"
    /\ readyState' \in {"CONNECTING", "CLOSED"}
    /\ UNCHANGED <<sent, arrived, queueVars, wsVars, clientVars, hostVars>>

\* onOpen builds the transport, so its listeners are there before the first
\* message; the application starts the client on it.
OnOpen ==
    /\ readyState = "CONNECTING" /\ readyState' = "OPEN"
    /\ status' = "connected"
    /\ UNCHANGED <<sent, arrived, queueVars, wsVars, pending, nextRequestId, serving, settled, events,
                   hostVars>>

\* onErrorBeforeOpen and onCloseBeforeOpen: connect() rejects.
FailedToOpen ==
    /\ readyState = "CONNECTING" /\ readyState' = "CLOSED"
    /\ UNCHANGED <<sent, arrived, queueVars, wsVars, clientVars, hostVars>>

\* A socket of the application's own; one that is not OPEN is refused.
fromSocket(state) ==
    /\ readyState = "none"
    /\ readyState' = IF state = "OPEN" THEN "OPEN" ELSE "CLOSED"
    /\ status' = IF state = "OPEN" THEN "connected" ELSE status
    /\ UNCHANGED <<sent, arrived, queueVars, wsVars, pending, nextRequestId, serving, settled, events,
                   hostVars>>

-----------------------------------------------------------------------------
(* The transport.                                                          *)

Ended(how) == ended' = IF ended = "no" THEN how ELSE ended

deliver(n) ==
    IF waiters # <<>>
    THEN /\ waiters' = Tail(waiters)
         /\ got' = [got EXCEPT ![Head(waiters)] = Frame(n)]
         /\ taken' = Append(taken, n)
         /\ UNCHANGED <<inbox, ended>>
    ELSE /\ inbox' = Append(inbox, n)
         /\ UNCHANGED <<waiters, got, taken, ended>>

Drain(outcome) ==
    /\ waiters' = <<>>
    /\ got' = [r \in Readers |-> IF r \in ToSet(waiters) THEN outcome ELSE got[r]]
    /\ IF waiters # <<>> THEN Ended(outcome.is) ELSE UNCHANGED ended
    /\ UNCHANGED <<inbox, taken>>

drainWithError == Drain(Rejected)

\* Faulty: settles the head of the queue only.
FaultyDrainWithNull ==
    /\ waiters' = IF waiters = <<>> THEN <<>> ELSE Tail(waiters)
    /\ got' = IF waiters = <<>> THEN got ELSE [got EXCEPT ![Head(waiters)] = Eof]
    /\ IF waiters # <<>> THEN Ended("null") ELSE UNCHANGED ended
    /\ UNCHANGED <<inbox, taken>>

drainWithNull == Drain(Eof)

\* Faulty: asks whether the socket is closed before it looks into the inbox.
FaultyRecv(r) ==
    /\ status # "idle" /\ got[r].is # "waiting"
    /\ r = Loop => got[r] = Idle /\ status = "connected"
    /\ IF error # None
       THEN /\ got' = [got EXCEPT ![r] = Rejected] /\ Ended("error")
            /\ UNCHANGED <<inbox, waiters, taken>>
       ELSE IF closed
       THEN /\ got' = [got EXCEPT ![r] = Eof] /\ Ended("null")
            /\ UNCHANGED <<inbox, waiters, taken>>
       ELSE IF inbox # <<>>
       THEN /\ got' = [got EXCEPT ![r] = Frame(Head(inbox))]
            /\ taken' = Append(taken, Head(inbox)) /\ inbox' = Tail(inbox)
            /\ UNCHANGED <<waiters, ended>>
       ELSE /\ got' = [got EXCEPT ![r] = Waiting] /\ waiters' = Append(waiters, r)
            /\ UNCHANGED <<inbox, taken, ended>>
    /\ UNCHANGED <<socketVars, wsVars, clientVars, hostVars>>

\* A reader calls recv(); the receive loop does when it has handled the frame
\* before, and only while it finds the client connected.
recv(r) ==
    /\ status # "idle" /\ got[r].is # "waiting"
    /\ r = Loop => got[r] = Idle /\ status = "connected"
    /\ CASE error # None ->
                /\ got' = [got EXCEPT ![r] = Rejected] /\ Ended("error")
                /\ UNCHANGED <<inbox, waiters, taken>>
         [] error = None /\ inbox # <<>> ->
                /\ got' = [got EXCEPT ![r] = Frame(Head(inbox))]
                /\ taken' = Append(taken, Head(inbox)) /\ inbox' = Tail(inbox)
                /\ UNCHANGED <<waiters, ended>>
         [] error = None /\ inbox = <<>> /\ closed ->
                /\ got' = [got EXCEPT ![r] = Eof] /\ Ended("null")
                /\ UNCHANGED <<inbox, waiters, taken>>
         [] OTHER ->
                /\ got' = [got EXCEPT ![r] = Waiting] /\ waiters' = Append(waiters, r)
                /\ UNCHANGED <<inbox, taken, ended>>
    /\ UNCHANGED <<socketVars, wsVars, clientVars, hostVars>>

\* The socket's message event; a closing socket fires none.
OnMessage ==
    /\ readyState = "OPEN" /\ arrived < Len(sent)
    /\ arrived' = arrived + 1
    /\ IF sent[arrived + 1].is = "unsupported"
       THEN error' = "protocol" /\ drainWithError
       ELSE deliver(arrived + 1) /\ UNCHANGED error
    /\ UNCHANGED <<readyState, sent, closed, closeInfo, clientVars, hostVars>>

\* The socket's error event; its close event follows.
OnError ==
    /\ readyState \in {"OPEN", "CLOSING"} /\ readyState' = "CLOSED"
    /\ error' = "io" /\ drainWithError
    /\ UNCHANGED <<sent, arrived, closed, closeInfo, clientVars, hostVars>>

\* The socket's close event, at most one.  A clean one closes the stream
\* after every frame unless this side closed; an abnormal one cuts it off.
OnClose(wasClean) ==
    /\ status # "idle" /\ ~closed /\ readyState # "none"
    /\ wasClean => \/ readyState = "CLOSING"
                   \/ readyState = "OPEN" /\ arrived = Len(sent)
    /\ readyState' = "CLOSED" /\ closed' = TRUE
    /\ closeInfo' = IF wasClean THEN "clean" ELSE "abnormal"
    /\ IF wasClean THEN drainWithNull /\ UNCHANGED error
                   ELSE error' = "closed" /\ drainWithError
    /\ UNCHANGED <<sent, arrived, clientVars, hostVars>>

\* WebSocketTransport.send: throws once closed or failed, and when the socket
\* does.
SendThrows == IF closed \/ error # None THEN {TRUE} ELSE BOOLEAN

\* WebSocketTransport.close.
close == readyState' = IF readyState \in {"OPEN", "CONNECTING"} THEN "CLOSING" ELSE readyState

-----------------------------------------------------------------------------
(* The client.                                                             *)

\* Every pending request is rejected, with what is left of the others.
tearDown(left) ==
    /\ status' = "closed" /\ pending' = {}
    /\ settled' = [id \in Ids |-> IF id \in left THEN "failed" ELSE settled[id]]

\* A message sent to the host; a closing socket discards it.
Arrives == readyState = "OPEN"

\* The client's first request, with the versions it offers.
Initialize(offer) ==
    [method |-> "initialize",
     params |-> [channel |-> RootChannel, protocolVersions |-> offer, clientId |-> Sample(Clients),
                 clientInfo |-> None, initialSubscriptions |-> None, locale |-> None,
                 capabilities |-> None]]

request(ask) ==
    /\ status = "connected" /\ nextRequestId \in Ids
    /\ ask.method = "initialize" <=> nextRequestId = 1
    /\ nextRequestId' = nextRequestId + 1
    /\ LET id == nextRequestId
       IN  \E throws \in SendThrows :
              IF throws
              THEN tearDown(pending \cup {id}) /\ UNCHANGED asked
              ELSE /\ pending' = pending \cup {id}
                   /\ asked' = IF Arrives THEN asked \cup {Request(id, ask)} ELSE asked
                   /\ UNCHANGED <<status, settled>>
    /\ UNCHANGED <<socketVars, queueVars, wsVars, serving, events, answers, agreed, known, open,
                   replies>>

Settle(id, how) ==
    /\ pending' = pending \ {id}
    /\ settled' = IF id \in pending THEN [settled EXCEPT ![id] = how] ELSE settled

\* The notifications that become events; the others are dropped.
FannedOut ==
    {"action", "root/sessionAdded", "root/sessionRemoved", "root/sessionSummaryChanged", "auth/required"}

\* A closed stream takes no more events.
handleNotification(n) ==
    /\ events' = IF sent[n].message.method \in FannedOut /\ status = "connected"
                 THEN Append(events, n) ELSE events
    /\ UNCHANGED <<pending, settled, serving>>

\* handleServerRequest: an installed handler runs on, see Reply; without one
\* the answer is MethodNotFound, also through Reply.
handleServerRequest(message) ==
    /\ serving' = serving \cup {message.id}
    /\ UNCHANGED <<pending, settled, events>>

\* Faulty: takes every message with an id for a response.
FaultyDispatchInbound(n) ==
    LET message == sent[n].message
    IN  IF "id" \in DOMAIN message
        THEN /\ Settle(message.id, IF "error" \in DOMAIN message THEN "error" ELSE "result")
             /\ UNCHANGED <<serving, events>>
        ELSE handleNotification(n)

dispatchInbound(n) ==
    LET message == sent[n].message
        Has(field) == field \in DOMAIN message
    IN  CASE Has("id") /\ Has("result") ->
                Settle(message.id, "result") /\ UNCHANGED <<serving, events>>
          [] Has("id") /\ ~Has("result") /\ Has("error") ->
                Settle(message.id, "error") /\ UNCHANGED <<serving, events>>
          [] Has("id") /\ ~Has("result") /\ ~Has("error") /\ Has("method") ->
                handleServerRequest(message)
          [] ~Has("id") /\ Has("method") -> handleNotification(n)
          [] OTHER -> UNCHANGED <<pending, settled, serving, events>>

\* driveTransport goes on with what recv() gave it: a frame is decoded and
\* dispatched (handleFrame), one that is no JSON is skipped, and JSON that is
\* no object throws out of the loop.
driveTransport ==
    /\ got[Loop].is \in {"frame", "null", "error"}
    /\ LET n == got[Loop].frame
           is == IF n = 0 THEN "end" ELSE sent[n].is
       IN  CASE is = "message" ->
                    dispatchInbound(n) /\ got' = [got EXCEPT ![Loop] = Idle] /\ UNCHANGED status
             [] is = "malformed" ->
                    /\ got' = [got EXCEPT ![Loop] = Idle]
                    /\ UNCHANGED <<status, pending, settled, serving, events>>
             [] OTHER ->
                    /\ tearDown(pending) /\ got' = [got EXCEPT ![Loop] = Idle]
                    /\ UNCHANGED <<serving, events>>
    /\ UNCHANGED <<socketVars, inbox, waiters, taken, ended, wsVars, nextRequestId, hostVars>>

ErrorResponse(id, code) ==
    [jsonrpc |-> "2.0", id |-> id, error |-> [code |-> code, message |-> Sample(Texts), data |-> None]]

\* A handler ends, or none is installed: its outcome is sent under the
\* request's id.
Reply(id) ==
    /\ id \in serving /\ serving' = serving \ {id}
    /\ \E throws \in SendThrows,
          message \in {[jsonrpc |-> "2.0", id |-> id, result |-> None],
                       ErrorResponse(id, JsonRpcErrorCodes.InternalError),
                       ErrorResponse(id, JsonRpcErrorCodes.MethodNotFound)} :
          IF throws
          THEN tearDown(pending) /\ UNCHANGED replies
          ELSE /\ replies' = IF Arrives THEN replies \cup {message} ELSE replies
               /\ UNCHANGED <<status, pending, settled>>
    /\ UNCHANGED <<socketVars, queueVars, wsVars, nextRequestId, events, asked, answers, agreed, known, open>>

shutdown ==
    /\ status = "connected"
    /\ tearDown(pending) /\ close
    /\ UNCHANGED <<sent, arrived, queueVars, wsVars, nextRequestId, serving, events, hostVars>>

-----------------------------------------------------------------------------
(* The host.                                                               *)

\* What is sent to a socket that no longer is OPEN never arrives.
Send(is, message) ==
    /\ readyState = "OPEN" /\ Len(sent) < MaxFrames
    /\ sent' = Append(sent, [is |-> is, message |-> message])
    /\ UNCHANGED <<readyState, arrived, queueVars, wsVars, clientVars>>

Answer(id, result) == [jsonrpc |-> "2.0", id |-> id, result |-> result]
Refusal(id, code, data) ==
    [jsonrpc |-> "2.0", id |-> id, error |-> [code |-> code, message |-> Sample(Texts), data |-> data]]

\* Only what the agreed version knows is sent to it.
Knows(version, news) ==
    IF news.method = "action" THEN isActionKnownToVersion(news.params.action, version)
    ELSE isNotificationKnownToVersion(news.method, version)

\* What the host answers an initialize: a version, UnsupportedProtocolVersion
\* with its own, or InternalError when negotiateProtocolVersion throws.
Negotiate(ask) ==
    LET outcome == negotiateProtocolVersion(ask.params.protocolVersions) IN
    /\ ask \in asked /\ ask.method = "initialize"
    /\ asked' = asked \ {ask}
    /\ agreed' = outcome.version
    /\ known' = {news \in News : outcome.version # None /\ Knows(outcome.version, news)}
    /\ IF outcome.version # None
       THEN /\ answers' = [answers EXCEPT ![ask.id] = "result"]
            /\ Send("message",
                    Answer(ask.id, [protocolVersion |-> outcome.version, serverSeq |-> 0,
                                    serverInfo |-> None, snapshots |-> <<>>, defaultDirectory |-> None,
                                    completionTriggerCharacters |-> None, terminalCommandPrefix |-> None,
                                    telemetry |-> None, automations |-> None, tcpConnections |-> None,
                                    multipleChatProviders |-> None]))
       ELSE /\ answers' = [answers EXCEPT ![ask.id] = "error"]
            /\ Send("message",
                    IF outcome.throws THEN Refusal(ask.id, JsonRpcErrorCodes.InternalError, None)
                    ELSE Refusal(ask.id, AhpErrorCodes.UnsupportedProtocolVersion,
                                 [supportedVersions |-> SUPPORTED_PROTOCOL_VERSIONS]))
    /\ UNCHANGED <<open, replies>>

\* Any other request, with its result or an error.
Respond(ask) ==
    /\ ask \in asked /\ ask.method # "initialize"
    /\ asked' = asked \ {ask}
    /\ \/ /\ answers' = [answers EXCEPT ![ask.id] = "result"]
          /\ Send("message", Answer(ask.id, Sample(CommandMap[ask.method].result)))
       \/ /\ answers' = [answers EXCEPT ![ask.id] = "error"]
          /\ Send("message", Refusal(ask.id, JsonRpcErrorCodes.InternalError, None))
    /\ UNCHANGED <<agreed, known, open, replies>>

\* A request of the host's own; both sides count their ids from 1.
ServerRequest(id, ask) ==
    /\ agreed # None /\ id \notin open \cup {reply.id : reply \in replies}
    /\ open' = open \cup {id}
    /\ Send("message", Request(id, ask))
    /\ UNCHANGED <<asked, answers, agreed, known, replies>>

Notify(news) ==
    /\ news \in known
    /\ Send("message", news)
    /\ UNCHANGED hostVars

\* A frame that is no message: text that is no JSON, JSON that is no object,
\* or a payload that is neither text nor bytes.
Garbage(is) == Send(is, None) /\ UNCHANGED hostVars

Next ==
    \/ Connect \/ OnOpen \/ FailedToOpen
    \/ \E state \in {"CONNECTING", "OPEN", "CLOSING", "CLOSED"} : fromSocket(state)
    \/ \E r \in Readers : recv(r)
    \/ OnMessage \/ OnError
    \/ \E wasClean \in BOOLEAN : OnClose(wasClean)
    \/ \E offer \in Offers : request(Initialize(offer))
    \/ \E ask \in Asks : request(ask)
    \/ driveTransport \/ shutdown
    \/ \E id \in Ids : Reply(id) \/ \E ask \in ServerAsks : ServerRequest(id, ask)
    \/ \E ask \in asked : Negotiate(ask) \/ Respond(ask)
    \/ \E news \in News : Notify(news)
    \/ \E is \in {"malformed", "notObject", "unsupported"} : Garbage(is)

\* Promise continuations run: the receive loop goes on once recv() settled
\* and calls it again.  Nothing is assumed of the socket, the host or the
\* application.
Spec == Init /\ [][Next]_vars /\ WF_vars(recv(Loop)) /\ WF_vars(driveTransport)

-----------------------------------------------------------------------------
(* Properties.                                                             *)

\* recv() keeps the promise of AhpTransport: the frames handed out and the
\* ones still buffered are what arrived, in order and without a gap; null is
\* said only after a clean close and the last frame; and no caller is left
\* waiting on a transport that has closed or failed.
TransportContract ==
    LET deliverable == SelectSeq([k \in 1..arrived |-> k], LAMBDA k : sent[k].is # "unsupported")
    IN  /\ taken \o inbox = deliverable
        /\ ended = "null" => closeInfo = "clean" /\ inbox = <<>>
        /\ closed \/ error # None => waiters = <<>>
        /\ waiters # <<>> => inbox = <<>>

\* dispatchInbound takes each message for what its sender meant, although both
\* sides number their requests from 1: a client request settles as the host
\* answered that very request, the client serves and answers only what the
\* host asked, and each event is a notification, in the order of the wire.
RoutedAsMeant ==
    /\ \A id \in Ids : settled[id] \in {"result", "error"} => settled[id] = answers[id]
    /\ serving \cup {reply.id : reply \in replies} \subseteq open
    /\ \A k \in DOMAIN events :
          /\ sent[events[k]].message \in News
          /\ \A j \in 1..(k - 1) : events[j] < events[k]

\* The interval of versions a baseline stands for, as in a caret range.
InCaretRange(version, baseline) ==
    LET Weight(v) == 10000 * v[1] + 100 * v[2] + v[3]
        limit == IF baseline[1] > 0 THEN <<baseline[1] + 1, 0, 0>> ELSE <<0, baseline[2] + 1, 0>>
    IN  Weight(version) >= Weight(baseline) /\ Weight(version) < Weight(limit)

\* negotiateProtocolVersion settles on the highest offered version within the
\* caret range of a supported one, and on none only if there is no such offer
\* or one of the offered strings is not a version.
NegotiationIsBest ==
    [][\A ask \in asked :
         ask.method = "initialize" /\ ask \notin asked' =>
            LET offer    == ToSet(ask.params.protocolVersions)
                eligible == {v \in offer \ {None} :
                               \E b \in ToSet(SUPPORTED_PROTOCOL_VERSIONS) : InCaretRange(v, b)}
            IN  IF None \in offer \/ eligible = {} THEN agreed' = None
                ELSE /\ agreed' \in eligible
                     /\ \A v \in eligible : InCaretRange(agreed', v) \/ v[1] < agreed'[1]]_vars

\* Once the socket has closed the receive loop finds out, whichever recv()
\* calls were queued before its own: the client closes and every request of
\* its callers has settled.
ClosedIsNoticed == closed ~> (status = "closed" /\ pending = {})

=============================================================================
