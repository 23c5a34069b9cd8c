------------------------ MODULE ManagedSubscriptions ------------------------
(***************************************************************************)
(* ManagedSubscriptionManager of                                            *)
(* clients/typescript/src/client/managed-subscriptions.ts: one wire         *)
(* subscription per URI, shared by counted leases, on top of one AhpClient. *)
(*                                                                          *)
(* Every entry the manager ever makes keeps its state here, because leases, *)
(* an unanswered subscribe() and a pump may outlive its place in the map.   *)
(* Of the AhpClient the model keeps what the manager depends on: a queue    *)
(* per URI that unsubscribe() closes, requests that time out, and its end.  *)
(* The server is external: wires are first-in first-out, it may refuse a    *)
(* subscription, and it may leave a request unanswered for ever.            *)
(***************************************************************************)
EXTENDS Integers, Sequences, FiniteSets, SequencesExt, Subsequence

CONSTANTS
    Uris,        \* channels
    Options,     \* values of subscriptionOptionsKey
    MaxEntries,  \* bound: entries made
    MaxLeases,   \* bound: leases granted
    MaxEvents    \* bound: events per channel

ASSUME BoundAssumption == {MaxEntries, MaxLeases, MaxEvents} \subseteq Nat
ASSUME SetAssumption == Uris # {} /\ Options # {}

EntryIds == 1..MaxEntries
None     == 0

\* ManagedSubscriptionStatus; "unused" is an entry not made yet.
ManagedSubscriptionStatus == {"pending", "active", "failed", "closed"}

VARIABLES
    entries,    \* per URI: the entry in the map, or None
    entry,      \* per entry: Entry and its ManagedSubscriptionState
    start,      \* per entry: where its start() call is
    pump,       \* per entry: "none", "running", "done"
    lastEntry, lastHolder, closed,
    joined,     \* per lease: events its entry had published when it was made
    clientOpen, \* the AhpClient is open
    readers,    \* AhpClient: per URI, the entries that read its queue
    inbox,      \* AhpClient: per entry, the events its Subscription holds
    toServer, toClient,
    srvSubs,    \* server: subscribed URIs
    log         \* server: number of events per channel

managerVars == <<entries, entry, start, pump, lastEntry, lastHolder, joined, closed>>
clientVars  == <<clientOpen, readers, inbox>>
serverVars  == <<srvSubs, log>>
vars == <<managerVars, clientVars, toServer, toClient, serverVars>>

\* Entry: the holders, the state of its event queue and what was published to
\* it, and the fields of its ManagedSubscriptionState.
Entry == [uri : Uris, options : Options, holders : SUBSET (1..MaxLeases),
          status : ManagedSubscriptionStatus \cup {"unused"},
          result : Int, open : BOOLEAN, got : Seq(1..MaxEvents)]

NewEntry(u, o, l) == [uri |-> u, options |-> o, holders |-> {l},
                      status |-> "pending", result |-> -1, open |-> TRUE, got |-> <<>>]

Unmade == [NewEntry(CHOOSE u \in Uris : TRUE, CHOOSE o \in Options : TRUE, 0)
             EXCEPT !.holders = {}, !.status = "unused", !.open = FALSE]

Init ==
    /\ entries = [u \in Uris |-> None]
    /\ entry = [e \in EntryIds |-> Unmade]
    /\ start = [e \in EntryIds |-> "none"]
    /\ pump = [e \in EntryIds |-> "none"]
    /\ lastEntry = 0 /\ lastHolder = 0 /\ closed = FALSE
    /\ joined = [l \in 1..MaxLeases |-> 0]
    /\ clientOpen = TRUE
    /\ readers = [u \in Uris |-> {}]
    /\ inbox = [e \in EntryIds |-> <<>>]
    /\ toServer = <<>> /\ toClient = <<>>
    /\ srvSubs = {} /\ log = [u \in Uris |-> 0]

Current(e) == entries[entry[e].uri] = e

-----------------------------------------------------------------------------
(* ManagedSubscriptionState.                                               *)

Activate(s, result) ==
    IF s.status # "pending" THEN s ELSE [s EXCEPT !.status = "active", !.result = result]

Fail(s) == IF s.status # "pending" THEN s ELSE [s EXCEPT !.status = "failed"]

CloseState(s) ==
    IF s.status \in {"failed", "closed"} THEN s ELSE [s EXCEPT !.status = "closed"]

\* The entry after its state and its event queue are closed.
Ended(s) == [CloseState(s) EXCEPT !.open = FALSE]

-----------------------------------------------------------------------------
(* The AhpClient as the manager uses it.                                   *)

Msg(m, u, e) == [m |-> m, uri |-> u, e |-> e]

\* Faulty: notifies the server and leaves the local queue in place.
FaultyUnsubscribe(us) ==
    IF clientOpen
    THEN /\ toServer' = toServer \o
                SetToSeq({Msg("unsubscribe", u, None) : u \in us})
         /\ UNCHANGED readers
    ELSE UNCHANGED <<readers, toServer>>

\* client.unsubscribe(uri) for each of the URIs: drops the queue, so that its
\* readers end, and notifies the server.  No-op on a closed client.
Unsubscribe(us) ==
    IF clientOpen
    THEN /\ readers' = [u \in Uris |-> IF u \in us THEN {} ELSE readers[u]]
         /\ toServer' = toServer \o
                SetToSeq({Msg("unsubscribe", u, None) : u \in us})
    ELSE UNCHANGED <<readers, toServer>>

-----------------------------------------------------------------------------
(* The manager.                                                            *)

\* acquire(uri, owner, options) of a URI without entry: makes the entry and its
\* lease, and start() runs up to the await in client.subscribe(): the queue is
\* attached and the request sent.  A closed client rejects at once.
AcquireFirst(u, o) ==
    /\ ~closed /\ entries[u] = None
    /\ lastEntry < MaxEntries /\ lastHolder < MaxLeases
    /\ LET e == lastEntry + 1 IN
       /\ lastEntry' = e /\ lastHolder' = lastHolder + 1
       /\ joined' = [joined EXCEPT ![lastHolder + 1] = 0]
       /\ entry' = [entry EXCEPT ![e] = NewEntry(u, o, lastHolder + 1)]
       /\ entries' = [entries EXCEPT ![u] = e]
       /\ IF clientOpen
          THEN /\ start' = [start EXCEPT ![e] = "waiting"]
               /\ readers' = [readers EXCEPT ![u] = @ \cup {e}]
               /\ toServer' = Append(toServer, Msg("subscribe", u, e))
          ELSE /\ start' = [start EXCEPT ![e] = "rejected"]
               /\ UNCHANGED <<readers, toServer>>
    /\ UNCHANGED <<pump, closed, clientOpen, inbox, toClient, serverVars>>

\* acquire(uri, owner, options) of a URI with an entry: shares it and the result
\* of its subscribe request, but the reader of the lease (createLease) starts at
\* the end of what the entry has published.  Options that differ from the
\* entry's are refused with a TypeError.
AcquireShared(u, o) ==
    /\ ~closed /\ entries[u] # None
    /\ entry[entries[u]].options = o
    /\ lastHolder < MaxLeases
    /\ lastHolder' = lastHolder + 1
    /\ joined' = [joined EXCEPT ![lastHolder + 1] = Len(entry[entries[u]].got)]
    /\ entry' = [entry EXCEPT ![entries[u]].holders = @ \cup {lastHolder + 1}]
    /\ UNCHANGED <<entries, start, pump, lastEntry, closed, clientVars,
                   toServer, toClient, serverVars>>

\* disposeEntry() of the entries es, which have left the map.  Closing the
\* source drops what its reader holds; that is one microtask later, and what
\* the pump could publish in between goes to a closed queue.
DisposeEntries(es) ==
    /\ entry' = [e \in EntryIds |-> IF e \in es THEN Ended(entry[e]) ELSE entry[e]]
    /\ Unsubscribe({entry[e].uri : e \in es})
    /\ inbox' = [e \in EntryIds |-> IF e \in es /\ pump[e] = "running" THEN <<>> ELSE inbox[e]]

\* A lease is disposed of and another holder is left, or its entry is already
\* out of the map.  Disposing of it again does nothing.
ReleaseShared(e, l) ==
    /\ l \in entry[e].holders
    /\ entry[e].holders # {l} \/ ~Current(e)
    /\ entry' = [entry EXCEPT ![e].holders = @ \ {l}]
    /\ UNCHANGED <<entries, start, pump, lastEntry, lastHolder, joined, closed,
                   clientVars, toServer, toClient, serverVars>>

\* The last lease of an entry of the map is disposed of.
ReleaseLast(e, l) ==
    /\ entry[e].holders = {l} /\ Current(e)
    /\ entries' = [entries EXCEPT ![entry[e].uri] = None]
    /\ Unsubscribe({entry[e].uri})
    /\ entry' = [entry EXCEPT ![e] = [Ended(@) EXCEPT !.holders = {}]]
    /\ inbox' = [inbox EXCEPT ![e] = IF pump[e] = "running" THEN <<>> ELSE @]
    /\ UNCHANGED <<start, pump, lastEntry, lastHolder, joined, closed, clientOpen,
                   toClient, serverVars>>

\* close(): empties the map and disposes of every entry it held.
Close ==
    /\ ~closed
    /\ closed' = TRUE
    /\ entries' = [u \in Uris |-> None]
    /\ DisposeEntries({e \in 1..lastEntry : Current(e)})
    /\ UNCHANGED <<start, pump, lastEntry, lastHolder, joined, clientOpen, toClient, serverVars>>

-----------------------------------------------------------------------------
(* start() after its await: the subscribe was answered or rejected.        *)

\* Faulty: does not look whether the entry is still the one in the map.
FaultyStartActivates(e) ==
    /\ start[e] = "answered"
    /\ start' = [start EXCEPT ![e] = "done"]
    /\ entry' = [entry EXCEPT ![e] = [@ EXCEPT !.status = "active"]]
    /\ pump' = [pump EXCEPT ![e] = "running"]
    /\ UNCHANGED <<entries, lastEntry, lastHolder, joined, closed, clientVars,
                   toServer, toClient, serverVars>>

StartActivates(e) ==
    /\ start[e] = "answered" /\ Current(e)
    /\ start' = [start EXCEPT ![e] = "done"]
    /\ entry' = [entry EXCEPT ![e] = Activate(@, @.result)]
    /\ pump' = [pump EXCEPT ![e] = "running"]
    /\ UNCHANGED <<entries, lastEntry, lastHolder, joined, closed, clientVars,
                   toServer, toClient, serverVars>>

\* The entry has left the map meanwhile: only the Subscription is closed.
StartDiscards(e) ==
    /\ start[e] = "answered" /\ ~Current(e)
    /\ start' = [start EXCEPT ![e] = "done"]
    /\ readers' = [readers EXCEPT ![entry[e].uri] = @ \ {e}]
    /\ inbox' = [inbox EXCEPT ![e] = <<>>]
    /\ UNCHANGED <<entries, entry, pump, lastEntry, lastHolder, joined, closed,
                   clientOpen, toServer, toClient, serverVars>>

\* Faulty: does not unsubscribe, as if a failed request never reached the server.
FaultyStartForgets(e) ==
    /\ start[e] = "rejected" /\ Current(e)
    /\ start' = [start EXCEPT ![e] = "done"]
    /\ entries' = [entries EXCEPT ![entry[e].uri] = None]
    /\ entry' = [entry EXCEPT ![e] = [Fail(@) EXCEPT !.open = FALSE]]
    /\ inbox' = [inbox EXCEPT ![e] = <<>>]
    /\ UNCHANGED <<pump, lastEntry, lastHolder, joined, closed, clientOpen, readers,
                   toServer, toClient, serverVars>>

\* The request failed while the entry was in the map: the entry fails and
\* leaves it, and the server is told, in case it took the subscription.
StartFails(e) ==
    /\ start[e] = "rejected" /\ Current(e)
    /\ start' = [start EXCEPT ![e] = "done"]
    /\ entries' = [entries EXCEPT ![entry[e].uri] = None]
    /\ entry' = [entry EXCEPT ![e] = [Fail(@) EXCEPT !.open = FALSE]]
    /\ Unsubscribe({entry[e].uri})
    /\ inbox' = [inbox EXCEPT ![e] = <<>>]
    /\ UNCHANGED <<pump, lastEntry, lastHolder, joined, closed, clientOpen, toClient, serverVars>>

StartIgnored(e) ==
    /\ start[e] = "rejected" /\ ~Current(e)
    /\ start' = [start EXCEPT ![e] = "done"]
    /\ readers' = [readers EXCEPT ![entry[e].uri] = @ \ {e}]
    /\ inbox' = [inbox EXCEPT ![e] = <<>>]
    /\ UNCHANGED <<entries, entry, pump, lastEntry, lastHolder, joined, closed,
                   clientOpen, toServer, toClient, serverVars>>

-----------------------------------------------------------------------------
(* pump()                                                                  *)

\* One event of the Subscription goes to every lease; a closed queue drops it.
PumpPublishes(e) ==
    /\ pump[e] = "running" /\ inbox[e] # <<>>
    /\ entry' = [entry EXCEPT ![e].got = IF entry[e].open THEN Append(@, Head(inbox[e])) ELSE @]
    /\ inbox' = [inbox EXCEPT ![e] = Tail(@)]
    /\ UNCHANGED <<entries, start, pump, lastEntry, lastHolder, joined, closed, clientOpen,
                   readers, toServer, toClient, serverVars>>

\* The Subscription has ended.  An entry still in the map leaves it.
PumpEnds(e) ==
    /\ pump[e] = "running" /\ inbox[e] = <<>> /\ e \notin readers[entry[e].uri]
    /\ pump' = [pump EXCEPT ![e] = "done"]
    /\ IF Current(e)
       THEN /\ entries' = [entries EXCEPT ![entry[e].uri] = None]
            /\ entry' = [entry EXCEPT ![e] = Ended(@)]
       ELSE UNCHANGED <<entries, entry>>
    /\ UNCHANGED <<start, lastEntry, lastHolder, joined, closed, clientVars,
                   toServer, toClient, serverVars>>

-----------------------------------------------------------------------------
(* The client receives, times out or ends.                                 *)

ReceiveEvent ==
    /\ toClient # <<>> /\ Head(toClient).m = "event"
    /\ toClient' = Tail(toClient)
    /\ inbox' = [e \in EntryIds |-> IF e \in readers[Head(toClient).uri]
                                    THEN Append(inbox[e], Head(toClient).n) ELSE inbox[e]]
    /\ UNCHANGED <<managerVars, clientOpen, readers, toServer, serverVars>>

\* Faulty: an answer is taken for the entry the map holds now.
FaultyReceiveAnswer ==
    /\ toClient # <<>> /\ Head(toClient).m \in {"result", "error"}
    /\ toClient' = Tail(toClient)
    /\ LET e == IF entries[Head(toClient).uri] = None THEN Head(toClient).e
                ELSE entries[Head(toClient).uri] IN
       IF start[e] = "waiting"
       THEN /\ start' = [start EXCEPT ![e] = IF Head(toClient).m = "result" THEN "answered" ELSE "rejected"]
            /\ entry' = [entry EXCEPT ![e].result = Head(toClient).n]
       ELSE UNCHANGED <<start, entry>>
    /\ UNCHANGED <<entries, pump, lastEntry, lastHolder, joined, closed, clientVars, toServer, serverVars>>

\* The answer of a subscribe request.  One that comes after the timeout has no
\* pending request and is dropped.
ReceiveAnswer ==
    /\ toClient # <<>> /\ Head(toClient).m \in {"result", "error"}
    /\ toClient' = Tail(toClient)
    /\ LET e == Head(toClient).e IN
       IF start[e] = "waiting"
       THEN /\ start' = [start EXCEPT ![e] = IF Head(toClient).m = "result" THEN "answered" ELSE "rejected"]
            /\ entry' = [entry EXCEPT ![e].result = Head(toClient).n]
       ELSE UNCHANGED <<start, entry>>
    /\ UNCHANGED <<entries, pump, lastEntry, lastHolder, joined, closed, clientVars, toServer, serverVars>>

RequestTimesOut(e) ==
    /\ start[e] = "waiting"
    /\ start' = [start EXCEPT ![e] = "rejected"]
    /\ UNCHANGED <<entries, entry, pump, lastEntry, lastHolder, joined, closed, clientVars,
                   toServer, toClient, serverVars>>

\* The client is shut down or its connection ends: requests fail, queues close.
ClientEnds ==
    /\ clientOpen
    /\ clientOpen' = FALSE
    /\ readers' = [u \in Uris |-> {}]
    /\ start' = [e \in EntryIds |-> IF start[e] = "waiting" THEN "rejected" ELSE start[e]]
    /\ toServer' = <<>> /\ toClient' = <<>> /\ srvSubs' = {}
    /\ UNCHANGED <<entries, entry, pump, lastEntry, lastHolder, joined, closed, inbox, log>>

-----------------------------------------------------------------------------
(* The server.                                                             *)

\* The snapshot in the result covers the first n events of the channel.
ServerAnswers(ok) ==
    /\ toServer # <<>> /\ Head(toServer).m = "subscribe"
    /\ LET msg == Head(toServer) IN
       /\ srvSubs' = IF ok THEN srvSubs \cup {msg.uri} ELSE srvSubs
       /\ toClient' = Append(toClient, [m |-> IF ok THEN "result" ELSE "error",
                                        uri |-> msg.uri, e |-> msg.e, n |-> log[msg.uri]])
    /\ toServer' = Tail(toServer)
    /\ UNCHANGED <<managerVars, clientVars, log>>

ServerUnsubscribes ==
    /\ toServer # <<>> /\ Head(toServer).m = "unsubscribe"
    /\ toServer' = Tail(toServer)
    /\ srvSubs' = srvSubs \ {Head(toServer).uri}
    /\ UNCHANGED <<managerVars, clientVars, toClient, log>>

ServerPublishes(u) ==
    /\ log[u] < MaxEvents
    /\ log' = [log EXCEPT ![u] = @ + 1]
    /\ toClient' = IF u \in srvSubs
                   THEN Append(toClient, [m |-> "event", uri |-> u, e |-> None, n |-> log[u] + 1])
                   ELSE toClient
    /\ UNCHANGED <<managerVars, clientVars, toServer, srvSubs>>

-----------------------------------------------------------------------------

Next ==
    \/ \E u \in Uris, o \in Options : AcquireFirst(u, o) \/ AcquireShared(u, o)
    \/ \E e \in EntryIds, l \in 1..MaxLeases : ReleaseShared(e, l) \/ ReleaseLast(e, l)
    \/ Close
    \/ \E e \in EntryIds : StartActivates(e) \/ StartDiscards(e) \/ StartFails(e) \/ StartIgnored(e)
    \/ \E e \in EntryIds : PumpPublishes(e) \/ PumpEnds(e) \/ RequestTimesOut(e)
    \/ ReceiveEvent \/ ReceiveAnswer \/ ClientEnds
    \/ \E ok \in BOOLEAN : ServerAnswers(ok)
    \/ ServerUnsubscribes
    \/ \E u \in Uris : ServerPublishes(u)

\* Continuations of settled promises run, and the timer of a request fires.
\* Nothing is assumed of the server or of the holders.
Fairness ==
    /\ \A e \in EntryIds :
          /\ WF_vars(StartActivates(e) \/ StartDiscards(e) \/ StartFails(e) \/ StartIgnored(e))
          /\ WF_vars(PumpPublishes(e) \/ PumpEnds(e))
          /\ WF_vars(RequestTimesOut(e))

Spec == Init /\ [][Next]_vars /\ Fairness

-----------------------------------------------------------------------------

TypeOK ==
    /\ entries \in [Uris -> EntryIds \cup {None}]
    /\ entry \in [EntryIds -> Entry]
    /\ start \in [EntryIds -> {"none", "waiting", "answered", "rejected", "done"}]
    /\ pump \in [EntryIds -> {"none", "running", "done"}]
    /\ readers \in [Uris -> SUBSET EntryIds]
    /\ inbox \in [EntryIds -> Seq(1..MaxEvents)]

\* An entry is in the map exactly while it is pending or active, its lease
\* streams are open and somebody holds it; every other entry has failed or been
\* closed and has ended the streams of the leases that are still out.  Answers,
\* timeouts and pump ends that come after the entry left the map must not
\* revive it (acquire, dispose, start, pump, close).
MapMatchesLifecycle ==
    /\ TypeOK
    /\ \A e \in 1..lastEntry :
        /\ Current(e) => /\ entry[e].status \in {"pending", "active"}
                         /\ entry[e].open /\ entry[e].holders # {}
        /\ ~Current(e) => entry[e].status \in {"failed", "closed"} /\ ~entry[e].open

\* Whether the server holds the URI once it has handled the first i messages.
HeldAfter(u, i) ==
    \/ /\ u \in srvSubs
       /\ \A k \in 1..i : toServer[k].uri # u
    \/ \E j \in 1..i : /\ toServer[j].uri = u /\ toServer[j].m = "subscribe"
                       /\ \A k \in (j + 1)..i : toServer[k].uri # u

\* At most one wire subscription per URI: no subscribe request reaches a server
\* that still holds the URI, however releases, failures and new acquires overlap;
\* and once all messages are handled it holds exactly the URIs of the map.
OneWireSubscription ==
    clientOpen =>
        /\ \A i \in 1..Len(toServer) :
              toServer[i].m = "subscribe" => ~HeldAfter(toServer[i].uri, i - 1)
        /\ (toServer = <<>> /\ toClient = <<>>
              /\ \A e \in EntryIds : start[e] \notin {"waiting", "answered", "rejected"})
              => srvSubs = {u \in Uris : entries[u] # None}

EventsOf(u) == Kept(toClient, {x \in ToSet(toClient) : x.m = "event" /\ x.uri = u})

\* What the reader of lease l of entry e was or will be given: what the entry
\* published since it was made, what waits in the client and what is on the wire.
Given(e, l) ==
    LET wire == EventsOf(entry[e].uri)
    IN  SubSeq(entry[e].got, joined[l] + 1, Len(entry[e].got)) \o inbox[e]
          \o [i \in 1..Len(wire) |-> wire[i].n]

\* The last event that was published before lease l of entry e was made or that
\* the snapshot covers, whichever is later.
LastBefore(e, l) ==
    IF joined[l] > 0 /\ entry[e].got[joined[l]] > entry[e].result
    THEN entry[e].got[joined[l]] ELSE entry[e].result

EventsAfter(n, s) == Kept(s, {m \in 1..MaxEvents : m > n})

\* From the moment it is made, a lease of an active subscription gets every event
\* of the channel that the snapshot does not cover, once and in order, those
\* sent during the subscribe round-trip and those for which the pump was not
\* there yet included; all it can lack is what the entry published before.
\* That it can lack: a lease that joins late has the snapshot of the first
\* subscribe and a reader that starts now (createLease).
LeaseGetsTheRest ==
    \A e \in 1..lastEntry : \A l \in entry[e].holders :
        (clientOpen /\ Current(e) /\ entry[e].status = "active") =>
            EventsAfter(LastBefore(e, l), Given(e, l))
                = [i \in 1..(log[entry[e].uri] - LastBefore(e, l)) |-> LastBefore(e, l) + i]

\* Every ready promise settles, and the pump of an entry that has left the map
\* ends: no release order and no silent server leaves one waiting for ever.
EverythingSettles ==
    \A e \in EntryIds :
        /\ (entry[e].status = "pending") ~> (entry[e].status # "pending")
        /\ (pump[e] = "running" /\ ~Current(e)) ~> (pump[e] = "done")

=============================================================================
