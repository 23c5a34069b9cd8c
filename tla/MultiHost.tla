----------------------------- MODULE MultiHost -----------------------------
(***************************************************************************)
(* MultiHostClient of clients/typescript/src/client/hosts/multi.ts, its     *)
(* ClientIdStore, and the MultiHostStateMirror of hosts/state-mirror.ts     *)
(* that a consumer feeds from its event stream.                             *)
(*                                                                          *)
(* A HostRuntime (module HostRuntime) is reduced to its life: it runs until *)
(* it is told to shut down and exits some time later.  The store is         *)
(* external: an operation may fail, having written or not.  The process may *)
(* crash and start again, which leaves only what the store holds.           *)
(***************************************************************************)
EXTENDS Integers, Sequences, FiniteSets, SequencesExt, TLC

CONSTANTS
    HostIds,      \* host ids, as sequences of characters
    Uris,         \* channel URIs, as sequences of characters
    Automations,  \* those of the URIs that are automations
    Calls,        \* addHost() calls that may be under way at once
    Explicit,     \* client ids that a HostConfig may name
    MaxRuntimes,  \* bound: runtimes made
    MaxMirrored,  \* bound: channels and automations mirrored at a time
    MaxActions,   \* bound: actions applied to the mirrored channels
    MaxCrashes    \* bound: restarts of the process

ASSUME BoundAssumption == {MaxRuntimes, MaxMirrored, MaxActions, MaxCrashes} \subseteq Nat
ASSUME HostIdAssumption == HostIds # {} /\ \A h \in HostIds : h \in Seq(STRING)
ASSUME UriAssumption == Automations \subseteq Uris /\ \A u \in Uris : u \in Seq(STRING)
\* The decimal text of a length is one piece of a key: it has no NUL, and the
\* NUL after it ends it.
ASSUME LengthAssumption ==
    \A g, h \in HostIds : ToString(Len(g)) = ToString(Len(h)) => Len(g) = Len(h)

RuntimeIds == 1..MaxRuntimes
None       == 0

VARIABLES
    hosts,          \* per host id: its runtime, or None
    pendingHostIds,
    calls,          \* the addHost() calls
    runtimes,       \* every HostRuntime made
    removing,       \* runtimes a removeHost() waits for
    shutDown,
    shutdownCall,   \* shutdown(): "none", "waiting", "returned"
    store,          \* ClientIdStore: per host id, the client id or None
    generated,      \* number of client ids generated
    crashes,
    channelMap,     \* mirror: per key, the state of a channel or None
    automationCatalogs, automationsMap,  \* mirror: catalogue, and its index by key
    expected        \* per host and URI, the state its own events lead to

registryVars == <<hosts, pendingHostIds, calls, runtimes, removing, shutDown,
                  shutdownCall, store, generated, crashes>>
mirrorVars == <<channelMap, automationCatalogs, automationsMap, expected>>
vars == <<registryVars, mirrorVars>>

ClientIds == Explicit \cup 1..MaxRuntimes
Idle == [pc |-> "idle", host |-> CHOOSE h \in HostIds : TRUE, clientId |-> None]

-----------------------------------------------------------------------------
(* hosts/state-mirror.ts: keys                                             *)

NUL == "NUL"

\* Faulty: joins host id and URI without the length.
FaultyPrefix(hostId) == hostId

\* hostedResourceKeyPrefix()
hostedResourceKeyPrefix(hostId) == <<ToString(Len(hostId)), NUL>> \o hostId

\* hostedResourceKey()
hostedResourceKey(hostId, uri) == hostedResourceKeyPrefix(hostId) \o uri

Keys == {hostedResourceKey(h, u) : h \in HostIds, u \in Uris}
KeysOf(h) == {k \in Keys : IsPrefix(hostedResourceKeyPrefix(h), k)}

Init ==
    /\ hosts = [h \in HostIds |-> None]
    /\ pendingHostIds = {}
    /\ calls = [c \in Calls |-> Idle]
    /\ runtimes = <<>>
    /\ removing = {} /\ shutDown = FALSE /\ shutdownCall = "none"
    /\ store = [h \in HostIds |-> None]
    /\ generated = 0 /\ crashes = 0
    /\ channelMap = [k \in Keys |-> None]
    /\ automationCatalogs = [h \in HostIds |-> {}]
    /\ automationsMap = {}
    /\ expected = [h \in HostIds |-> [u \in Uris |-> None]]

-----------------------------------------------------------------------------
(* addHost()                                                               *)

\* Faulty: a call under way for the same host is not looked at.
FaultyAddHost(c, h, explicit) ==
    /\ calls[c].pc = "idle"
    /\ ~shutDown /\ hosts[h] = None
    /\ pendingHostIds' = pendingHostIds \cup {h}
    /\ calls' = [calls EXCEPT ![c] =
           [pc |-> IF explicit = None THEN "loading" ELSE "storing",
            host |-> h, clientId |-> explicit]]
    /\ UNCHANGED <<hosts, runtimes, removing, shutDown, shutdownCall, store, generated, crashes,
                   mirrorVars>>

\* Up to the first await.  A host that is registered or being added is refused,
\* and so is every host after shutdown().
AddHost(c, h, explicit) ==
    /\ calls[c].pc = "idle"
    /\ ~shutDown /\ hosts[h] = None /\ h \notin pendingHostIds
    /\ pendingHostIds' = pendingHostIds \cup {h}
    /\ calls' = [calls EXCEPT ![c] =
           [pc |-> IF explicit = None THEN "loading" ELSE "storing",
            host |-> h, clientId |-> explicit]]
    /\ UNCHANGED <<hosts, runtimes, removing, shutDown, shutdownCall, store, generated, crashes,
                   mirrorVars>>

\* store.load() answers: the stored id is used again, or a new one generated.
Loaded(c) ==
    /\ calls[c].pc = "loading"
    /\ generated < MaxRuntimes
    /\ LET stored == store[calls[c].host] IN
       /\ generated' = IF stored = None THEN generated + 1 ELSE generated
       /\ calls' = [calls EXCEPT ![c].pc = "storing",
                                 ![c].clientId = IF stored = None THEN generated + 1 ELSE stored]
    /\ UNCHANGED <<hosts, pendingHostIds, runtimes, removing, shutDown, shutdownCall, store, crashes,
                   mirrorVars>>

\* store.store() has written the id.
Stored(c) ==
    /\ calls[c].pc = "storing"
    /\ store' = [store EXCEPT ![calls[c].host] = calls[c].clientId]
    /\ calls' = [calls EXCEPT ![c].pc = "resolved"]
    /\ UNCHANGED <<hosts, pendingHostIds, runtimes, removing, shutDown, shutdownCall, generated,
                   crashes, mirrorVars>>

\* Either operation fails; a store() may have written before it did.
StoreFails(c) ==
    /\ calls[c].pc \in {"loading", "storing"}
    /\ store' \in {store, IF calls[c].pc = "storing"
                          THEN [store EXCEPT ![calls[c].host] = calls[c].clientId] ELSE store}
    /\ calls' = [calls EXCEPT ![c] = Idle]
    /\ pendingHostIds' = pendingHostIds \ {calls[c].host}
    /\ UNCHANGED <<hosts, runtimes, removing, shutDown, shutdownCall, generated, crashes, mirrorVars>>

\* Faulty: does not look again whether the client was shut down meanwhile.
FaultyRegister(c) ==
    LET call == calls[c] IN
    /\ call.pc = "resolved"
    /\ hosts[call.host] = None => Len(runtimes) < MaxRuntimes
    /\ IF hosts[call.host] # None
       THEN UNCHANGED <<hosts, runtimes>>
       ELSE /\ runtimes' = Append(runtimes,
                   [host |-> call.host, clientId |-> call.clientId, state |-> "live"])
            /\ hosts' = [hosts EXCEPT ![call.host] = Len(runtimes) + 1]
    /\ calls' = [calls EXCEPT ![c] = Idle]
    /\ pendingHostIds' = pendingHostIds \ {call.host}
    /\ UNCHANGED <<removing, shutDown, shutdownCall, store, generated, crashes, mirrorVars>>

\* After the id is resolved: the checks are made again, since shutdown() may
\* have run meanwhile; then the runtime is made, registered and started.
Register(c) ==
    LET call == calls[c] IN
    /\ call.pc = "resolved"
    /\ (~shutDown /\ hosts[call.host] = None) => Len(runtimes) < MaxRuntimes
    /\ IF shutDown \/ hosts[call.host] # None
       THEN UNCHANGED <<hosts, runtimes>>
       ELSE /\ runtimes' = Append(runtimes,
                   [host |-> call.host, clientId |-> call.clientId, state |-> "live"])
            /\ hosts' = [hosts EXCEPT ![call.host] = Len(runtimes) + 1]
    /\ calls' = [calls EXCEPT ![c] = Idle]
    /\ pendingHostIds' = pendingHostIds \ {call.host}
    /\ UNCHANGED <<removing, shutDown, shutdownCall, store, generated, crashes, mirrorVars>>

-----------------------------------------------------------------------------
(* removeHost(), shutdown()                                                *)

\* The runtimes rs are told to shut down.
Stopping(rs) ==
    [r \in DOMAIN runtimes |-> IF r \in rs /\ runtimes[r].state = "live"
                               THEN [runtimes[r] EXCEPT !.state = "stopping"] ELSE runtimes[r]]

RemoveHost(h) ==
    /\ hosts[h] # None
    /\ hosts' = [hosts EXCEPT ![h] = None]
    /\ runtimes' = Stopping({hosts[h]})
    /\ removing' = removing \cup {hosts[h]}
    /\ UNCHANGED <<pendingHostIds, calls, shutDown, shutdownCall, store, generated, crashes, mirrorVars>>

RuntimeExits(r) ==
    /\ r \in DOMAIN runtimes /\ runtimes[r].state = "stopping"
    /\ runtimes' = [runtimes EXCEPT ![r].state = "exited"]
    /\ UNCHANGED <<hosts, pendingHostIds, calls, removing, shutDown, shutdownCall, store,
                   generated, crashes, mirrorVars>>

\* removeHost() resumes and publishes `removed`.
Removed(r) ==
    /\ r \in removing /\ runtimes[r].state = "exited"
    /\ removing' = removing \ {r}
    /\ UNCHANGED <<hosts, pendingHostIds, calls, runtimes, shutDown, shutdownCall, store,
                   generated, crashes, mirrorVars>>

Shutdown ==
    /\ ~shutDown
    /\ shutDown' = TRUE /\ shutdownCall' = "waiting"
    /\ runtimes' = Stopping({hosts[h] : h \in HostIds})
    /\ hosts' = [h \in HostIds |-> None]
    /\ UNCHANGED <<pendingHostIds, calls, removing, store, generated, crashes, mirrorVars>>

\* The runtimes shutdown() waits for are those that were registered; one that is
\* being removed is waited for by its removeHost() only.
ShutdownReturns ==
    /\ shutdownCall = "waiting"
    /\ \A r \in DOMAIN runtimes : runtimes[r].state = "stopping" => r \in removing
    /\ shutdownCall' = "returned"
    /\ UNCHANGED <<hosts, pendingHostIds, calls, runtimes, removing, shutDown, store, generated,
                   crashes, mirrorVars>>

\* The process ends and starts again with an empty registry and mirror.
Crash ==
    /\ crashes < MaxCrashes
    /\ crashes' = crashes + 1
    /\ hosts' = [h \in HostIds |-> None] /\ pendingHostIds' = {}
    /\ calls' = [c \in Calls |-> Idle]
    /\ runtimes' = [r \in DOMAIN runtimes |-> [runtimes[r] EXCEPT !.state = "exited"]]
    /\ removing' = {} /\ shutDown' = FALSE /\ shutdownCall' = "none"
    /\ channelMap' = [k \in Keys |-> None]
    /\ automationCatalogs' = [h \in HostIds |-> {}] /\ automationsMap' = {}
    /\ expected' = [h \in HostIds |-> [u \in Uris |-> None]]
    /\ UNCHANGED <<store, generated>>

-----------------------------------------------------------------------------
(* The mirror.  A state is the number of actions since its snapshot, plus 1. *)

\* A runtime publishes until it exits.  The mirror is not persisted, so its
\* second life would repeat the first: bounded to the first.
Publishes(h) ==
    /\ crashes = 0
    /\ \E r \in DOMAIN runtimes : runtimes[r].host = h /\ runtimes[r].state # "exited"

Mirrored ==
    Cardinality({p \in HostIds \X Uris : expected[p[1]][p[2]] # None})
        + Cardinality({p \in HostIds \X Uris : p[2] \in automationCatalogs[p[1]]})

applySnapshot(h, u) ==
    /\ Publishes(h)
    /\ channelMap' = [channelMap EXCEPT ![hostedResourceKey(h, u)] = 1]
    /\ expected' = [expected EXCEPT ![h][u] = 1]
    /\ UNCHANGED <<registryVars, automationCatalogs, automationsMap>>
    /\ Mirrored' <= MaxMirrored

\* An action of a channel without snapshot is dropped.
applyEnvelope(h, u) ==
    /\ Publishes(h)
    /\ \A g \in HostIds, v \in Uris : expected[g][v] <= MaxActions
    /\ channelMap[hostedResourceKey(h, u)] # None
    /\ channelMap' = [channelMap EXCEPT ![hostedResourceKey(h, u)] = @ + 1]
    /\ expected' = [expected EXCEPT ![h][u] = IF @ = None THEN None ELSE @ + 1]
    /\ UNCHANGED <<registryVars, automationCatalogs, automationsMap>>

\* setAutomationCatalog(): the index of the host is built anew.
setAutomationCatalog(h, entries) ==
    /\ Publishes(h)
    /\ automationCatalogs' = [automationCatalogs EXCEPT ![h] = entries]
    /\ automationsMap' = (automationsMap \ KeysOf(h))
                             \cup {hostedResourceKey(h, u) : u \in entries}
    /\ UNCHANGED <<registryVars, channelMap, expected>>
    /\ Mirrored' <= MaxMirrored

resetHost(h) ==
    /\ crashes = 0
    /\ channelMap' = [k \in Keys |-> IF k \in KeysOf(h) THEN None ELSE channelMap[k]]
    /\ automationCatalogs' = [automationCatalogs EXCEPT ![h] = {}]
    /\ automationsMap' = automationsMap \ KeysOf(h)
    /\ expected' = [expected EXCEPT ![h] = [u \in Uris |-> None]]
    /\ UNCHANGED registryVars

-----------------------------------------------------------------------------

Next ==
    \/ \E c \in Calls :
          \/ \E h \in HostIds, x \in Explicit \cup {None} : AddHost(c, h, x)
          \/ Loaded(c) \/ Stored(c) \/ StoreFails(c) \/ Register(c)
    \/ \E h \in HostIds : RemoveHost(h) \/ resetHost(h)
    \/ \E r \in RuntimeIds : RuntimeExits(r) \/ Removed(r)
    \/ Shutdown \/ ShutdownReturns \/ Crash
    \/ \E h \in HostIds, u \in Uris : applySnapshot(h, u) \/ applyEnvelope(h, u)
    \/ \E h \in HostIds, entries \in SUBSET Automations : setAutomationCatalog(h, entries)

Spec == Init /\ [][Next]_vars

-----------------------------------------------------------------------------

TypeOK ==
    /\ hosts \in [HostIds -> RuntimeIds \cup {None}]
    /\ store \in [HostIds -> ClientIds \cup {None}]
    /\ calls \in [Calls -> [pc : {"idle", "loading", "storing", "resolved"},
                            host : HostIds, clientId : ClientIds \cup {None}]]
    /\ \A r \in DOMAIN runtimes : runtimes[r].state \in {"live", "stopping", "exited"}

\* The identity of a host: the id a registered host connects with is the one the
\* store holds, so that the next launch resumes as the same client; and no two
\* ids are generated for a host that is registered twice, also across failed
\* stores, concurrent addHost() calls and restarts: a generated id is used again,
\* for ever or until a configuration names another.
IdentityPersisted ==
    /\ TypeOK
    /\ \A h \in HostIds : hosts[h] # None => store[h] = runtimes[hosts[h]].clientId
    /\ \A r, s \in DOMAIN runtimes :
          (runtimes[r].host = runtimes[s].host
             /\ {runtimes[r].clientId, runtimes[s].clientId} \cap Explicit = {})
          => runtimes[r].clientId = runtimes[s].clientId

\* A client that is shut down has no host and starts none, also when addHost()
\* was waiting for the store; once shutdown() has returned only runtimes that a
\* removeHost() waits for may still be stopping.  A runtime that is live is
\* registered under its host id.
NoHostEscapes ==
    /\ shutDown => \A h \in HostIds : hosts[h] = None
    /\ \A r \in DOMAIN runtimes :
          /\ runtimes[r].state = "live" => hosts[runtimes[r].host] = r
          /\ (shutdownCall = "returned" /\ runtimes[r].state # "exited") => r \in removing

\* The mirror keeps hosts apart although it keys its maps by one string: the
\* state of a channel is what the host's own snapshot and actions lead to,
\* resetHost() drops a host entirely and touches no other, and the index of
\* automations lists exactly those of the catalogues.
MirrorKeepsHostsApart ==
    /\ \A h \in HostIds, u \in Uris : channelMap[hostedResourceKey(h, u)] = expected[h][u]
    /\ automationsMap = UNION {{hostedResourceKey(h, u) : u \in automationCatalogs[h]} : h \in HostIds}

=============================================================================
