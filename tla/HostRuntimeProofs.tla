------------------------- MODULE HostRuntimeProofs -------------------------
(***************************************************************************)
(* What HostRuntime guarantees for every policy, every set of channels,     *)
(* sessions and reasons, and without its bounds: no client is left open     *)
(* (NoClientLeft), a handle that passes its check never acts on a           *)
(* connection that was replaced (HandlesStayCurrent), the host is given up  *)
(* as its policy says (GivesUpAsConfigured), and the mirrored state follows *)
(* the server's (MirrorsFollowServer).                                      *)
(*                                                                          *)
(* The inductive invariant Supervised is about control alone: which client  *)
(* each await of the supervisor leaves open, and how the generations of     *)
(* shared, of the handle source and of the handles relate.  CountsTally is  *)
(* about the retries: at each await the attempt counter is what became of   *)
(* the connects so far.  Following is about the data: the mirrored root is  *)
(* the server's root history up to the bookmark, what connectOnce() was     *)
(* answered goes on from there, and so do the events buffered since.        *)
(***************************************************************************)
EXTENDS HostRuntime, SubsequenceProofs, TLAPS

\* The awaits at which no client is open, and those of connectOnce() between
\* the factory and the commit.
Idle      == {"new", "factory", "sleeping", "failed", "exited",
              "closing", "closingManual", "closingShutdown"}
Handshake == {"reconnecting", "initializing", "listing", "aborting"}

\* The fields of the records, and the types the control needs.
Shapes ==
    /\ DOMAIN shared = {"state", "serverSeq", "rootState", "subscriptions", "sessionSummaries",
                        "generation", "currentClient", "shutdownReason"}
    /\ DOMAIN handleSource = {"generation", "currentClient", "shutdownReason"}
    /\ DOMAIN conn = {"client", "open", "subs"}
    /\ conn.client \in Nat /\ shared.generation \in Nat
    /\ attempt \in Nat /\ policy \in Policies

\* The clients that are open at each await.
ClientsByPhase ==
    \/ /\ pc \in Idle /\ clients = {}
       /\ shared.currentClient = 0 /\ handleSource.currentClient = 0
    \/ /\ pc \in Handshake /\ clients = {conn.client} /\ conn.client # 0
       /\ shared.currentClient = 0 /\ handleSource.currentClient = 0
    \/ /\ pc = "running" /\ clients = {conn.client} /\ conn.client # 0
       /\ shared.currentClient = conn.client /\ handleSource.currentClient = conn.client

\* A handle is never ahead of the host, and one of its generation has the
\* client of that generation.
Generations ==
    /\ handleSource.generation = shared.generation
    /\ \A h \in handles :
          /\ h.generation \in Nat /\ h.generation <= shared.generation
          /\ h.generation = shared.generation => shared.currentClient \in {0, h.client}

Supervised == Shapes /\ ClientsByPhase /\ Generations

-----------------------------------------------------------------------------
(* What the steps do to the state the invariant is about.                   *)

\* shared, the handle source, and the connection: their shapes are kept, and so
\* are the fields that name a generation or a client.
SharedKept ==
    /\ DOMAIN shared' = DOMAIN shared
    /\ shared'.generation = shared.generation /\ shared'.currentClient = shared.currentClient
SourceKept ==
    /\ DOMAIN handleSource' = DOMAIN handleSource
    /\ handleSource'.generation = handleSource.generation
    /\ handleSource'.currentClient = handleSource.currentClient
ConnKept ==
    /\ DOMAIN conn' = DOMAIN conn
    /\ conn'.client = conn.client

\* The loop went round, to its end or to attempt n + 1.
WentRound(n) ==
    /\ SharedKept
    /\ DOMAIN handleSource' = DOMAIN handleSource
    /\ handleSource'.generation \in {handleSource.generation, shared.generation}
    /\ handleSource'.currentClient \in {handleSource.currentClient, 0}
    /\ \/ pc' = "exited" /\ attempt' = attempt
       \/ pc' = "factory" /\ attempt' = n + 1

\* A connect failed: the loop goes round, gives up or backs off.
FailedConnect ==
    \/ WentRound(attempt) /\ pc' = "exited"
    \/ WentRound(0)
    \/ /\ SharedKept /\ SourceKept /\ attempt' = attempt
       /\ \/ pc' = "failed" /\ attemptsExhausted(policy, attempt)
          \/ pc' = "sleeping" /\ ~attemptsExhausted(policy, attempt)

\* Going round the loop (runSupervisor) keeps the generation and the client.
LEMMA IterateFacts ==
    ASSUME Shapes, NEW n, Iterate(n, shared)
    PROVE  WentRound(n)
<1>1. CASE ShutDown
  <2>1. /\ pc' = "exited" /\ attempt' = attempt /\ shared' = shared
        /\ handleSource' = [handleSource EXCEPT !.currentClient = 0,
                                                !.generation = shared.generation]
    BY <1>1, Zenon DEF Iterate
  <2>2. /\ DOMAIN handleSource' = DOMAIN handleSource
        /\ handleSource'.generation = shared.generation
        /\ handleSource'.currentClient = 0
    BY <2>1, Zenon DEF Shapes
  <2> QED BY <2>1, <2>2 DEF WentRound, SharedKept
<1>2. CASE ~ShutDown
  <2>1. /\ pc' = "factory" /\ attempt' = n + 1 /\ handleSource' = handleSource
        /\ shared' = [shared EXCEPT !.state = IF n = 0 THEN "connecting" ELSE "reconnecting"]
    BY <1>2, Zenon DEF Iterate
  <2>2. SharedKept
    BY <2>1, Zenon DEF Shapes, SharedKept
  <2> QED BY <2>1, <2>2 DEF WentRound
<1> QED BY <1>1, <1>2

\* A connect that fails (runSupervisor) goes round, gives up or backs off.
LEMMA ConnectFailedFacts ==
    ASSUME Shapes, ConnectFailed
    PROVE  FailedConnect
<1>1. CASE ShutDown
  BY <1>1, IterateFacts, Zenon DEF ConnectFailed, FailedConnect, Iterate
<1>2. CASE ~ShutDown /\ manual
  BY <1>2, IterateFacts, Zenon DEF ConnectFailed, FailedConnect
<1>3. CASE ~ShutDown /\ ~manual
  <2>1. attempt' = attempt /\ handleSource' = handleSource
    BY <1>3 DEF ConnectFailed
  <2>2. SourceKept
    BY <2>1 DEF SourceKept
  <2>3. CASE attemptsExhausted(policy, attempt)
    <3>1. pc' = "failed" /\ shared' = [shared EXCEPT !.state = "failed"]
      BY <1>3, <2>3, Zenon DEF ConnectFailed
    <3>2. SharedKept
      BY <3>1, Zenon DEF Shapes, SharedKept
    <3> QED BY <2>1, <2>2, <2>3, <3>1, <3>2, Zenon DEF FailedConnect
  <2>4. CASE ~attemptsExhausted(policy, attempt)
    <3>1. pc' = "sleeping" /\ shared' = shared
      BY <1>3, <2>4 DEF ConnectFailed
    <3>2. SharedKept
      BY <3>1 DEF SharedKept
    <3> QED BY <2>1, <2>2, <2>4, <3>1, <3>2, Zenon DEF FailedConnect
  <2> QED BY <2>3, <2>4
<1> QED BY <1>1, <1>2, <1>3

\* A step that leaves clients, handles and counter alone; the supervisor at most
\* moves on inside of the handshake.
Stays ==
    /\ SharedKept /\ SourceKept /\ ConnKept
    /\ clients' = clients /\ handles' = handles /\ attempt' = attempt
    /\ pc' = pc \/ (pc \in Handshake /\ pc' \in Handshake)

\* The loop goes round without a connection, from where it waited.
Rounds ==
    /\ ConnKept /\ clients' = clients /\ handles' = handles
    /\ \/ pc = "new" /\ WentRound(0)
       \/ pc = "sleeping" /\ (WentRound(attempt) \/ WentRound(0))
       \/ pc = "failed" /\ WentRound(0)
       \/ pc = "closing" /\ WentRound(attempt)
       \/ pc \in {"closingManual", "closingShutdown"} /\ WentRound(0)
       \/ pc = "factory" /\ FailedConnect

\* The half-built client is shut down, and the connect has failed.
Aborts ==
    /\ pc = "aborting" /\ FailedConnect
    /\ ConnKept /\ clients' = clients \ {conn.client} /\ handles' = handles

\* A client is made for the transport that was opened.
Opens ==
    /\ pc = "factory" /\ pc' \in Handshake /\ conn.client < MaxConnects
    /\ DOMAIN conn' = DOMAIN conn /\ conn'.client = conn.client + 1
    /\ clients' = clients \cup {conn.client + 1}
    /\ SharedKept /\ SourceKept /\ handles' = handles /\ attempt' = attempt

\* The connection is committed under a new generation.
Commits ==
    /\ pc = "listing" /\ pc' = "running"
    /\ DOMAIN shared' = DOMAIN shared /\ DOMAIN handleSource' = DOMAIN handleSource
    /\ shared'.generation = shared.generation + 1 /\ shared'.currentClient = conn.client
    /\ handleSource'.generation = shared.generation + 1
    /\ handleSource'.currentClient = conn.client
    /\ ConnKept /\ clients' = clients /\ handles' = handles
    /\ attempt' = IF policy.resetOnSuccess THEN 0 ELSE attempt

\* The client is taken away from the handles and shut down.
Closes ==
    /\ pc = "running" /\ pc' \in {"closing", "closingManual", "closingShutdown"}
    /\ DOMAIN shared' = DOMAIN shared /\ DOMAIN handleSource' = DOMAIN handleSource
    /\ shared'.generation = shared.generation /\ shared'.currentClient = 0
    /\ handleSource'.generation = handleSource.generation /\ handleSource'.currentClient = 0
    /\ ConnKept /\ clients' = clients \ {shared.currentClient} /\ handles' = handles
    /\ attempt' = attempt

\* A handle of the current connection is issued.
Issues ==
    /\ shared' = shared /\ handleSource' = handleSource /\ conn' = conn
    /\ clients' = clients /\ pc' = pc /\ attempt' = attempt
    /\ shared.currentClient # 0
    /\ handles' = handles \cup {[generation |-> shared.generation,
                                 client |-> shared.currentClient]}

\* What connectOnce commits keeps the shape of shared and moves its generation.
LEMMA CommittedFacts ==
    ASSUME Shapes, NEW ok, shared' = Committed(ok)
    PROVE  /\ DOMAIN shared' = DOMAIN shared
           /\ shared'.generation = shared.generation + 1
           /\ shared'.currentClient = conn.client
<1> DEFINE base == [shared EXCEPT
            !.generation = @ + 1, !.currentClient = conn.client, !.state = "connected",
            !.serverSeq = Max({@, FromSeq}),
            !.rootState = IF result.type # "replay" /\ Root \in result.resources
                          THEN RootAt(result.fromSeq) ELSE @,
            !.sessionSummaries = IF ok THEN sessions ELSE @,
            !.subscriptions = Surviving]
<1>1. /\ DOMAIN base = DOMAIN shared
      /\ base.generation = shared.generation + 1
      /\ base.currentClient = conn.client
  BY Zenon DEF Shapes
<1>2. \/ shared' = base
      \/ shared' = [base EXCEPT !.serverSeq = Max({@} \cup ToSet(result.actions)),
                                !.rootState = @ \o Kept(result.actions, Numbers({Root}))]
  BY Zenon DEF Committed, applyEnvelopeLocally
<1> HIDE DEF base
<1>3. "generation" \in DOMAIN base /\ "currentClient" \in DOMAIN base
  BY <1>1, Zenon DEF Shapes
<1> QED BY <1>1, <1>2, <1>3, Zenon

\* The kinds of step.
Kinds == Stays \/ Rounds \/ Aborts \/ Opens \/ Commits \/ Closes \/ Issues

\* Every step of the supervisor, of a caller, of the server or of the transport
\* is one of these kinds, and none changes the policy.
LEMMA StepKinds ==
    ASSUME Shapes, [Next]_vars
    PROVE  policy' = policy /\ Kinds
<1> USE DEF Kinds
<1>1. CASE Start
  <2>1. /\ pc = "new" /\ conn' = conn /\ clients' = clients /\ handles' = handles
        /\ policy' = policy
    BY <1>1, Zenon DEF Start, wireVars
  <2>2. WentRound(0)
    BY <1>1, IterateFacts, Zenon DEF Start
  <2> QED BY <2>1, <2>2, Zenon DEF Rounds, ConnKept
<1>2. CASE SleepElapses
  <2>1. /\ pc = "sleeping" /\ conn' = conn /\ clients' = clients /\ handles' = handles
        /\ policy' = policy
    BY <1>2, Zenon DEF SleepElapses, wireVars
  <2>2. WentRound(attempt)
    BY <1>2, IterateFacts, Zenon DEF SleepElapses
  <2> QED BY <2>1, <2>2, Zenon DEF Rounds, ConnKept
<1>3. CASE WaitAborted
  <2>1. /\ pc \in {"failed", "sleeping"} /\ conn' = conn /\ clients' = clients
        /\ handles' = handles /\ policy' = policy
    BY <1>3, Zenon DEF WaitAborted, wireVars
  <2>2. WentRound(0)
    BY <1>3, IterateFacts, Zenon DEF WaitAborted
  <2> QED BY <2>1, <2>2, Zenon DEF Rounds, ConnKept
<1>4. CASE ConnectAborted \/ FactoryFails
  <2>1. /\ pc = "factory" /\ conn' = conn /\ clients' = clients /\ handles' = handles
        /\ policy' = policy
    BY <1>4, Zenon DEF ConnectAborted, FactoryFails, wireVars
  <2>2. FailedConnect
    BY <1>4, ConnectFailedFacts, Zenon DEF ConnectAborted, FactoryFails
  <2> QED BY <2>1, <2>2, Zenon DEF Rounds, ConnKept
<1>5. CASE HandshakeFails
  <2>1. /\ pc \in Handshake /\ pc' \in Handshake
        /\ conn' = conn /\ clients' = clients /\ handles' = handles
        /\ shared' = shared /\ handleSource' = handleSource /\ attempt' = attempt
        /\ policy' = policy
    BY <1>5, Zenon DEF HandshakeFails, wireVars, Handshake
  <2> QED BY <2>1, Zenon DEF Stays, SharedKept, SourceKept, ConnKept
<1>6. CASE AbortDone
  <2>1. /\ pc = "aborting" /\ clients' = clients \ {conn.client} /\ handles' = handles
        /\ conn' = [conn EXCEPT !.open = FALSE, !.subs = {}]
        /\ policy' = policy
    BY <1>6, Zenon DEF AbortDone
  <2>2. FailedConnect
    BY <1>6, ConnectFailedFacts, Zenon DEF AbortDone
  <2>3. ConnKept
    BY <2>1, Zenon DEF Shapes, ConnKept
  <2> QED BY <2>1, <2>2, <2>3, Zenon DEF Aborts
<1>7. CASE Connected
  <2>1. /\ pc = "listing" /\ pc' = "running" /\ shared' = Committed(listed')
        /\ handleSource' = [handleSource EXCEPT !.generation = shared.generation + 1,
                                                !.currentClient = conn.client]
        /\ attempt' = IF policy.resetOnSuccess THEN 0 ELSE attempt
        /\ conn' = conn /\ clients' = clients /\ handles' = handles /\ policy' = policy
    BY <1>7, Zenon DEF Connected, wireVars
  <2>2. /\ DOMAIN shared' = DOMAIN shared
        /\ shared'.generation = shared.generation + 1
        /\ shared'.currentClient = conn.client
    BY <2>1, CommittedFacts, Zenon
  <2>3. /\ DOMAIN handleSource' = DOMAIN handleSource
        /\ handleSource'.generation = shared.generation + 1
        /\ handleSource'.currentClient = conn.client
    BY <2>1, Zenon DEF Shapes
  <2>4. ConnKept
    BY <2>1, Zenon DEF ConnKept
  <2> QED BY <2>1, <2>2, <2>3, <2>4, Zenon DEF Commits
<1>8. CASE HandleEvent
  <2>1. /\ pc' = pc /\ attempt' = attempt /\ handleSource' = handleSource /\ conn' = conn
        /\ clients' = clients /\ handles' = handles /\ policy' = policy
    BY <1>8, Zenon DEF HandleEvent, supVars
  <2>2. \/ shared' = applyEnvelopeLocally(shared, <<Head(events).seq>>)
        \/ shared' = [shared EXCEPT !.sessionSummaries = @ \cup {Head(events).session}]
        \/ shared' = [shared EXCEPT !.sessionSummaries = @ \ {Head(events).session}]
    BY <1>8, Zenon DEF HandleEvent
  <2>3. SharedKept
    BY <2>2, Zenon DEF Shapes, SharedKept, applyEnvelopeLocally
  <2> QED BY <2>1, <2>3, Zenon DEF Stays, SourceKept, ConnKept
<1>9. CASE ConnectionLeft
  <2>1. /\ pc = "running" /\ pc' \in {"closing", "closingManual", "closingShutdown"}
        /\ TearDown /\ handles' = handles /\ attempt' = attempt /\ policy' = policy
    BY <1>9, Zenon DEF ConnectionLeft
  <2>2. /\ DOMAIN shared' = DOMAIN shared
        /\ shared'.generation = shared.generation /\ shared'.currentClient = 0
    BY <2>1, Zenon DEF TearDown, Shapes
  <2>3. /\ DOMAIN handleSource' = DOMAIN handleSource
        /\ handleSource'.generation = handleSource.generation
        /\ handleSource'.currentClient = 0
    BY <2>1, Zenon DEF TearDown, Shapes
  <2>4. ConnKept /\ clients' = clients \ {shared.currentClient}
    BY <2>1, Zenon DEF TearDown, Shapes, ConnKept
  <2> QED BY <2>1, <2>2, <2>3, <2>4, Zenon DEF Closes
<1>10. CASE ClosingDone
  <2>1. /\ pc \in {"closing", "closingManual", "closingShutdown"}
        /\ conn' = conn /\ clients' = clients /\ handles' = handles /\ policy' = policy
    BY <1>10, Zenon DEF ClosingDone, wireVars
  <2>2. CASE pc = "closing"
    <3>1. WentRound(attempt)
      BY <1>10, <2>2, IterateFacts, Zenon DEF ClosingDone
    <3> QED BY <2>1, <2>2, <3>1, Zenon DEF Rounds, ConnKept
  <2>3. CASE pc # "closing"
    <3>1. WentRound(0)
      BY <1>10, <2>3, IterateFacts, Zenon DEF ClosingDone
    <3> QED BY <2>1, <2>3, <3>1, Zenon DEF Rounds, ConnKept
  <2> QED BY <2>2, <2>3
<1>11. CASE FactoryOpens
  <2>1. /\ pc = "factory" /\ pc' \in Handshake /\ conn.client < MaxConnects
        /\ conn' = [client |-> conn.client + 1, open |-> TRUE, subs |-> {}]
        /\ clients' = clients \cup {conn.client + 1}
        /\ shared' = shared /\ handleSource' = handleSource /\ handles' = handles
        /\ attempt' = attempt /\ policy' = policy
    BY <1>11, Zenon DEF FactoryOpens, Handshake
  <2>2. DOMAIN conn' = DOMAIN conn /\ conn'.client = conn.client + 1
    BY <2>1, SMT DEF Shapes
  <2> QED BY <2>1, <2>2, Zenon DEF Opens, SharedKept, SourceKept
<1>12. CASE ReconnectAnswered \/ InitializeAnswered
  <2>1. pc \in Handshake /\ \E r : Handshaken(r)
    BY <1>12, Zenon DEF ReconnectAnswered, InitializeAnswered, Handshake
  <2>2. /\ pc' \in Handshake /\ clients' = clients /\ handles' = handles
        /\ shared' = shared /\ handleSource' = handleSource /\ attempt' = attempt
        /\ conn' = [conn EXCEPT !.subs = prior.subscriptions \ gone]
        /\ policy' = policy
    BY <2>1, Zenon DEF Handshaken, Handshake
  <2>3. ConnKept
    BY <2>2, Zenon DEF Shapes, ConnKept
  <2> QED BY <2>1, <2>2, <2>3, Zenon DEF Stays, SharedKept, SourceKept
<1>13. CASE ReconnectRefused
  <2>1. /\ pc \in Handshake /\ pc' \in Handshake /\ conn' = conn /\ clients' = clients
        /\ shared' = shared /\ handleSource' = handleSource /\ handles' = handles
        /\ attempt' = attempt /\ policy' = policy
    BY <1>13, Zenon DEF ReconnectRefused, wireVars, Handshake
  <2> QED BY <2>1, Zenon DEF Stays, SharedKept, SourceKept, ConnKept
<1>14. CASE GetHandle
  BY <1>14, Zenon DEF GetHandle, Issues, callVars, wireVars
<1>15. CASE Reconnect
  BY <1>15, Zenon DEF Reconnect, callVars, wireVars, Stays, SharedKept, SourceKept, ConnKept
<1>16. CASE \E reason \in Reasons : Shutdown(reason)
  <2> PICK reason \in Reasons : Shutdown(reason)
    BY <1>16
  <2>1. /\ pc' = pc /\ attempt' = attempt /\ conn' = conn /\ clients' = clients
        /\ handles' = handles /\ policy' = policy
        /\ shared' = [shared EXCEPT !.shutdownReason = reason]
        /\ handleSource' = [handleSource EXCEPT !.shutdownReason = reason]
    BY Zenon DEF Shutdown, callVars, wireVars
  <2>2. SharedKept
    BY <2>1, Zenon DEF Shapes, SharedKept
  <2>3. SourceKept
    BY <2>1, Zenon DEF Shapes, SourceKept
  <2> QED BY <2>1, <2>2, <2>3, Zenon DEF Stays, ConnKept
<1>17. ASSUME NEW u \in Uris, SubscribeOffline(u) \/ SubscribeAnswered(u)
       PROVE  policy' = policy /\ Kinds
  <2>1. /\ pc' = pc /\ attempt' = attempt /\ conn' = conn /\ clients' = clients
        /\ handles' = handles /\ policy' = policy /\ handleSource' = handleSource
        /\ shared' = [shared EXCEPT !.subscriptions = @ \cup {u}]
    BY <1>17, Zenon DEF SubscribeOffline, SubscribeAnswered, callVars, wireVars
  <2>2. SharedKept
    BY <2>1, Zenon DEF Shapes, SharedKept
  <2> QED BY <2>1, <2>2, Zenon DEF Stays, ConnKept, SourceKept
<1>18. ASSUME NEW u \in Uris, SubscribeSent(u)
       PROVE  policy' = policy /\ Kinds
  <2>1. /\ pc' = pc /\ attempt' = attempt /\ clients' = clients /\ shared' = shared
        /\ handles' = handles /\ policy' = policy /\ handleSource' = handleSource
        /\ conn' = [conn EXCEPT !.subs = @ \cup {u}]
    BY <1>18, Zenon DEF SubscribeSent, callVars
  <2>2. ConnKept
    BY <2>1, Zenon DEF Shapes, ConnKept
  <2> QED BY <2>1, <2>2, Zenon DEF Stays, SharedKept, SourceKept
<1>19. ASSUME NEW u \in Uris, Unsubscribe(u)
       PROVE  policy' = policy /\ Kinds
  <2>1. /\ pc' = pc /\ attempt' = attempt /\ clients' = clients
        /\ handles' = handles /\ policy' = policy /\ handleSource' = handleSource
        /\ shared' = [shared EXCEPT !.subscriptions = @ \ {u}]
        /\ conn' = conn \/ conn' = [conn EXCEPT !.subs = @ \ {u}]
    BY <1>19, Zenon DEF Unsubscribe, callVars
  <2>2. ConnKept
    BY <2>1, Zenon DEF Shapes, ConnKept
  <2>3. SharedKept
    BY <2>1, Zenon DEF Shapes, SharedKept
  <2> QED BY <2>1, <2>2, <2>3, Zenon DEF Stays, SourceKept
<1>20. CASE \/ \E ch \in Channels : ServerActs(ch)
            \/ \E s \in Sessions : ServerNotifies(s)
  <2>1. /\ pc' = pc /\ attempt' = attempt /\ clients' = clients /\ shared' = shared
        /\ handles' = handles /\ policy' = policy /\ handleSource' = handleSource
        /\ conn' = conn
    BY <1>20, Zenon DEF ServerActs, ServerNotifies, supervisorVars, supVars
  <2> QED BY <2>1, Zenon DEF Stays, SharedKept, SourceKept, ConnKept
<1>21. CASE ConnectionEnds \/ \E u \in Uris : ServerDeletes(u)
  <2>1. /\ pc' = pc /\ attempt' = attempt /\ clients' = clients /\ shared' = shared
        /\ handles' = handles /\ policy' = policy /\ handleSource' = handleSource
    BY <1>21, Zenon DEF ConnectionEnds, ServerDeletes, supervisorVars, supVars
  <2>2. \/ conn' = [conn EXCEPT !.open = FALSE]
        \/ \E u \in Uris : conn' = [conn EXCEPT !.subs = @ \ {u}]
    BY <1>21, Zenon DEF ConnectionEnds, ServerDeletes
  <2>3. ConnKept
    BY <2>2, Zenon DEF Shapes, ConnKept
  <2> QED BY <2>1, <2>3, Zenon DEF Stays, SharedKept, SourceKept
<1>22. CASE UNCHANGED vars
  BY <1>22, Zenon DEF vars, supVars, wireVars, Stays, SharedKept, SourceKept, ConnKept
<1> QED
  BY <1>1, <1>2, <1>3, <1>4, <1>5, <1>6, <1>7, <1>8, <1>9, <1>10, <1>11, <1>12, <1>13,
     <1>14, <1>15, <1>16, <1>17, <1>18, <1>19, <1>20, <1>21, <1>22, Zenon
     DEF Next, Supervisor

-----------------------------------------------------------------------------
(* The invariant.                                                          *)

LEMMA SupervisedInit == Init => Supervised
<1> SUFFICES ASSUME Init PROVE Supervised
  OBVIOUS
<1>1. Shapes
  <2>1. /\ DOMAIN shared = {"state", "serverSeq", "rootState", "subscriptions",
                            "sessionSummaries", "generation", "currentClient",
                            "shutdownReason"}
        /\ DOMAIN handleSource = {"generation", "currentClient", "shutdownReason"}
        /\ DOMAIN conn = {"client", "open", "subs"}
        /\ conn.client = 0 /\ shared.generation = 0
    BY SMT DEF Init, makeInitialShared
  <2>2. attempt = 0 /\ policy \in Policies
    BY DEF Init
  <2> QED BY <2>1, <2>2, SMT DEF Shapes
<1>2. shared.generation = 0 /\ shared.currentClient = 0 /\ handleSource.generation = 0
      /\ handleSource.currentClient = 0
  BY SMT DEF Init, makeInitialShared
<1>3. ClientsByPhase
  BY <1>2 DEF Init, ClientsByPhase, Idle
<1>4. Generations
  BY <1>2 DEF Init, Generations
<1> QED BY <1>1, <1>3, <1>4 DEF Supervised

\* Where the loop goes after a failed connect.
LEMMA FailedConnectFacts ==
    ASSUME FailedConnect
    PROVE  /\ SharedKept
           /\ DOMAIN handleSource' = DOMAIN handleSource
           /\ handleSource'.generation \in {handleSource.generation, shared.generation}
           /\ handleSource'.currentClient \in {handleSource.currentClient, 0}
           /\ pc' \in Idle
           /\ attempt' \in {attempt, attempt + 1, 0 + 1}
  BY Zenon DEF FailedConnect, WentRound, SourceKept, Idle

LEMMA RoundsFacts ==
    ASSUME Rounds
    PROVE  /\ SharedKept
           /\ DOMAIN handleSource' = DOMAIN handleSource
           /\ handleSource'.generation \in {handleSource.generation, shared.generation}
           /\ handleSource'.currentClient \in {handleSource.currentClient, 0}
           /\ pc \in Idle /\ pc' \in Idle
           /\ attempt' \in {attempt, attempt + 1, 0 + 1}
           /\ ConnKept /\ clients' = clients /\ handles' = handles
<1>1. CASE pc = "factory" /\ FailedConnect
  BY <1>1, FailedConnectFacts, Zenon DEF Rounds, Idle
<1>2. CASE ~(pc = "factory" /\ FailedConnect)
  BY <1>2, Zenon DEF Rounds, WentRound, Idle
<1> QED BY <1>1, <1>2

LEMMA ShapesStep ==
    ASSUME Shapes, policy' = policy, Kinds
    PROVE  Shapes'
<1>1. /\ DOMAIN shared' = DOMAIN shared
      /\ DOMAIN handleSource' = DOMAIN handleSource
      /\ DOMAIN conn' = DOMAIN conn
      /\ conn'.client \in {conn.client, conn.client + 1}
      /\ shared'.generation \in {shared.generation, shared.generation + 1}
      /\ attempt' \in {attempt, attempt + 1, 0 + 1, 0}
  <2>1. CASE Rounds
    BY <2>1, RoundsFacts, Zenon DEF SharedKept, ConnKept
  <2>2. CASE Aborts
    BY <2>2, FailedConnectFacts, Zenon DEF Aborts, SharedKept, ConnKept
  <2>3. CASE Stays \/ Opens \/ Issues
    BY <2>3, Zenon DEF Stays, Opens, Issues, SharedKept, SourceKept, ConnKept
  <2>4. CASE Commits \/ Closes
    BY <2>4, Zenon DEF Commits, Closes, ConnKept
  <2> QED BY <2>1, <2>2, <2>3, <2>4 DEF Kinds
<1>2. /\ conn'.client \in Nat /\ shared'.generation \in Nat /\ attempt' \in Nat
  BY <1>1 DEF Shapes
<1> QED BY <1>1, <1>2, Zenon DEF Shapes

LEMMA ClientsStep ==
    ASSUME Shapes, ClientsByPhase, Kinds
    PROVE  ClientsByPhase'
<1>1. CASE Stays
  BY <1>1, Zenon DEF Stays, SharedKept, SourceKept, ConnKept, ClientsByPhase, Idle, Handshake
<1>2. CASE Rounds
  BY <1>2, RoundsFacts, Zenon DEF SharedKept, ConnKept, ClientsByPhase, Idle, Handshake
<1>3. CASE Aborts
  <2>1. /\ clients = {conn.client} /\ shared.currentClient = 0
        /\ handleSource.currentClient = 0
    BY <1>3, Zenon DEF Aborts, ClientsByPhase, Idle, Handshake
  <2>2. clients' = {}
    BY <1>3, <2>1 DEF Aborts
  <2>3. /\ pc' \in Idle /\ shared'.currentClient = 0 /\ handleSource'.currentClient = 0
    BY <1>3, <2>1, FailedConnectFacts, Zenon DEF Aborts, SharedKept
  <2> QED BY <2>2, <2>3, Zenon DEF ClientsByPhase
<1>4. CASE Opens
  <2>1. /\ clients = {} /\ shared.currentClient = 0 /\ handleSource.currentClient = 0
    BY <1>4, Zenon DEF Opens, ClientsByPhase, Idle, Handshake
  <2>2. conn'.client # 0
    <3>1. conn'.client = conn.client + 1 /\ conn.client \in Nat
      BY <1>4, Zenon DEF Opens, Shapes
    <3> QED BY <3>1
  <2>3. clients' = {conn'.client}
    BY <1>4, <2>1, Zenon DEF Opens
  <2>4. /\ pc' \in Handshake /\ shared'.currentClient = 0 /\ handleSource'.currentClient = 0
    BY <1>4, <2>1, Zenon DEF Opens, SharedKept, SourceKept
  <2> QED BY <2>2, <2>3, <2>4, Zenon DEF ClientsByPhase
<1>5. CASE Commits
  BY <1>5, Zenon DEF Commits, ConnKept, ClientsByPhase, Idle, Handshake
<1>6. CASE Closes
  <2>1. clients = {shared.currentClient}
    BY <1>6, Zenon DEF Closes, ClientsByPhase, Idle, Handshake
  <2>2. clients' = {}
    BY <1>6, <2>1 DEF Closes
  <2>3. pc' \in Idle /\ shared'.currentClient = 0 /\ handleSource'.currentClient = 0
    BY <1>6, Zenon DEF Closes, Idle
  <2> QED BY <2>2, <2>3, Zenon DEF ClientsByPhase
<1>7. CASE Issues
  BY <1>7, Zenon DEF Issues, ClientsByPhase
<1> QED BY <1>1, <1>2, <1>3, <1>4, <1>5, <1>6, <1>7 DEF Kinds

LEMMA GenerationsStep ==
    ASSUME Shapes, Generations, Kinds
    PROVE  Generations'
<1>1. CASE /\ SharedKept /\ handles' = handles
           /\ handleSource'.generation \in {handleSource.generation, shared.generation}
  <2>1. handleSource'.generation = shared'.generation
    BY <1>1, Zenon DEF Generations, SharedKept
  <2>2. \A h \in handles' :
          /\ h.generation \in Nat /\ h.generation <= shared'.generation
          /\ h.generation = shared'.generation => shared'.currentClient \in {0, h.client}
    BY <1>1, Zenon DEF Generations, SharedKept
  <2> QED BY <2>1, <2>2, Zenon DEF Generations
<1>2. CASE Stays
  BY <1>1, <1>2, Zenon DEF Stays, SourceKept
<1>3. CASE Rounds
  BY <1>1, <1>3, RoundsFacts, Zenon
<1>4. CASE Aborts
  BY <1>1, <1>4, FailedConnectFacts, Zenon DEF Aborts
<1>5. CASE Opens
  BY <1>1, <1>5, Zenon DEF Opens, SourceKept
<1>6. CASE Commits
  <2>1. /\ shared'.generation = shared.generation + 1
        /\ handleSource'.generation = shared.generation + 1 /\ handles' = handles
    BY <1>6, Zenon DEF Commits
  <2>2. \A h \in handles : h.generation \in Nat /\ h.generation <= shared.generation
    BY Zenon DEF Generations
  <2>3. shared.generation \in Nat
    BY Zenon DEF Shapes
  <2>4. \A h \in handles' :
          /\ h.generation \in Nat /\ h.generation <= shared'.generation
          /\ h.generation # shared'.generation
    BY <2>1, <2>2, <2>3
  <2> QED BY <2>1, <2>4, Zenon DEF Generations
<1>7. CASE Closes
  BY <1>7, Zenon DEF Closes, Generations
<1>8. CASE Issues
  <2> DEFINE new == [generation |-> shared.generation, client |-> shared.currentClient]
  <2>1. /\ shared' = shared /\ handleSource' = handleSource /\ handles' = handles \cup {new}
    BY <1>8, Zenon DEF Issues
  <2>2. new.generation = shared.generation /\ new.client = shared.currentClient
    BY Zenon
  <2> HIDE DEF new
  <2>3. shared.generation \in Nat /\ shared.generation <= shared.generation
    BY DEF Shapes
  <2>4. /\ new.generation \in Nat /\ new.generation <= shared.generation
        /\ new.generation = shared.generation => shared.currentClient \in {0, new.client}
    BY <2>2, <2>3, Zenon
  <2> QED BY <2>1, <2>4, Zenon DEF Generations
<1> QED BY <1>2, <1>3, <1>4, <1>5, <1>6, <1>7, <1>8 DEF Kinds

\* Every step keeps the invariant.
LEMMA SupervisedStep == Supervised /\ [Next]_vars => Supervised'
<1> SUFFICES ASSUME Supervised, [Next]_vars PROVE Supervised'
  OBVIOUS
<1>1. Shapes /\ ClientsByPhase /\ Generations
  BY DEF Supervised
<1>2. policy' = policy /\ Kinds
  BY <1>1, StepKinds
<1>3. Shapes'
  BY <1>1, <1>2, ShapesStep
<1>4. ClientsByPhase'
  BY <1>1, <1>2, ClientsStep
<1>5. Generations'
  BY <1>1, <1>2, GenerationsStep
<1> QED BY <1>3, <1>4, <1>5 DEF Supervised

LEMMA AlwaysSupervised == Spec => []Supervised
  BY SupervisedInit, SupervisedStep, PTL DEF Spec

-----------------------------------------------------------------------------

\* However connects are aborted, refused, interrupted by a reconnect() or by a
\* shutdown(): at most one AhpClient is open, it is the one connectOnce() works
\* with or runConnection() reads from, and none is left when the supervisor
\* waits or has exited.
THEOREM ClientsClosed == Spec => []NoClientLeft
<1>1. Supervised => NoClientLeft
  BY DEF Supervised, ClientsByPhase, NoClientLeft, Idle, Handshake
<1> QED BY <1>1, AlwaysSupervised, PTL

\* A HostClientHandle that passes checkAlive() is of the newest generation, and
\* acts on the client of that generation or on none.
THEOREM HandlesCurrent == Spec => []HandlesStayCurrent
<1>1. Supervised => HandlesStayCurrent
  BY DEF Supervised, Generations, HandlesStayCurrent, checkAlive
<1> QED BY <1>1, AlwaysSupervised, PTL

-----------------------------------------------------------------------------
(* The retries.                                                            *)

Connecting == {"factory"} \cup Handshake
Left       == {"running", "closing", "closingManual", "closingShutdown"}

\* The supervisor's counter is the connects of the tally, and the one under way.
CountsTally ==
    /\ attempt \in Nat /\ policy \in Policies
    /\ tally \in [failures : Nat, before : Nat]
    /\ pc \in Connecting \cup Left \cup {"new", "sleeping", "failed", "exited"}
    /\ pc = "closingShutdown" => ShutDown
    /\ pc = "new" => attempt = 0 /\ tally.failures = 0 /\ tally.before = 0
    /\ pc \in Connecting => attempt = tally.before + tally.failures + 1
    /\ pc \in {"sleeping", "failed"} => attempt = tally.before + tally.failures /\ tally.failures > 0
    /\ pc \in Left => attempt = tally.before /\ tally.failures = 0

\* Where it stands against a limit.
WithinLimit ==
    policy.maxAttempts # Forever =>
        /\ pc \in Connecting => tally.failures = 0 \/ attempt <= policy.maxAttempts + 1
        /\ pc = "sleeping" => attempt <= policy.maxAttempts
        /\ pc = "failed" => attempt > policy.maxAttempts

\* What a step does to the counter and the tally.
SameCount == attempt' = attempt /\ tally' = tally
Waits     == SameCount /\ pc' = pc /\ (ShutDown => ShutDown')
Proceeds  == SameCount /\ pc \in Connecting /\ pc' \in Connecting
StartsOver == pc' = "factory" /\ attempt' = 1 /\ (tally' = NoTally \/ (pc = "new" /\ tally' = tally))
Retries   == /\ pc \in {"sleeping", "closing"} /\ pc' = "factory"
             /\ attempt' = attempt + 1 /\ tally' = tally
Fails     == /\ pc \in Connecting
             /\ \/ pc' = "failed" /\ attemptsExhausted(policy, attempt)
                \/ pc' = "sleeping" /\ ~attemptsExhausted(policy, attempt)
             /\ attempt' = attempt /\ tally' = [tally EXCEPT !.failures = @ + 1]
Succeeds  == /\ pc = "listing" /\ pc' = "running"
             /\ attempt' = IF policy.resetOnSuccess THEN 0 ELSE attempt
             /\ tally' = [failures |-> 0, before |-> IF policy.resetOnSuccess THEN 0
                                                     ELSE tally.before + tally.failures + 1]
Drops     == /\ SameCount /\ pc = "running"
             /\ \/ pc' \in {"closing", "closingManual"}
                \/ pc' = "closingShutdown" /\ ShutDown'
Exits     == pc' = "exited" /\ attempt' = attempt /\ tally' \in {tally, NoTally}
RetrySteps ==
    Exits \/ Waits \/ Proceeds \/ StartsOver \/ Retries \/ Fails \/ Succeeds \/ Drops

\* Going round the loop of runSupervisor().
LEMMA IterateCounts ==
    ASSUME NEW n, Iterate(n, shared)
    PROVE  \/ pc' = "exited" /\ attempt' = attempt /\ ShutDown
           \/ ~ShutDown /\ pc' = "factory" /\ attempt' = n + 1
  BY Zenon DEF Iterate

LEMMA FailureCounts ==
    ASSUME ConnectFailed, pc \in Connecting
    PROVE  Exits \/ StartsOver \/ Fails
<1>1. CASE ShutDown
  BY <1>1, Zenon DEF ConnectFailed, Iterate, Exits
<1>2. CASE ~ShutDown /\ manual
  <2>1. Iterate(0, shared) /\ tally' = NoTally
    BY <1>2, Zenon DEF ConnectFailed
  <2>2. pc' = "factory" /\ attempt' = 0 + 1
    BY <1>2, <2>1, Zenon DEF Iterate
  <2> QED BY <2>1, <2>2 DEF StartsOver
<1>3. CASE ~ShutDown /\ ~manual
  <2>1. attempt' = attempt /\ tally' = [tally EXCEPT !.failures = @ + 1]
    BY <1>3, Zenon DEF ConnectFailed
  <2>2. \/ pc' = "failed" /\ attemptsExhausted(policy, attempt)
        \/ pc' = "sleeping" /\ ~attemptsExhausted(policy, attempt)
    BY <1>3, Zenon DEF ConnectFailed
  <2> QED BY <2>1, <2>2, Zenon DEF Fails
<1> QED BY <1>1, <1>2, <1>3

\* shared keeps its reason to shut down.
LEMMA ShutdownKept ==
    ASSUME Shapes, [Next]_vars, pc' = pc, ShutDown
    PROVE  ShutDown'
<1>1. CASE UNCHANGED vars
  BY <1>1, Zenon DEF vars, ShutDown
<1>2. CASE \E u \in Uris : SubscribeAnswered(u)
  BY <1>2, Zenon DEF SubscribeAnswered, Shapes, ShutDown
<1>3. CASE \E u \in Uris : Unsubscribe(u)
  BY <1>3, Zenon DEF Unsubscribe, Shapes, ShutDown
<1>4. CASE \/ \E u \in Uris : SubscribeOffline(u) \/ SubscribeSent(u)
           \/ \E reason \in Reasons : Shutdown(reason)
           \/ Reconnect \/ GetHandle \/ FactoryOpens \/ ReconnectAnswered \/ InitializeAnswered
           \/ ReconnectRefused \/ \E ch \in Channels : ServerActs(ch)
           \/ \E s \in Sessions : ServerNotifies(s)
           \/ \E u \in Uris : ServerDeletes(u)
  BY <1>4, Zenon DEF SubscribeOffline, SubscribeSent, Shutdown, Reconnect, GetHandle, FactoryOpens,
     ReconnectAnswered, InitializeAnswered, Handshaken, ReconnectRefused, ServerActs,
     ServerNotifies, ServerDeletes, Cancelled
<1>5. CASE ConnectionEnds \/ HandshakeFails
  BY <1>5, Zenon DEF ConnectionEnds, HandshakeFails, supervisorVars, ShutDown
<1>6. CASE HandleEvent \/ FactoryFails \/ Connected
  BY <1>6, Zenon DEF HandleEvent, FactoryFails, Connected, Cancelled
<1>7. CASE Start \/ SleepElapses \/ WaitAborted \/ ClosingDone
  <2>1. Iterate(0, shared) \/ Iterate(attempt, shared)
    BY <1>7, Zenon DEF Start, SleepElapses, WaitAborted, ClosingDone
  <2>2. shared' = shared
    BY <2>1, Zenon DEF Iterate
  <2> QED BY <2>2, Zenon DEF ShutDown
<1>8. CASE ConnectAborted \/ AbortDone
  <2>1. shared' = shared
    BY <1>8, Zenon DEF ConnectAborted, AbortDone, ConnectFailed, Iterate
  <2> QED BY <2>1, Zenon DEF ShutDown
<1>9. CASE ConnectionLeft
  BY <1>9, Zenon DEF ConnectionLeft, TearDown, Shapes, ShutDown
<1> QED
  BY <1>1, <1>2, <1>3, <1>4, <1>5, <1>6, <1>7, <1>8, <1>9, Zenon DEF Next, Supervisor

\* Every step does one of these.
LEMMA StepCounts ==
    ASSUME Shapes, [Next]_vars, pc = "closingShutdown" => ShutDown
    PROVE  RetrySteps
<1> USE DEF RetrySteps
<1>1. ASSUME SameCount, pc' = pc PROVE RetrySteps
  BY <1>1, ShutdownKept DEF Waits
<1>2. CASE Start
  <2>1. (pc' = "exited" /\ attempt' = attempt) \/ (pc' = "factory" /\ attempt' = 0 + 1)
    BY <1>2, IterateCounts, Zenon DEF Start
  <2>2. pc = "new" /\ tally' = tally
    BY <1>2, Zenon DEF Start
  <2> QED BY <2>1, <2>2 DEF StartsOver, Exits
<1>3. CASE SleepElapses
  <2>1. (pc' = "exited" /\ attempt' = attempt) \/ (pc' = "factory" /\ attempt' = attempt + 1)
    BY <1>3, IterateCounts, Zenon DEF SleepElapses
  <2>2. pc = "sleeping" /\ tally' = tally
    BY <1>3, Zenon DEF SleepElapses
  <2> QED BY <2>1, <2>2, Zenon DEF Retries, Exits
<1>4. CASE WaitAborted
  <2>1. (pc' = "exited" /\ attempt' = attempt) \/ (~ShutDown /\ pc' = "factory" /\ attempt' = 0 + 1)
    BY <1>4, IterateCounts, Zenon DEF WaitAborted
  <2>2. tally' = IF ShutDown THEN tally ELSE NoTally
    BY <1>4, Zenon DEF WaitAborted
  <2> QED BY <2>1, <2>2 DEF StartsOver, Exits
<1>5. CASE ConnectAborted \/ FactoryFails \/ AbortDone
  <2>1. ConnectFailed /\ pc \in Connecting
    BY <1>5, Zenon DEF ConnectAborted, FactoryFails, AbortDone, Connecting, Handshake
  <2> QED BY <2>1, FailureCounts
<1>6. CASE HandshakeFails \/ ReconnectAnswered \/ InitializeAnswered \/ ReconnectRefused
           \/ FactoryOpens
  <2>1. SameCount /\ pc \in Connecting /\ pc' \in Connecting
    BY <1>6, Zenon DEF HandshakeFails, ReconnectAnswered, InitializeAnswered, Handshaken,
       ReconnectRefused, FactoryOpens, Connecting, Handshake, SameCount
  <2> QED BY <2>1, Zenon DEF Proceeds
<1>7. CASE Connected
  BY <1>7, Zenon DEF Connected, Succeeds
<1>8. CASE ConnectionLeft
  <2>1. SameCount /\ pc = "running" /\ shared' = [shared EXCEPT !.currentClient = 0]
        /\ pc' = (IF ShutDown THEN "closingShutdown" ELSE IF manual THEN "closingManual" ELSE "closing")
    BY <1>8, Zenon DEF ConnectionLeft, TearDown, SameCount
  <2>2. ShutDown => ShutDown'
    BY <2>1, Zenon DEF Shapes, ShutDown
  <2> QED BY <2>1, <2>2, Zenon DEF Drops
<1>9. CASE ClosingDone
  <2>1. CASE pc = "closing"
    <3>1. (pc' = "exited" /\ attempt' = attempt) \/ (pc' = "factory" /\ attempt' = attempt + 1)
      BY <1>9, <2>1, IterateCounts, Zenon DEF ClosingDone
    <3>2. tally' = tally
      BY <1>9, <2>1 DEF ClosingDone
    <3> QED BY <2>1, <3>1, <3>2, Zenon DEF Retries, Exits
  <2>2. CASE pc = "closingManual"
    <3>1. (pc' = "exited" /\ attempt' = attempt) \/ (pc' = "factory" /\ attempt' = 0 + 1)
      BY <1>9, <2>2, IterateCounts DEF ClosingDone
    <3>2. tally' = NoTally
      BY <1>9, <2>2, Zenon DEF ClosingDone
    <3> QED BY <3>1, <3>2 DEF StartsOver, Exits
  <2>3. CASE pc = "closingShutdown"
    <3>1. Iterate(0, shared) /\ tally' = tally
      BY <1>9, <2>3 DEF ClosingDone
    <3>2. pc' = "exited" /\ attempt' = attempt
      BY <2>3, <3>1, IterateCounts, Zenon
    <3> QED BY <3>1, <3>2 DEF Exits
  <2> QED BY <1>9, <2>1, <2>2, <2>3, Zenon DEF ClosingDone
<1>10. CASE \/ HandleEvent \/ Reconnect \/ GetHandle
            \/ \E reason \in Reasons : Shutdown(reason)
            \/ \E u \in Uris : \/ SubscribeOffline(u) \/ SubscribeSent(u) \/ SubscribeAnswered(u)
                               \/ Unsubscribe(u)
            \/ \E ch \in Channels : ServerActs(ch)
            \/ \E s \in Sessions : ServerNotifies(s)
            \/ \E u \in Uris : ServerDeletes(u)
            \/ ConnectionEnds \/ UNCHANGED vars
  <2>1. SameCount /\ pc' = pc
    BY <1>10, Zenon DEF HandleEvent, Reconnect, GetHandle, Shutdown, SubscribeOffline,
       SubscribeSent, SubscribeAnswered, Unsubscribe, ServerActs, ServerNotifies, ServerDeletes,
       ConnectionEnds, vars, supVars, callVars, supervisorVars, SameCount
  <2> QED BY <1>1, <2>1
<1> QED
  BY <1>2, <1>3, <1>4, <1>5, <1>6, <1>7, <1>8, <1>9, <1>10, Zenon DEF Next, Supervisor

\* A limit on the retries is a number.
LEMMA RetryLimit ==
    ASSUME policy \in Policies, policy.maxAttempts # Forever
    PROVE  policy.maxAttempts \in Nat
  BY PolicyAssumption, Zenon

LEMMA CountsStep ==
    ASSUME Shapes, CountsTally, WithinLimit, [Next]_vars
    PROVE  CountsTally' /\ WithinLimit'
<1>1. policy' = policy /\ RetrySteps
  BY StepKinds, StepCounts, Zenon DEF CountsTally
<1> DEFINE f == tally.failures
           b == tally.before
           max == policy.maxAttempts
           reset == policy.resetOnSuccess
           All == Connecting \cup Left \cup {"new", "sleeping", "failed", "exited"}
<1>2. attempt \in Nat /\ policy \in Policies /\ f \in Nat /\ b \in Nat /\ pc \in All
  BY DEF CountsTally
<1>3. tally = [failures |-> f, before |-> b]
  BY DEF CountsTally
<1>4. /\ pc = "closingShutdown" => ShutDown
      /\ pc = "new" => attempt = 0 /\ f = 0 /\ b = 0
      /\ pc \in Connecting => attempt = b + f + 1
      /\ pc \in {"sleeping", "failed"} => attempt = b + f /\ f > 0
      /\ pc \in Left => attempt = b /\ f = 0
  BY Zenon DEF CountsTally
<1>5. max # Forever =>
        /\ max \in Nat
        /\ pc \in Connecting => f = 0 \/ attempt <= max + 1
        /\ pc = "sleeping" => attempt <= max
        /\ pc = "failed" => attempt > max
  BY RetryLimit, <1>2, Zenon DEF WithinLimit
<1>6. attemptsExhausted(policy, attempt) <=> (max # Forever /\ attempt > max)
  BY Zenon DEF attemptsExhausted
<1> HIDE DEF f, b, max, reset
\* It is enough to know the new tally, counter and await.
<1>7. ASSUME NEW g \in Nat, NEW c \in Nat, tally' = [failures |-> g, before |-> c],
             attempt' \in Nat, pc' \in All, pc' = "closingShutdown" => ShutDown',
             pc' = "new" => attempt' = 0 /\ g = 0 /\ c = 0,
             pc' \in Connecting => attempt' = c + g + 1,
             pc' \in {"sleeping", "failed"} => attempt' = c + g /\ g > 0,
             pc' \in Left => attempt' = c /\ g = 0,
             max # Forever => /\ pc' \in Connecting => g = 0 \/ attempt' <= max + 1
                              /\ pc' = "sleeping" => attempt' <= max
                              /\ pc' = "failed" => attempt' > max
      PROVE  CountsTally' /\ WithinLimit'
  <2>1. tally'.failures = g /\ tally'.before = c /\ tally' \in [failures : Nat, before : Nat]
    BY <1>7
  <2>2. CountsTally'
    BY <1>1, <1>2, <1>7, <2>1, Zenon DEF CountsTally
  <2>3. WithinLimit'
    BY <1>1, <1>7, <2>1, Zenon DEF WithinLimit, max
  <2> QED BY <2>2, <2>3
<1> USE DEF Connecting, Handshake, Left
<1>8. CASE Exits
  <2>1. PICK g, c \in Nat : tally' = [failures |-> g, before |-> c]
    BY <1>2, <1>3, <1>8 DEF Exits, NoTally
  <2>2. pc' = "exited" /\ attempt' = attempt
    BY <1>8 DEF Exits
  <2> QED BY <1>2, <1>7, <2>1, <2>2
<1>9. CASE Waits
  <2>1. attempt' = attempt /\ tally' = tally /\ pc' = pc /\ (ShutDown => ShutDown')
    BY <1>9 DEF Waits, SameCount
  <2> QED BY <1>2, <1>3, <1>4, <1>5, <1>7, <2>1
<1>10. CASE Proceeds
  <2>1. attempt' = attempt /\ tally' = tally /\ pc \in Connecting /\ pc' \in Connecting
    BY <1>10 DEF Proceeds, SameCount
  <2> QED BY <1>2, <1>3, <1>4, <1>5, <1>7, <2>1
<1>11. CASE StartsOver
  <2>1. pc' = "factory" /\ attempt' = 1
    BY <1>11 DEF StartsOver
  <2>2. tally' = [failures |-> 0, before |-> 0]
    BY <1>3, <1>4, <1>11 DEF StartsOver, NoTally
  <2> QED BY <1>2, <1>5, <1>7, <2>1, <2>2
<1>12. CASE Retries
  <2>1. pc \in {"sleeping", "closing"} /\ pc' = "factory" /\ attempt' = attempt + 1
        /\ tally' = [failures |-> f, before |-> b]
    BY <1>3, <1>12 DEF Retries
  <2>2. attempt = b + f /\ (pc = "closing" => f = 0)
    BY <1>2, <1>4, <2>1
  <2> QED BY <1>2, <1>5, <1>7, <2>1, <2>2
<1>13. CASE Fails
  <2>1. pc \in Connecting /\ attempt' = attempt /\ attempt = b + f + 1
    BY <1>4, <1>13 DEF Fails
  <2>2. tally' = [failures |-> f + 1, before |-> b]
    BY <1>2, <1>3, <1>13 DEF Fails
  <2>3. \/ pc' = "failed" /\ max # Forever /\ attempt > max
        \/ pc' = "sleeping" /\ ~(max # Forever /\ attempt > max)
    BY <1>6, <1>13, Zenon DEF Fails
  <2> QED BY <1>2, <1>5, <1>7, <2>1, <2>2, <2>3
<1>14. CASE Succeeds
  <2>1. pc \in Connecting /\ pc' = "running" /\ attempt = b + f + 1
    BY <1>4, <1>14 DEF Succeeds
  <2>2. CASE reset
    <3>1. attempt' = 0 /\ tally' = [failures |-> 0, before |-> 0]
      BY <1>14, <2>2 DEF Succeeds, reset
    <3> QED BY <1>7, <2>1, <3>1
  <2>3. CASE ~reset
    <3>1. attempt' = attempt /\ tally' = [failures |-> 0, before |-> b + f + 1]
      BY <1>14, <2>3 DEF Succeeds, reset, b, f
    <3> QED BY <1>2, <1>7, <2>1, <3>1
  <2> QED BY <2>2, <2>3
<1>15. CASE Drops
  <2>1. attempt' = attempt /\ tally' = tally /\ pc = "running"
        /\ (pc' \in {"closing", "closingManual"} \/ (pc' = "closingShutdown" /\ ShutDown'))
    BY <1>15 DEF Drops, SameCount
  <2> QED BY <1>2, <1>3, <1>4, <1>7, <2>1
<1> QED
  BY <1>1, <1>8, <1>9, <1>10, <1>11, <1>12, <1>13, <1>14, <1>15, Zenon DEF RetrySteps

LEMMA AlwaysCounts == Spec => [](CountsTally /\ WithinLimit)
<1>1. Init => CountsTally /\ WithinLimit
  <2> SUFFICES ASSUME Init PROVE CountsTally /\ WithinLimit
    OBVIOUS
  <2>1. pc = "new" /\ attempt = 0 /\ tally = [failures |-> 0, before |-> 0] /\ policy \in Policies
    BY DEF Init, NoTally
  <2> QED BY <2>1 DEF CountsTally, WithinLimit, Connecting, Handshake, Left
<1>2. Supervised /\ CountsTally /\ WithinLimit /\ [Next]_vars => (CountsTally /\ WithinLimit)'
  BY CountsStep DEF Supervised
<1> QED BY <1>1, <1>2, AlwaysSupervised, PTL DEF Spec

\* For every policy that limits its retries, runSupervisor() gives the host up
\* exactly when a connect fails and more than maxAttempts count, over any course
\* of connections, losses, manual reconnects and failures of the factory or of
\* the handshake, with and without resetOnSuccess.
THEOREM GivesUp == Spec => []GivesUpAsConfigured
<1>1. CountsTally /\ WithinLimit => GivesUpAsConfigured
  <2> SUFFICES ASSUME CountsTally, WithinLimit, policy.maxAttempts # Forever, pc # "exited"
               PROVE  pc = "failed" <=> /\ tally.failures > 0
                                        /\ tally.before + tally.failures > policy.maxAttempts
    BY DEF GivesUpAsConfigured
  <2>1. policy.maxAttempts \in Nat
    BY RetryLimit DEF CountsTally
  <2> QED BY <2>1 DEF CountsTally, WithinLimit, Connecting, Handshake, Left
<1> QED BY <1>1, AlwaysCounts, PTL

-----------------------------------------------------------------------------
(* The mirrored data.  What follows is about sequences of action numbers,   *)
(* for any log l of the server.                                             *)

\* An increasing sequence of numbers beyond `low` and up to `high`.
Increasing(s, low, high) ==
    /\ s \in Seq(Nat)
    /\ \A i \in 1..Len(s) : low < s[i] /\ s[i] <= high
    /\ \A i, j \in 1..Len(s) : i < j => s[i] < s[j]

\* The root actions of the log up to a number, each once and in order.
RootHistory(l, s, upTo) ==
    /\ Increasing(s, 0, upTo)
    /\ \A i \in 1..Len(s) : l[s[i]] = Root
    /\ \A n \in 1..upTo : l[n] = Root => \E i \in 1..Len(s) : s[i] = n

\* Actions that go on from a bookmark and leave out no root action.
Follows(l, s, from) ==
    /\ Increasing(s, from, Len(l))
    /\ \A i \in 1..Len(s) : \A n \in (from + 1)..s[i] :
          l[n] = Root => \E j \in 1..Len(s) : s[j] = n

\* The facts of an increasing sequence.
LEMMA IncreasingFacts ==
    ASSUME NEW s, NEW low, NEW high, Increasing(s, low, high)
    PROVE  /\ s \in Seq(Nat) /\ Len(s) \in Nat /\ DOMAIN s = 1..Len(s)
           /\ \A i \in 1..Len(s) : s[i] \in Nat
           /\ \A i \in 1..Len(s) : low < s[i] /\ s[i] <= high
           /\ \A i, j \in 1..Len(s) : i < j => s[i] < s[j]
<1>1. s \in Seq(Nat)
  BY DEF Increasing
<1>2. Len(s) \in Nat /\ DOMAIN s = 1..Len(s) /\ \A i \in 1..Len(s) : s[i] \in Nat
  BY ONLY <1>1
<1> QED BY <1>1, <1>2 DEF Increasing

\* The greatest of a set of numbers is the one that no other exceeds.
LEMMA MaxIs ==
    ASSUME NEW S \in SUBSET Int, NEW m \in S, \A n \in S : n <= m
    PROVE  Max(S) = m
<1>1. \A x \in S : (\A n \in S : x >= n) => x = m
  OBVIOUS
<1>2. \A n \in S : m >= n
  OBVIOUS
<1> QED BY <1>1, <1>2 DEF Max

\* The bookmark after some actions that follow it is the last one's number.
LEMMA Bookmark ==
    ASSUME NEW from \in Nat, NEW high \in Nat, from <= high, NEW s, Increasing(s, from, high)
    PROVE  /\ Max({from} \cup ToSet(s)) \in from..high
           /\ \A i \in 1..Len(s) : s[i] <= Max({from} \cup ToSet(s))
           /\ s = <<>> => Max({from} \cup ToSet(s)) = from
           /\ s # <<>> => /\ Len(s) \in 1..Len(s)
                          /\ Max({from} \cup ToSet(s)) = s[Len(s)]
<1> DEFINE S == {from} \cup ToSet(s)
<1>1. /\ s \in Seq(Nat) /\ Len(s) \in Nat /\ DOMAIN s = 1..Len(s)
      /\ \A i \in 1..Len(s) : s[i] \in Nat
      /\ \A i \in 1..Len(s) : from < s[i] /\ s[i] <= high
  BY IncreasingFacts
<1>0. /\ Len(s) \in Nat
      /\ \A i, j \in 1..Len(s) : i < j => s[i] < s[j]
  BY IncreasingFacts
<1>2. \A n : n \in S <=> n = from \/ \E i \in 1..Len(s) : n = s[i]
  BY <1>1 DEF ToSet
<1>3. S \in SUBSET Int
  BY <1>1, <1>2
<1>4. CASE s = <<>>
  <2>1. S = {from}
    BY <1>2, <1>4
  <2>2. Max(S) = from
    BY <1>3, <2>1, MaxIs
  <2> QED BY <1>4, <2>2
<1>5. CASE s # <<>>
  <2>1. Len(s) \in 1..Len(s)
    BY <1>1, <1>5, EmptySeq
  <2>2. s[Len(s)] \in S /\ s[Len(s)] \in Nat /\ from < s[Len(s)] /\ s[Len(s)] <= high
    BY <1>1, <1>2, <2>1
  <2>3. \A i \in 1..Len(s) : s[i] <= s[Len(s)]
    <3> SUFFICES ASSUME NEW i \in 1..Len(s) PROVE s[i] <= s[Len(s)]
      OBVIOUS
    <3>1. i \in 1..Len(s)
      OBVIOUS
    <3>2. i = Len(s) \/ i < Len(s)
      BY ONLY <1>0, <3>1
    <3>3. i < Len(s) => s[i] < s[Len(s)]
      BY ONLY <1>0, <2>1, <3>1
    <3>4. s[i] \in Nat
      BY <1>1, <3>1
    <3> QED BY ONLY <2>2, <3>2, <3>3, <3>4
  <2>4. \A n \in S : n <= s[Len(s)]
    BY <1>2, <2>2, <2>3
  <2>5. Max(S) = s[Len(s)]
    BY <1>3, <2>2, <2>4, MaxIs
  <2>6. s[Len(s)] \in from..high
    BY ONLY <2>2, from \in Nat, high \in Nat
  <2> QED BY <1>5, <2>1, <2>3, <2>5, <2>6
<1> QED BY <1>4, <1>5

\* What is kept of numbers that follow a bookmark: those of the root actions.
LEMMA KeptNumbers ==
    ASSUME NEW s, NEW low, NEW high, Increasing(s, low, high), NEW S
    PROVE  /\ Increasing(Kept(s, S), low, high)
           /\ \A i \in 1..Len(Kept(s, S)) : Kept(s, S)[i] \in S
           /\ \A j \in 1..Len(s) : s[j] \in S =>
                 \E i \in 1..Len(Kept(s, S)) : Kept(s, S)[i] = s[j]
<1> DEFINE k == Kept(s, S)
<1>1. /\ s \in Seq(Nat)
      /\ \A i \in 1..Len(s) : low < s[i] /\ s[i] <= high
      /\ \A i, j \in 1..Len(s) : i < j => s[i] < s[j]
  BY DEF Increasing
<1>2. k \in Seq(Nat)
  BY <1>1, KeptIndex
<1>3. /\ \A i \in 1..Len(k) : k[i] \in S /\ \E j \in 1..Len(s) : s[j] = k[i]
      /\ \A j \in 1..Len(s) : s[j] \in S => \E i \in 1..Len(k) : k[i] = s[j]
  BY <1>1, KeptElements
<1>4. \A i, j \in 1..Len(k) : i < j => k[i] < k[j]
  BY <1>1, KeptIncreasing
<1> HIDE DEF k
<1>5. \A i \in 1..Len(k) : low < k[i] /\ k[i] <= high
  BY <1>1, <1>3
<1>6. Increasing(k, low, high)
  BY <1>2, <1>4, <1>5 DEF Increasing
<1> QED BY <1>3, <1>6 DEF k

\* Numbers beyond those of another sequence are put behind them.
LEMMA IncreasingConcat ==
    ASSUME NEW low \in Nat, NEW mid \in Nat, NEW high \in Nat, low <= mid, mid <= high,
           NEW s, Increasing(s, low, mid), NEW t, Increasing(t, mid, high)
    PROVE  Increasing(s \o t, low, high)
<1> DEFINE c == s \o t
<1>1. /\ s \in Seq(Nat) /\ t \in Seq(Nat) /\ Len(s) \in Nat
      /\ \A i \in 1..Len(s) : s[i] \in Nat /\ low < s[i] /\ s[i] <= mid
      /\ \A i \in 1..Len(t) : t[i] \in Nat /\ mid < t[i] /\ t[i] <= high
  BY IncreasingFacts, Zenon
<1>2. \A i, j \in 1..Len(s) : i < j => s[i] < s[j]
  BY IncreasingFacts, Zenon
<1>3. \A i, j \in 1..Len(t) : i < j => t[i] < t[j]
  BY IncreasingFacts, Zenon
<1>0. low \in Nat /\ mid \in Nat /\ high \in Nat /\ low <= mid /\ mid <= high
  OBVIOUS
<1>4. /\ c \in Seq(Nat) /\ Len(c) = Len(s) + Len(t)
      /\ \A i \in 1..Len(s) : i \in 1..Len(c) /\ c[i] = s[i]
      /\ \A i \in 1..Len(t) : Len(s) + i \in 1..Len(c) /\ c[Len(s) + i] = t[i]
      /\ \A i \in 1..Len(c) : i \in 1..Len(s) \/ i - Len(s) \in 1..Len(t)
  BY <1>1, ConcatFacts
<1> HIDE DEF c
<1>5. \A i \in 1..Len(c) : \/ i \in 1..Len(s) /\ c[i] = s[i]
                           \/ /\ i - Len(s) \in 1..Len(t) /\ c[i] = t[i - Len(s)]
                              /\ i > Len(s)
  <2> SUFFICES ASSUME NEW i \in 1..Len(c), ~(i \in 1..Len(s))
               PROVE  i - Len(s) \in 1..Len(t) /\ c[i] = t[i - Len(s)] /\ i > Len(s)
    BY <1>4
  <2>1. i - Len(s) \in 1..Len(t)
    BY <1>4
  <2>2. Len(s) + (i - Len(s)) = i
    BY <1>1
  <2>3. c[Len(s) + (i - Len(s))] = t[i - Len(s)]
    BY <1>4, <2>1
  <2> QED BY <1>1, <2>1, <2>2, <2>3
<1>6. ASSUME NEW i \in 1..Len(c) PROVE low < c[i] /\ c[i] <= high
  <2>1. \/ c[i] \in Nat /\ low < c[i] /\ c[i] <= mid
        \/ c[i] \in Nat /\ mid < c[i] /\ c[i] <= high
    BY <1>1, <1>5, Zenon
  <2> QED BY ONLY <1>0, <2>1
<1>7. ASSUME NEW i \in 1..Len(c), NEW j \in 1..Len(c), i < j PROVE c[i] < c[j]
  <2>1. CASE j \in 1..Len(s) /\ c[j] = s[j]
    <3>1. \/ i \in 1..Len(s) /\ c[i] = s[i]
          \/ i > Len(s) /\ i - Len(s) \in 1..Len(t)
      BY <1>5
    <3>2. Len(s) \in Nat /\ i < j /\ j \in 1..Len(s)
      BY <1>1, <1>7, <2>1
    <3>3. i \in 1..Len(s) /\ c[i] = s[i]
      BY ONLY <3>1, <3>2, Len(c) \in Nat, i \in 1..Len(c)
    <3> QED BY <1>2, <1>7, <2>1, <3>3
  <2>2. CASE j - Len(s) \in 1..Len(t) /\ c[j] = t[j - Len(s)] /\ j > Len(s)
    <3>1. CASE i \in 1..Len(s) /\ c[i] = s[i]
      <4>1. c[i] \in Nat /\ c[i] <= mid
        BY <1>1, <3>1, Zenon
      <4>2. c[j] \in Nat /\ mid < c[j]
        BY <1>1, <2>2, Zenon
      <4> QED BY ONLY <1>0, <4>1, <4>2
    <3>2. CASE i - Len(s) \in 1..Len(t) /\ c[i] = t[i - Len(s)] /\ i > Len(s)
      <4>1. i - Len(s) < j - Len(s)
        BY <1>1, <1>7
      <4> QED BY <1>3, <2>2, <3>2, <4>1
    <3> QED BY <1>5, <3>1, <3>2
  <2> QED BY <1>5, <2>1, <2>2
<1> QED BY <1>4, <1>6, <1>7 DEF Increasing, c

\* applyEnvelopeLocally() turns the root history up to the bookmark into the one
\* up to the new bookmark, when the actions applied follow the bookmark.
LEMMA HistoryExtends ==
    ASSUME NEW l \in Seq(Channels), NEW from \in 0..Len(l), NEW r, RootHistory(l, r, from),
           NEW s, Follows(l, s, from)
    PROVE  RootHistory(l, r \o Kept(s, {i \in 1..Len(l) : l[i] \in {Root}}),
                       Max({from} \cup ToSet(s)))
<1> DEFINE S == {i \in 1..Len(l) : l[i] \in {Root}}
           k == Kept(s, S)
           m == Max({from} \cup ToSet(s))
           c == r \o k
<1>1. Len(l) \in Nat /\ from \in Nat /\ from <= Len(l)
  OBVIOUS
<1>2. Increasing(s, from, Len(l)) /\ Increasing(r, 0, from)
  BY DEF Follows, RootHistory
<1>3. /\ m \in from..Len(l)
      /\ \A i \in 1..Len(s) : s[i] <= m
      /\ s = <<>> => m = from
      /\ s # <<>> => Len(s) \in 1..Len(s) /\ m = s[Len(s)]
  BY <1>1, <1>2, Bookmark
<1>4. Increasing(s, from, m)
  BY <1>2, <1>3 DEF Increasing
<1>5. /\ Increasing(k, from, m)
      /\ \A i \in 1..Len(k) : k[i] \in S
      /\ \A j \in 1..Len(s) : s[j] \in S => \E i \in 1..Len(k) : k[i] = s[j]
  <2> HIDE DEF S, m
  <2> QED BY <1>4, KeptNumbers
<1> HIDE DEF m, k
<1>6. m \in Nat /\ from <= m /\ m <= Len(l)
  BY <1>1, <1>3
<1>7. Increasing(c, 0, m)
  BY <1>1, <1>2, <1>5, <1>6, IncreasingConcat
<1>8. r \in Seq(Nat) /\ k \in Seq(Nat)
  BY <1>2, <1>5 DEF Increasing
<1>9. /\ \A i \in 1..Len(r) : i \in 1..Len(c) /\ c[i] = r[i]
      /\ \A i \in 1..Len(k) : Len(r) + i \in 1..Len(c) /\ c[Len(r) + i] = k[i]
      /\ \A i \in 1..Len(c) : i \in 1..Len(r) \/ i - Len(r) \in 1..Len(k)
      /\ Len(r) \in Nat /\ c \in Seq(Nat)
  BY ONLY <1>8, ConcatFacts
<1> HIDE DEF c
<1>10. ASSUME NEW i \in 1..Len(c) PROVE l[c[i]] = Root
  <2>1. CASE i \in 1..Len(r)
    <3>1. c[i] = r[i]
      BY <1>9, <2>1
    <3> QED BY <2>1, <3>1 DEF RootHistory
  <2>2. CASE i - Len(r) \in 1..Len(k)
    <3>1. Len(r) + (i - Len(r)) = i
      BY <1>9
    <3>2. c[i] = k[i - Len(r)]
      BY <1>9, <2>2, <3>1
    <3> QED BY <1>5, <2>2, <3>2
  <2> QED BY <1>9, <2>1, <2>2
<1>11. ASSUME NEW n \in 1..m, l[n] = Root PROVE \E i \in 1..Len(c) : c[i] = n
  <2>1. CASE n <= from
    <3>1. PICK i \in 1..Len(r) : r[i] = n
      BY <1>1, <1>11, <2>1 DEF RootHistory
    <3> QED BY <1>9, <3>1
  <2>2. CASE n > from
    <3>1. s # <<>> /\ n \in (from + 1)..m
      BY <1>1, <1>3, <1>6, <2>2
    <3>2. Len(s) \in 1..Len(s) /\ n \in (from + 1)..s[Len(s)]
      BY <1>3, <3>1
    <3>3. PICK j \in 1..Len(s) : s[j] = n
      BY <1>11, <3>2 DEF Follows
    <3>4. s[j] \in S
      BY <1>6, <1>11, <3>3
    <3>5. PICK i \in 1..Len(k) : k[i] = n
      BY <1>5, <3>3, <3>4
    <3> QED BY <1>9, <3>5
  <2> QED BY <1>1, <1>6, <2>1, <2>2
<1>12. RootHistory(l, c, m)
  BY <1>7, <1>10, <1>11 DEF RootHistory
<1> QED BY <1>12 DEF c, k, m

\* The server's root state is the root history.
LEMMA RootStateIsHistory ==
    ASSUME NEW l \in Seq(Channels), NEW n \in 0..Len(l)
    PROVE  RootHistory(l, Kept([i \in 1..n |-> i], {i \in 1..Len(l) : l[i] \in {Root}}), n)
<1> DEFINE S == {i \in 1..Len(l) : l[i] \in {Root}}
           s == [i \in 1..n |-> i]
           k == Kept(s, S)
<1>1. Len(l) \in Nat /\ n \in Nat /\ n <= Len(l)
  OBVIOUS
<1>2. s \in Seq(Nat) /\ Len(s) = n /\ \A i \in 1..n : s[i] = i
  BY <1>1
<1> HIDE DEF s
<1>3. Increasing(s, 0, n)
  BY <1>1, <1>2 DEF Increasing
<1>4. /\ Increasing(k, 0, n)
      /\ \A i \in 1..Len(k) : k[i] \in S
      /\ \A j \in 1..Len(s) : s[j] \in S => \E i \in 1..Len(k) : k[i] = s[j]
  <2> HIDE DEF S
  <2> QED BY <1>3, KeptNumbers
<1> HIDE DEF k
<1>5. \A i \in 1..Len(k) : l[k[i]] = Root
  BY <1>4
<1>6. ASSUME NEW j \in 1..n, l[j] = Root PROVE \E i \in 1..Len(k) : k[i] = j
  <2>1. j \in 1..Len(s) /\ s[j] = j /\ j \in S
    BY <1>1, <1>2, <1>6
  <2> QED BY <1>4, <2>1
<1>7. RootHistory(l, k, n)
  BY <1>4, <1>5, <1>6 DEF RootHistory
<1> QED BY <1>7 DEF k, s

\* What the server replays follows the bookmark, up to the end of the log.
LEMMA ReplayFollows ==
    ASSUME NEW l \in Seq(Channels), NEW from \in 0..Len(l), NEW subs, Root \in subs,
           NEW s, s = Kept([i \in 1..Len(l) |-> i],
                           {i \in {j \in 1..Len(l) : l[j] \in subs} : i > from})
    PROVE  /\ Follows(l, s, from)
           /\ \A n \in (Max({from} \cup ToSet(s)) + 1)..Len(l) : l[n] # Root
<1> DEFINE S == {i \in {j \in 1..Len(l) : l[j] \in subs} : i > from}
           a == [i \in 1..Len(l) |-> i]
           m == Max({from} \cup ToSet(s))
<1>1. Len(l) \in Nat /\ from \in Nat /\ from <= Len(l)
  OBVIOUS
<1>2. a \in Seq(Nat) /\ Len(a) = Len(l) /\ \A i \in 1..Len(l) : a[i] = i
  BY <1>1
<1> HIDE DEF a
<1>3. Increasing(a, 0, Len(l))
  BY <1>1, <1>2 DEF Increasing
<1>4. s = Kept(a, S)
  BY DEF a
<1>5. /\ Increasing(s, 0, Len(l))
      /\ \A i \in 1..Len(s) : s[i] \in S
      /\ \A j \in 1..Len(a) : a[j] \in S => \E i \in 1..Len(s) : s[i] = a[j]
  <2> HIDE DEF S
  <2>1. /\ Increasing(Kept(a, S), 0, Len(l))
        /\ \A i \in 1..Len(Kept(a, S)) : Kept(a, S)[i] \in S
        /\ \A j \in 1..Len(a) : a[j] \in S =>
              \E i \in 1..Len(Kept(a, S)) : Kept(a, S)[i] = a[j]
    BY ONLY <1>3, KeptNumbers
  <2> QED BY ONLY <1>4, <2>1
<1>6. Increasing(s, from, Len(l))
  BY <1>5 DEF Increasing
<1>7. ASSUME NEW n \in (from + 1)..Len(l), l[n] = Root PROVE \E j \in 1..Len(s) : s[j] = n
  <2>1. n \in 1..Len(a) /\ a[n] = n /\ n \in S
    BY <1>1, <1>2, <1>7
  <2> QED BY <1>5, <2>1
<1>8. \A i \in 1..Len(s) : s[i] \in Nat /\ s[i] <= Len(l)
  BY <1>5 DEF Increasing
<1>9. Follows(l, s, from)
  <2>1. ASSUME NEW i \in 1..Len(s), NEW n \in (from + 1)..s[i], l[n] = Root
        PROVE  \E j \in 1..Len(s) : s[j] = n
    <3>1. n \in (from + 1)..Len(l)
      BY <1>1, <1>8
    <3> QED BY <1>7, <2>1, <3>1
  <2> QED BY <1>6, <2>1 DEF Follows
<1>10. m \in from..Len(l) /\ \A i \in 1..Len(s) : s[i] <= m
  BY <1>1, <1>6, Bookmark
<1> HIDE DEF m
<1>11. ASSUME NEW n \in (m + 1)..Len(l), l[n] = Root PROVE FALSE
  <2>1. n \in (from + 1)..Len(l) /\ n > m
    BY <1>1, <1>10
  <2>2. PICK j \in 1..Len(s) : s[j] = n
    BY <1>7, <1>11, <2>1
  <2> QED BY <1>8, <1>10, <2>1, <2>2
<1> QED BY <1>9, <1>11 DEF m

-----------------------------------------------------------------------------
(* What client.events() has not yielded yet, for any log l of the server.   *)

\* What it yields.
Event == [type : {"action"}, seq : 1..MaxSeq]
            \cup [type : {"sessionAdded", "sessionRemoved"}, session : Sessions]

\* The buffered actions go on from a bookmark and leave out no root action; an
\* open connection has brought all there are.
Actions(ev) == {k \in 1..Len(ev) : ev[k].type = "action"}
Brought(ev, n) == \E k \in Actions(ev) : ev[k].seq = n
Buffers(l, ev, from, open) ==
    /\ \A k \in Actions(ev) : from < ev[k].seq /\ ev[k].seq <= Len(l)
    /\ \A k, m \in Actions(ev) : k < m => ev[k].seq < ev[m].seq
    /\ \A k \in Actions(ev) : \A n \in (from + 1)..ev[k].seq : l[n] = Root => Brought(ev, n)
    /\ open => \A n \in (from + 1)..Len(l) : l[n] = Root => Brought(ev, n)

\* The last buffered notification about a session agrees with the server's
\* sessions, and without one the summary does.
About(ev, s) == {k \in 1..Len(ev) : ev[k].type # "action" /\ ev[k].session = s}
LastAgrees(ev, s, there) ==
    \A k \in About(ev, s) : (\A m \in About(ev, s) : m <= k) =>
        (ev[k].type = "sessionAdded" <=> s \in there)
SummaryAgrees(ev, s, summaries, there) ==
    About(ev, s) = {} => (s \in summaries <=> s \in there)

\* One more element.
LEMMA AppendFacts ==
    ASSUME NEW T, NEW s \in Seq(T), NEW e \in T
    PROVE  /\ Append(s, e) \in Seq(T) /\ Len(s) \in Nat /\ Len(Append(s, e)) = Len(s) + 1
           /\ Len(s) + 1 \in 1..Len(Append(s, e)) /\ Append(s, e)[Len(s) + 1] = e
           /\ \A i \in 1..Len(s) : i \in 1..Len(Append(s, e)) /\ Append(s, e)[i] = s[i]
           /\ \A i \in 1..Len(Append(s, e)) : i \in 1..Len(s) \/ i = Len(s) + 1
<1> DEFINE a == Append(s, e)
           n == Len(s)
<1>1. /\ a \in Seq(T) /\ Len(a) = n + 1 /\ n \in Nat
      /\ \A i \in 1..n : a[i] = s[i]
      /\ a[n + 1] = e
  BY AppendProperties
<1> HIDE DEF a, n
<1>2. /\ n + 1 \in 1..(n + 1) /\ \A i \in 1..n : i \in 1..(n + 1)
      /\ \A i \in 1..(n + 1) : i \in 1..n \/ i = n + 1
  BY ONLY <1>1
<1> QED BY <1>1, <1>2 DEF a, n

LEMMA EventTypes ==
    ASSUME NEW e \in Event
    PROVE  /\ e.type = "action" => e.seq \in 1..MaxSeq
           /\ e.type # "action" => /\ e.type \in {"sessionAdded", "sessionRemoved"}
                                   /\ e.session \in Sessions
  BY DEF Event

LEMMA ActionNumbers ==
    ASSUME NEW ev \in Seq(Event)
    PROVE  /\ Len(ev) \in Nat
           /\ \A k \in Actions(ev) : k \in 1..Len(ev) /\ k \in Nat /\ ev[k].seq \in 1..MaxSeq
                                     /\ ev[k].seq \in Nat
<1>1. \A k \in 1..Len(ev) : ev[k] \in Event
  OBVIOUS
<1>2. Len(ev) \in Nat
  OBVIOUS
<1>3. 1..MaxSeq \subseteq Nat
  BY BoundAssumption
<1>4. \A k \in 1..Len(ev) : k \in Nat
  BY ONLY <1>2
<1> QED BY <1>1, <1>2, <1>3, <1>4, EventTypes, Zenon DEF Actions

\* The histories and the buffer when the server acts: its log has one more
\* action, of channel c.
LEMMA LogGrows ==
    ASSUME NEW l \in Seq(Channels), NEW c \in Channels
    PROVE  /\ Len(Append(l, c)) = Len(l) + 1 /\ Len(l) \in Nat
           /\ \A n \in 1..Len(l) : Append(l, c)[n] = l[n]
           /\ Append(l, c)[Len(l) + 1] = c
  BY AppendFacts

LEMMA HistoryKept ==
    ASSUME NEW l \in Seq(Channels), NEW c \in Channels,
           NEW r, NEW n \in 0..Len(l), RootHistory(l, r, n)
    PROVE  RootHistory(Append(l, c), r, n)
<1> DEFINE a == Append(l, c)
<1>1. Len(l) \in Nat /\ \A i \in 1..Len(l) : a[i] = l[i]
  BY LogGrows
<1> HIDE DEF a
<1>2. n \in 0..Len(l)
  OBVIOUS
<1>3. \A i \in 1..n : i \in 1..Len(l)
  BY ONLY <1>1, <1>2
<1>4. Increasing(r, 0, n)
  BY DEF RootHistory
<1>5. ASSUME NEW i \in 1..Len(r) PROVE a[r[i]] = Root
  <2>1. r[i] \in Nat /\ 0 < r[i] /\ r[i] <= n
    BY <1>4, IncreasingFacts
  <2>2. r[i] \in 1..n
    BY ONLY <1>1, <1>2, <2>1
  <2> QED BY <1>1, <1>3, <2>2 DEF RootHistory
<1>6. ASSUME NEW i \in 1..n, a[i] = Root PROVE \E j \in 1..Len(r) : r[j] = i
  <2>1. l[i] = Root
    BY <1>1, <1>3, <1>6
  <2> QED BY <2>1 DEF RootHistory
<1> QED BY <1>4, <1>5, <1>6 DEF RootHistory, a

LEMMA FollowsKept ==
    ASSUME NEW l \in Seq(Channels), NEW c \in Channels,
           NEW s, NEW from \in 0..Len(l), Follows(l, s, from)
    PROVE  Follows(Append(l, c), s, from)
<1> DEFINE a == Append(l, c)
<1>1. Len(l) \in Nat /\ Len(a) = Len(l) + 1 /\ \A i \in 1..Len(l) : a[i] = l[i]
  BY LogGrows
<1> HIDE DEF a
<1>2. from \in 0..Len(l)
  OBVIOUS
<1>3. /\ s \in Seq(Nat) /\ \A i \in 1..Len(s) : s[i] \in Nat
      /\ \A i \in 1..Len(s) : from < s[i] /\ s[i] <= Len(l)
      /\ \A i, j \in 1..Len(s) : i < j => s[i] < s[j]
  BY IncreasingFacts DEF Follows
<1>4. \A i \in 1..Len(s) : s[i] <= Len(a)
  BY <1>1, <1>3
<1>5. Increasing(s, from, Len(a))
  BY <1>3, <1>4 DEF Increasing
<1>6. ASSUME NEW i \in 1..Len(s), NEW n \in (from + 1)..s[i], a[n] = Root
      PROVE  \E j \in 1..Len(s) : s[j] = n
  <2>1. s[i] \in Nat /\ s[i] <= Len(l) /\ n \in (from + 1)..s[i]
    BY <1>3
  <2>2. n \in 1..Len(l)
    BY ONLY <1>1, <1>2, <2>1
  <2>3. l[n] = Root
    BY <1>1, <1>6, <2>2
  <2> QED BY <2>3 DEF Follows
<1> QED BY <1>5, <1>6 DEF Follows, a

\* An action nobody is told of: it is no root action, or the connection has
\* ended.
LEMMA BufferKept ==
    ASSUME NEW l \in Seq(Channels), NEW c \in Channels, NEW ev \in Seq(Event),
           NEW from \in 0..Len(l), NEW open, Buffers(l, ev, from, open),
           open => c # Root
    PROVE  Buffers(Append(l, c), ev, from, open)
<1> DEFINE a == Append(l, c)
<1>1. /\ Len(l) \in Nat /\ Len(a) = Len(l) + 1 /\ \A i \in 1..Len(l) : a[i] = l[i]
      /\ a[Len(l) + 1] = c
  BY LogGrows
<1> HIDE DEF a
<1>2. from \in 0..Len(l)
  OBVIOUS
<1>3. \A k \in Actions(ev) : from < ev[k].seq /\ ev[k].seq <= Len(l) /\ ev[k].seq \in Nat
  BY ActionNumbers DEF Buffers
<1>4. \A k \in Actions(ev) : from < ev[k].seq /\ ev[k].seq <= Len(a)
  BY <1>1, <1>3
<1>5. ASSUME NEW k \in Actions(ev), NEW n \in (from + 1)..ev[k].seq, a[n] = Root
      PROVE  Brought(ev, n)
  <2>1. ev[k].seq \in Nat /\ ev[k].seq <= Len(l) /\ n \in (from + 1)..ev[k].seq
    BY <1>3
  <2>2. n \in 1..Len(l)
    BY ONLY <1>1, <1>2, <2>1
  <2>3. l[n] = Root
    BY <1>1, <1>5, <2>2
  <2> QED BY <2>3 DEF Buffers
<1>6. ASSUME open, NEW n \in (from + 1)..Len(a), a[n] = Root
      PROVE  Brought(ev, n)
  <2>1. n \in (from + 1)..Len(a) /\ n # Len(l) + 1
    BY <1>1, <1>6
  <2>2. n \in 1..Len(l) /\ n \in (from + 1)..Len(l)
    BY ONLY <1>1, <1>2, <2>1
  <2>3. l[n] = Root
    BY <1>1, <1>6, <2>2
  <2> QED BY <1>6, <2>2, <2>3 DEF Buffers
<1>7. \A k, m \in Actions(ev) : k < m => ev[k].seq < ev[m].seq
  BY DEF Buffers
<1> QED BY <1>4, <1>5, <1>6, <1>7 DEF Buffers, a

\* What one more event does to the buffered actions, and to the notifications
\* about a session.
LEMMA OneMoreAction ==
    ASSUME NEW ev \in Seq(Event), NEW e \in Event
    PROVE  /\ \A k \in Actions(ev) : k \in Actions(Append(ev, e)) /\ Append(ev, e)[k] = ev[k]
           /\ \A k \in Actions(Append(ev, e)) :
                 \/ k \in Actions(ev) /\ Append(ev, e)[k] = ev[k]
                 \/ e.type = "action" /\ k = Len(ev) + 1 /\ Append(ev, e)[k] = e
           /\ e.type = "action" => Len(ev) + 1 \in Actions(Append(ev, e))
                                   /\ Append(ev, e)[Len(ev) + 1] = e
<1> DEFINE a == Append(ev, e)
           n == Len(ev)
<1>1. /\ n + 1 \in 1..Len(a) /\ a[n + 1] = e
      /\ \A i \in 1..n : i \in 1..Len(a) /\ a[i] = ev[i]
      /\ \A i \in 1..Len(a) : i \in 1..n \/ i = n + 1
  BY AppendFacts
<1> HIDE DEF a, n
<1>2. /\ \A k \in Actions(ev) : k \in Actions(a) /\ a[k] = ev[k]
      /\ \A k \in Actions(a) : \/ k \in Actions(ev) /\ a[k] = ev[k]
                               \/ e.type = "action" /\ k = n + 1 /\ a[k] = e
      /\ e.type = "action" => n + 1 \in Actions(a) /\ a[n + 1] = e
  BY <1>1, Zenon DEF Actions, n
<1> QED BY <1>2 DEF a, n

OneMoreAbout(s, ev, e, a) ==
    /\ \A k \in About(ev, s) : k \in About(a, s) /\ a[k] = ev[k]
    /\ \A k \in About(a, s) :
          \/ k \in About(ev, s) /\ a[k] = ev[k]
          \/ e.type # "action" /\ e.session = s /\ k = Len(ev) + 1 /\ a[k] = e
    /\ e.type # "action" /\ e.session = s => Len(ev) + 1 \in About(a, s)

LEMMA OneMoreNote ==
    ASSUME NEW ev \in Seq(Event), NEW e \in Event, NEW s \in Sessions
    PROVE  OneMoreAbout(s, ev, e, Append(ev, e))
<1> DEFINE a == Append(ev, e)
           n == Len(ev)
<1>1. /\ n + 1 \in 1..Len(a) /\ a[n + 1] = e
      /\ \A i \in 1..n : i \in 1..Len(a) /\ a[i] = ev[i]
      /\ \A i \in 1..Len(a) : i \in 1..n \/ i = n + 1
  BY AppendFacts
<1> HIDE DEF a, n
<1>2. /\ \A k \in About(ev, s) : k \in About(a, s) /\ a[k] = ev[k]
      /\ \A k \in About(a, s) :
            \/ k \in About(ev, s) /\ a[k] = ev[k]
            \/ e.type # "action" /\ e.session = s /\ k = n + 1 /\ a[k] = e
      /\ e.type # "action" /\ e.session = s => n + 1 \in About(a, s)
  BY <1>1, Zenon DEF About, n
<1> QED BY <1>2, Zenon DEF a, n, OneMoreAbout

\* An action that an open connection brings at once.
LEMMA BufferTakes ==
    ASSUME NEW l \in Seq(Channels), NEW c \in Channels, NEW ev \in Seq(Event),
           NEW from \in 0..Len(l), Buffers(l, ev, from, TRUE),
           NEW e \in Event, e.type = "action", e.seq = Len(l) + 1, NEW open
    PROVE  Buffers(Append(l, c), Append(ev, e), from, open)
<1> DEFINE a == Append(l, c)
           b == Append(ev, e)
<1>1. /\ Len(l) \in Nat /\ Len(a) = Len(l) + 1 /\ \A i \in 1..Len(l) : a[i] = l[i]
  BY LogGrows
<1>2. /\ \A k \in Actions(ev) : k \in Actions(b) /\ b[k] = ev[k]
      /\ \A k \in Actions(b) : (k \in Actions(ev) /\ b[k] = ev[k]) \/ (k = Len(ev) + 1 /\ b[k] = e)
      /\ Len(ev) + 1 \in Actions(b) /\ b[Len(ev) + 1] = e
  <2>1. /\ \A k \in Actions(ev) : k \in Actions(b) /\ b[k] = ev[k]
        /\ \A k \in Actions(b) : \/ k \in Actions(ev) /\ b[k] = ev[k]
                                 \/ e.type = "action" /\ k = Len(ev) + 1 /\ b[k] = e
        /\ e.type = "action" => Len(ev) + 1 \in Actions(b) /\ b[Len(ev) + 1] = e
    BY ONLY OneMoreAction, ev \in Seq(Event), e \in Event
  <2> HIDE DEF b
  <2> QED BY <2>1, Zenon
<1>3. /\ Len(ev) \in Nat
      /\ \A k \in Actions(ev) : k \in 1..Len(ev) /\ ev[k].seq \in Nat
  BY ActionNumbers
<1> HIDE DEF a, b
<1>4. /\ \A k \in Actions(ev) : from < ev[k].seq /\ ev[k].seq <= Len(l)
      /\ \A k, m \in Actions(ev) : k < m => ev[k].seq < ev[m].seq
      /\ \A n \in (from + 1)..Len(l) : l[n] = Root => Brought(ev, n)
  BY DEF Buffers
<1>5. from \in 0..Len(l)
  OBVIOUS
<1>6. ASSUME NEW k \in Actions(b)
      PROVE  b[k].seq \in Nat /\ from < b[k].seq /\ b[k].seq <= Len(a)
  <2>1. CASE k \in Actions(ev) /\ b[k] = ev[k]
    <3>1. b[k].seq \in Nat /\ from < b[k].seq /\ b[k].seq <= Len(l)
      BY <1>3, <1>4, <2>1
    <3> QED BY <1>1, <3>1
  <2>2. CASE b[k] = e
    BY <1>1, <1>5, <2>2
  <2> QED BY <1>2, <2>1, <2>2
<1>7. ASSUME NEW k \in Actions(b), NEW m \in Actions(b), k < m PROVE b[k].seq < b[m].seq
  <2>1. CASE k \in Actions(ev) /\ b[k] = ev[k] /\ m \in Actions(ev) /\ b[m] = ev[m]
    BY <1>4, <1>7, <2>1
  <2>2. CASE k \in Actions(ev) /\ b[k] = ev[k] /\ b[m] = e
    <3>1. b[k].seq \in Nat /\ b[k].seq <= Len(l)
      BY <1>3, <1>4, <2>2
    <3> QED BY <1>1, <2>2, <3>1
  <2>3. CASE k = Len(ev) + 1 /\ (m = Len(ev) + 1 \/ m \in Actions(ev))
    <3>1. m = Len(ev) + 1 \/ m \in 1..Len(ev)
      BY <1>3, <2>3
    <3>2. k = Len(ev) + 1 /\ Len(ev) \in Nat /\ k < m
      BY <1>3, <1>7, <2>3
    <3> QED BY ONLY <3>1, <3>2
  <2> QED BY <1>2, <2>1, <2>2, <2>3
<1>8. ASSUME NEW n \in (from + 1)..Len(a), a[n] = Root PROVE Brought(b, n)
  <2>1. n \in (from + 1)..Len(a)
    OBVIOUS
  <2>2. n = Len(l) + 1 \/ (n \in 1..Len(l) /\ n \in (from + 1)..Len(l))
    BY ONLY <1>1, <1>5, <2>1
  <2>3. CASE n = Len(l) + 1
    BY <1>2, <2>3 DEF Brought
  <2>4. CASE n \in 1..Len(l) /\ n \in (from + 1)..Len(l)
    <3>1. Brought(ev, n)
      BY <1>1, <1>4, <1>8, <2>4
    <3> QED BY <1>2, <3>1 DEF Brought
  <2> QED BY <2>2, <2>3, <2>4
<1>9. ASSUME NEW k \in Actions(b), NEW n \in (from + 1)..b[k].seq, a[n] = Root PROVE Brought(b, n)
  <2>1. b[k].seq \in Nat /\ b[k].seq <= Len(a) /\ n \in (from + 1)..b[k].seq
    BY <1>6
  <2>2. n \in (from + 1)..Len(a)
    BY ONLY <1>1, <1>5, <2>1
  <2> QED BY <1>8, <1>9, <2>2
<1> QED BY <1>6, <1>7, <1>8, <1>9 DEF Buffers, a, b

\* A notification leaves the buffered actions as they are.
LEMMA BufferIgnores ==
    ASSUME NEW l, NEW ev \in Seq(Event), NEW from, NEW open, Buffers(l, ev, from, open),
           NEW e \in Event, e.type # "action"
    PROVE  Buffers(l, Append(ev, e), from, open)
<1> DEFINE b == Append(ev, e)
<1>1. /\ \A k \in Actions(ev) : k \in Actions(b) /\ b[k] = ev[k]
      /\ \A k \in Actions(b) : k \in Actions(ev) /\ b[k] = ev[k]
  BY OneMoreAction
<1> HIDE DEF b
<1>2. \A n : Brought(b, n) <=> Brought(ev, n)
  BY <1>1, Zenon DEF Brought
<1>3. Buffers(l, b, from, open)
  BY <1>1, <1>2, Zenon DEF Buffers
<1> QED BY <1>3 DEF b

\* What handling the first event does to the buffered actions, and to the
\* notifications about a session.
LEMMA FirstAction ==
    ASSUME NEW ev \in Seq(Event), ev # <<>>
    PROVE  /\ Head(ev) = ev[1] /\ Head(ev) \in Event /\ Tail(ev) \in Seq(Event)
           /\ Head(ev).type = "action" => 1 \in Actions(ev)
           /\ \A k \in Actions(Tail(ev)) : k + 1 \in Actions(ev) /\ Tail(ev)[k] = ev[k + 1]
                                           /\ k \in Nat /\ 1 < k + 1
           /\ \A k \in Actions(ev) : \/ k = 1 /\ Head(ev).type = "action"
                                     \/ k - 1 \in Actions(Tail(ev)) /\ Tail(ev)[k - 1] = ev[k]
<1> DEFINE t == Tail(ev)
           h == Head(ev)
<1>1. /\ Len(ev) \in Nat /\ 1 \in 1..Len(ev) /\ h = ev[1]
      /\ t \in Seq(Event)
      /\ \A i \in 1..Len(t) : t[i] = ev[i + 1] /\ i + 1 \in 1..Len(ev) /\ 1 < i + 1
      /\ \A i \in 1..Len(ev) : i = 1 \/ (i - 1 \in 1..Len(t) /\ t[i - 1] = ev[i])
  BY TailFacts, Zenon
<1>2. ev[1] \in Event
  BY <1>1
<1> HIDE DEF t, h
<1>3. \A i \in 1..Len(t) : i \in Nat
  BY <1>1
<1>4. /\ h.type = "action" => 1 \in Actions(ev)
      /\ \A k \in Actions(t) : k + 1 \in Actions(ev) /\ t[k] = ev[k + 1] /\ k \in Nat /\ 1 < k + 1
      /\ \A k \in Actions(ev) : \/ k = 1 /\ h.type = "action"
                                \/ k - 1 \in Actions(t) /\ t[k - 1] = ev[k]
  BY <1>1, <1>3, Zenon DEF Actions
<1> QED BY <1>1, <1>2, <1>4, Zenon DEF t, h

LEMMA FirstNote ==
    ASSUME NEW ev \in Seq(Event), ev # <<>>, NEW s \in Sessions
    PROVE  /\ Head(ev) = ev[1]
           /\ Head(ev).type # "action" /\ Head(ev).session = s => 1 \in About(ev, s)
           /\ \A k \in About(Tail(ev), s) : k + 1 \in About(ev, s) /\ Tail(ev)[k] = ev[k + 1]
                                            /\ k \in Nat
           /\ \A k \in About(ev, s) :
                 \/ k = 1 /\ Head(ev).type # "action" /\ Head(ev).session = s
                 \/ k - 1 \in About(Tail(ev), s) /\ Tail(ev)[k - 1] = ev[k]
<1> DEFINE t == Tail(ev)
           h == Head(ev)
<1>1. /\ Len(ev) \in Nat /\ 1 \in 1..Len(ev) /\ h = ev[1]
      /\ t \in Seq(Event)
      /\ \A i \in 1..Len(t) : t[i] = ev[i + 1] /\ i + 1 \in 1..Len(ev) /\ 1 < i + 1
      /\ \A i \in 1..Len(ev) : i = 1 \/ (i - 1 \in 1..Len(t) /\ t[i - 1] = ev[i])
  BY TailFacts, Zenon
<1> HIDE DEF t, h
<1>2. \A i \in 1..Len(t) : i \in Nat
  BY <1>1
<1>3. h.type # "action" /\ h.session = s => 1 \in About(ev, s)
  BY <1>1, Zenon DEF About
<1>4. \A k \in About(t, s) : k + 1 \in About(ev, s) /\ t[k] = ev[k + 1] /\ k \in Nat
  BY <1>1, <1>2, Zenon DEF About
<1>5. \A k \in About(ev, s) : \/ k = 1 /\ h.type # "action" /\ h.session = s
                              \/ k - 1 \in About(t, s) /\ t[k - 1] = ev[k]
  BY <1>1, Zenon DEF About
<1> QED BY <1>1, <1>3, <1>4, <1>5, Zenon DEF t, h

\* The first event is an action: it follows the bookmark, and the rest goes on
\* from it.
LEMMA BufferHandled ==
    ASSUME NEW l \in Seq(Channels), NEW from \in 0..Len(l), NEW open,
           NEW ev \in Seq(Event), ev # <<>>, Buffers(l, ev, from, open), Head(ev).type = "action"
    PROVE  /\ Follows(l, <<Head(ev).seq>>, from)
           /\ Head(ev).seq \in 0..Len(l) /\ from < Head(ev).seq
           /\ Buffers(l, Tail(ev), Head(ev).seq, open)
<1> DEFINE t == Tail(ev)
           q == Head(ev).seq
<1>1. /\ q = ev[1].seq /\ 1 \in Actions(ev)
      /\ \A k \in Actions(t) : k + 1 \in Actions(ev) /\ t[k] = ev[k + 1] /\ k \in Nat /\ 1 < k + 1
      /\ \A k \in Actions(ev) : k = 1 \/ (k - 1 \in Actions(t) /\ t[k - 1] = ev[k])
  BY FirstAction, Zenon
<1>2. \A k \in Actions(ev) : k \in Nat /\ ev[k].seq \in Nat
  BY ActionNumbers
<1>3. /\ \A k \in Actions(ev) : from < ev[k].seq /\ ev[k].seq <= Len(l)
      /\ \A k \in Actions(ev) : \A n \in (from + 1)..ev[k].seq : l[n] = Root => Brought(ev, n)
      /\ open => \A n \in (from + 1)..Len(l) : l[n] = Root => Brought(ev, n)
  BY DEF Buffers
<1>4. \A k, m \in Actions(ev) : k < m => ev[k].seq < ev[m].seq
  BY DEF Buffers
<1>5. from \in 0..Len(l) /\ Len(l) \in Nat
  OBVIOUS
<1> HIDE DEF t, q
<1>6. q \in Nat /\ from < q /\ q <= Len(l)
  BY <1>1, <1>2, <1>3
<1>7. ASSUME NEW k \in Actions(t)
      PROVE  t[k].seq \in Nat /\ q < t[k].seq /\ t[k].seq <= Len(l) /\ k + 1 \in Actions(ev)
             /\ t[k] = ev[k + 1]
  BY <1>1, <1>2, <1>3, <1>4
<1>8. ASSUME NEW n, Brought(ev, n) PROVE n = q \/ Brought(t, n)
  BY <1>1, <1>8, Zenon DEF Brought
<1>9. ASSUME NEW n, Brought(ev, n) PROVE n >= q
  <2>1. PICK k \in Actions(ev) : ev[k].seq = n
    BY <1>9 DEF Brought
  <2>2. CASE k = 1
    BY <1>1, <1>6, <2>1, <2>2
  <2>3. CASE k - 1 \in Actions(t) /\ t[k - 1] = ev[k]
    <3>1. q < t[k - 1].seq /\ t[k - 1].seq \in Nat
      BY <1>7, <2>3
    <3> QED BY <1>6, <2>1, <2>3, <3>1
  <2> QED BY <1>1, <2>2, <2>3
<1>10. Follows(l, <<q>>, from)
  <2> DEFINE s == <<q>>
  <2>1. s \in Seq(Nat) /\ Len(s) = 1 /\ s[1] = q
    BY <1>6
  <2> HIDE DEF s
  <2>2. \A i \in 1..Len(s) : i = 1
    BY <2>1
  <2>3. Increasing(s, from, Len(l))
    BY <1>6, <2>1, <2>2 DEF Increasing
  <2>4. ASSUME NEW n \in (from + 1)..q, l[n] = Root PROVE n = q
    <3>1. Brought(ev, n)
      BY <1>1, <1>3, <2>4
    <3>2. n >= q
      BY <1>9, <3>1
    <3> QED BY <1>6, <3>2
  <2>5. 1 \in 1..Len(s)
    BY <2>1
  <2> QED BY <2>1, <2>2, <2>3, <2>4, <2>5, Zenon DEF Follows, s
<1>11. ASSUME NEW k \in Actions(t), NEW m \in Actions(t), k < m PROVE t[k].seq < t[m].seq
  <2>1. k + 1 < m + 1
    BY <1>1, <1>11
  <2> QED BY <1>4, <1>7, <2>1
<1>12. ASSUME NEW k \in Actions(t), NEW n \in (q + 1)..t[k].seq, l[n] = Root PROVE Brought(t, n)
  <2>1. t[k].seq \in Nat /\ k + 1 \in Actions(ev) /\ t[k] = ev[k + 1] /\ n \in (q + 1)..t[k].seq
    BY <1>7
  <2>2. n \in (from + 1)..t[k].seq /\ n # q
    BY ONLY <1>5, <1>6, <2>1
  <2>3. Brought(ev, n)
    BY <1>3, <1>12, <2>1, <2>2
  <2> QED BY <1>8, <2>2, <2>3
<1>13. ASSUME open, NEW n \in (q + 1)..Len(l), l[n] = Root PROVE Brought(t, n)
  <2>1. n \in (q + 1)..Len(l)
    OBVIOUS
  <2>2. n \in (from + 1)..Len(l) /\ n # q
    BY ONLY <1>5, <1>6, <2>1
  <2> QED BY <1>3, <1>8, <1>13, <2>2
<1>14. Buffers(l, t, q, open)
  BY <1>7, <1>11, <1>12, <1>13 DEF Buffers
<1>15. q \in 0..Len(l)
  BY <1>5, <1>6
<1> QED BY <1>6, <1>10, <1>14, <1>15 DEF t, q

\* The first event is a notification: the actions are still all there.
LEMMA BufferPasses ==
    ASSUME NEW l, NEW from, NEW open,
           NEW ev \in Seq(Event), ev # <<>>, Buffers(l, ev, from, open), Head(ev).type # "action"
    PROVE  Buffers(l, Tail(ev), from, open)
<1> DEFINE t == Tail(ev)
<1>1. /\ \A k \in Actions(t) : k + 1 \in Actions(ev) /\ t[k] = ev[k + 1] /\ k \in Nat
      /\ \A k \in Actions(ev) : k - 1 \in Actions(t) /\ t[k - 1] = ev[k]
  BY FirstAction, Zenon
<1> HIDE DEF t
<1>2. \A n : Brought(ev, n) => Brought(t, n)
  BY <1>1, Zenon DEF Brought
<1>3. ASSUME NEW k \in Actions(t), NEW m \in Actions(t), k < m PROVE t[k].seq < t[m].seq
  <2>1. k + 1 < m + 1
    BY <1>1, <1>3
  <2> QED BY <1>1, <2>1, Zenon DEF Buffers
<1>4. \A k \in Actions(t) : from < t[k].seq /\ t[k].seq <= Len(l)
  BY <1>1, Zenon DEF Buffers
<1>5. \A k \in Actions(t) : \A n \in (from + 1)..t[k].seq : l[n] = Root => Brought(t, n)
  BY <1>1, <1>2, Zenon DEF Buffers
<1>6. open => \A n \in (from + 1)..Len(l) : l[n] = Root => Brought(t, n)
  BY <1>2, Zenon DEF Buffers
<1> QED BY <1>3, <1>4, <1>5, <1>6, Zenon DEF Buffers, t

\* A notification is buffered: it is the last one about its session.
LEMMA NoteTaken ==
    ASSUME NEW ev \in Seq(Event), NEW e \in Event, NEW s \in Sessions, NEW there, NEW there2,
           LastAgrees(ev, s, there),
           e.type # "action" /\ e.session = s => (e.type = "sessionAdded" <=> s \in there2),
           ~(e.type # "action" /\ e.session = s) => (s \in there <=> s \in there2)
    PROVE  LastAgrees(Append(ev, e), s, there2)
<1> DEFINE b == Append(ev, e)
<1>1. /\ \A k \in About(ev, s) : k \in About(b, s) /\ b[k] = ev[k]
      /\ \A k \in About(b, s) :
            \/ k \in About(ev, s) /\ b[k] = ev[k]
            \/ e.type # "action" /\ e.session = s /\ k = Len(ev) + 1 /\ b[k] = e
      /\ e.type # "action" /\ e.session = s => Len(ev) + 1 \in About(b, s)
  <2>1. OneMoreAbout(s, ev, e, b)
    BY OneMoreNote
  <2> HIDE DEF b
  <2> QED BY <2>1, Zenon DEF OneMoreAbout
<1>2. Len(ev) \in Nat /\ \A k \in About(ev, s) : k \in 1..Len(ev)
  BY DEF About
<1> HIDE DEF b
<1>3. ASSUME NEW k \in About(b, s), \A m \in About(b, s) : m <= k
      PROVE  b[k].type = "sessionAdded" <=> s \in there2
  <2>1. CASE e.type # "action" /\ e.session = s
    <3>1. Len(ev) + 1 <= k
      BY <1>1, <1>3, <2>1
    <3>2. ~(k \in 1..Len(ev))
      BY ONLY <1>2, <3>1
    <3>3. b[k] = e
      BY <1>1, <1>2, <3>2
    <3> QED BY <2>1, <3>3
  <2>2. CASE ~(e.type # "action" /\ e.session = s)
    <3>1. k \in About(ev, s) /\ b[k] = ev[k]
      BY <1>1, <2>2, Zenon
    <3>2. \A m \in About(ev, s) : m <= k
      BY <1>1, <1>3
    <3> QED BY <2>2, <3>1, <3>2, Zenon DEF LastAgrees
  <2> QED BY <2>1, <2>2
<1> QED BY <1>3 DEF LastAgrees, b

\* With one more event there is a notification about a session if there was.
LEMMA StillAgrees ==
    ASSUME NEW ev \in Seq(Event), NEW e \in Event, NEW s \in Sessions, NEW summaries, NEW there, NEW there2,
           SummaryAgrees(ev, s, summaries, there),
           ~(e.type # "action" /\ e.session = s) => (s \in there <=> s \in there2)
    PROVE  SummaryAgrees(Append(ev, e), s, summaries, there2)
<1> DEFINE b == Append(ev, e)
<1>1. OneMoreAbout(s, ev, e, b)
  BY OneMoreNote
<1> HIDE DEF b
<1>2. SummaryAgrees(b, s, summaries, there2)
  BY <1>1, Zenon DEF SummaryAgrees, OneMoreAbout
<1> QED BY <1>2 DEF b

\* The first event is handled: the last notification about a session stays the
\* last, unless it is the one handled, and then the summary agrees.
LEMMA NoteHandled ==
    ASSUME NEW ev \in Seq(Event), ev # <<>>, NEW s \in Sessions, NEW there, LastAgrees(ev, s, there)
    PROVE  /\ LastAgrees(Tail(ev), s, there)
           /\ Head(ev).type # "action" /\ Head(ev).session = s /\ About(Tail(ev), s) = {} =>
                 (Head(ev).type = "sessionAdded" <=> s \in there)
           /\ ~(Head(ev).type # "action" /\ Head(ev).session = s) /\ About(Tail(ev), s) = {} =>
                 About(ev, s) = {}
<1> DEFINE t == Tail(ev)
           h == Head(ev)
<1>1. /\ h = ev[1]
      /\ h.type # "action" /\ h.session = s => 1 \in About(ev, s)
      /\ \A k \in About(t, s) : k + 1 \in About(ev, s) /\ t[k] = ev[k + 1] /\ k \in Nat
      /\ \A k \in About(ev, s) : \/ k = 1 /\ h.type # "action" /\ h.session = s
                                 \/ k - 1 \in About(t, s) /\ t[k - 1] = ev[k]
  BY FirstNote, Zenon
<1>2. \A k \in About(ev, s) : k \in Nat
  BY DEF About
<1> HIDE DEF t, h
<1>3. ASSUME NEW k \in About(t, s), \A m \in About(t, s) : m <= k
      PROVE  t[k].type = "sessionAdded" <=> s \in there
  <2>1. k \in Nat /\ k + 1 \in About(ev, s) /\ t[k] = ev[k + 1]
    BY <1>1
  <2>2. ASSUME NEW m \in About(ev, s) PROVE m <= k + 1
    <3>1. CASE m = 1
      BY <2>1, <3>1
    <3>2. CASE m - 1 \in About(t, s)
      <4>1. m - 1 <= k /\ m \in Nat
        BY <1>2, <1>3, <3>2
      <4> QED BY <2>1, <4>1
    <3> QED BY <1>1, <3>1, <3>2
  <2> QED BY <2>1, <2>2, Zenon DEF LastAgrees
<1>4. LastAgrees(t, s, there)
  BY <1>3 DEF LastAgrees
<1>5. ASSUME h.type # "action", h.session = s, About(t, s) = {}
      PROVE  h.type = "sessionAdded" <=> s \in there
  <2>1. 1 \in About(ev, s) /\ \A m \in About(ev, s) : m = 1
    BY <1>1, <1>5, Zenon
  <2>2. \A m \in About(ev, s) : m <= 1
    BY <2>1
  <2> QED BY <1>1, <2>1, <2>2, Zenon DEF LastAgrees
<1>6. ASSUME ~(h.type # "action" /\ h.session = s), About(t, s) = {} PROVE About(ev, s) = {}
  BY <1>1, <1>6, Zenon
<1> QED BY <1>4, <1>5, <1>6 DEF t, h

\* The numbers of actions, and those up to one of them.
NumbersOf(actions) == [i \in 1..Len(actions) |-> actions[i].seq]
UpTo(n) == [i \in 1..n |-> i]
RootNumbers(l) == {i \in 1..Len(l) : l[i] \in {Root}}
RootActions(l, ev) == Kept(ev, {[type |-> "action", seq |-> i] : i \in RootNumbers(l)})

\* What the buffered actions will add to the root history makes it complete.
LEMMA HistoryComplete ==
    ASSUME NEW l \in Seq(Channels), NEW n \in 0..Len(l), NEW r, RootHistory(l, r, n),
           NEW ev \in Seq(Event), Buffers(l, ev, n, TRUE)
    PROVE  r \o NumbersOf(RootActions(l, ev)) = Kept(UpTo(Len(l)), RootNumbers(l))
<1> DEFINE S == {i \in 1..Len(l) : l[i] \in {Root}}
           A == Kept(ev, {[type |-> "action", seq |-> i] : i \in S})
           W == {[type |-> "action", seq |-> i] : i \in S}
           B == [i \in 1..Len(A) |-> A[i].seq]
           k == Kept([i \in 1..Len(l) |-> i], S)
           c == r \o B
<1>1. Len(l) \in Nat /\ n \in Nat /\ n <= Len(l) /\ Len(l) \in 0..Len(l)
  OBVIOUS
<1>2. \A i : i \in S <=> i \in 1..Len(l) /\ l[i] = Root
  OBVIOUS
<1>3. \A w : w \in W => w.type = "action" /\ w.seq \in S
  OBVIOUS
<1>4. \A i \in S : [type |-> "action", seq |-> i] \in W
  OBVIOUS
<1>5. A = Kept(ev, W)
  OBVIOUS
<1> HIDE DEF S, A, W
<1>6. A \in Seq(Event) /\ \E g : IsIndex(g, A, Len(ev), ev, W)
  BY <1>5, KeptIndex
<1>7. PICK g : IsIndex(g, A, Len(ev), ev, W)
  BY <1>6
<1>8. Len(A) \in Nat
  BY <1>6
<1>9. /\ g \in [1..Len(A) -> 1..Len(ev)]
      /\ \A i, j \in 1..Len(A) : i < j => g[i] < g[j]
      /\ \A i \in 1..Len(A) : A[i] = ev[g[i]] /\ ev[g[i]] \in W
      /\ \A j \in 1..Len(ev) : ev[j] \in W => \E i \in 1..Len(A) : g[i] = j
  BY <1>7, Zenon DEF IsIndex
<1>10. \A i \in 1..Len(A) : g[i] \in Actions(ev) /\ A[i].seq = ev[g[i]].seq /\ A[i].seq \in S
  BY <1>3, <1>9 DEF Actions
<1>11. /\ \A j \in Actions(ev) : n < ev[j].seq /\ ev[j].seq <= Len(l)
       /\ \A j, m \in Actions(ev) : j < m => ev[j].seq < ev[m].seq
       /\ \A m \in (n + 1)..Len(l) : l[m] = Root => Brought(ev, m)
  BY DEF Buffers
<1>12. \A i \in 1..Len(A) : A[i].seq \in Nat
  BY <1>2, <1>10
<1>13. B \in Seq(Nat) /\ Len(B) = Len(A) /\ \A i \in 1..Len(A) : B[i] = A[i].seq
  BY <1>8, <1>12
<1> HIDE DEF B
<1>14. Increasing(B, n, Len(l))
  <2>1. \A i \in 1..Len(B) : n < B[i] /\ B[i] <= Len(l)
    BY <1>10, <1>11, <1>13
  <2>2. ASSUME NEW i \in 1..Len(B), NEW j \in 1..Len(B), i < j PROVE B[i] < B[j]
    <3>1. i \in 1..Len(A) /\ j \in 1..Len(A) /\ g[i] < g[j]
      BY <1>9, <1>13, <2>2
    <3>2. /\ g[i] \in Actions(ev) /\ g[j] \in Actions(ev)
          /\ B[i] = ev[g[i]].seq /\ B[j] = ev[g[j]].seq
      BY <1>10, <1>13, <3>1
    <3> QED BY ONLY <1>11, <3>1, <3>2
  <2> QED BY <1>13, <2>1, <2>2 DEF Increasing
<1>15. \A i \in 1..Len(B) : B[i] \in S
  BY <1>10, <1>13
<1>16. ASSUME NEW m \in (n + 1)..Len(l), l[m] = Root PROVE \E i \in 1..Len(B) : B[i] = m
  <2>1. PICK j \in Actions(ev) : ev[j].seq = m
    BY <1>11, <1>16 DEF Brought
  <2>2. j \in 1..Len(ev) /\ ev[j].type = "action" /\ ev[j] \in Event
    BY DEF Actions
  <2>3. ev[j] = [type |-> "action", seq |-> m]
    BY <2>1, <2>2 DEF Event
  <2>4. m \in S
    BY <1>1, <1>2, <1>16
  <2>5. PICK i \in 1..Len(A) : g[i] = j
    BY <1>4, <1>9, <2>2, <2>3, <2>4
  <2>6. A[i].seq = m
    BY <1>10, <2>1, <2>5
  <2> QED BY <1>13, <2>5, <2>6
<1>17. Increasing(r, 0, n)
  BY DEF RootHistory
<1>18. Increasing(c, 0, Len(l))
  BY <1>1, <1>14, <1>17, IncreasingConcat
<1>19. RootHistory(l, k, Len(l))
  BY <1>1, RootStateIsHistory DEF S
<1>20. Increasing(k, 0, Len(l))
  BY <1>19 DEF RootHistory
<1>21. /\ r \in Seq(Nat) /\ B \in Seq(Nat)
       /\ \A i \in 1..Len(r) : r[i] \in Nat /\ 0 < r[i] /\ r[i] <= n
  BY <1>13, <1>17, IncreasingFacts, Zenon
<1>22. /\ \A i \in 1..Len(r) : i \in 1..Len(c) /\ c[i] = r[i]
       /\ \A i \in 1..Len(B) : Len(r) + i \in 1..Len(c) /\ c[Len(r) + i] = B[i]
       /\ \A i \in 1..Len(c) : i \in 1..Len(r) \/ i - Len(r) \in 1..Len(B)
       /\ Len(r) \in Nat /\ c \in Seq(Nat)
  BY ONLY <1>21, ConcatFacts
<1> HIDE DEF c, k
<1>23. ASSUME NEW i \in 1..Len(c) PROVE c[i] \in 1..Len(l) /\ l[c[i]] = Root
  <2>1. CASE i \in 1..Len(r)
    <3>1. c[i] = r[i] /\ r[i] \in Nat /\ 0 < r[i] /\ r[i] <= n /\ l[r[i]] = Root
      BY <1>21, <1>22, <2>1 DEF RootHistory
    <3> QED BY ONLY <1>1, <3>1
  <2>2. CASE i - Len(r) \in 1..Len(B)
    <3>1. i \in 1..Len(c) /\ Len(c) \in Nat
      BY <1>22
    <3>2. Len(r) + (i - Len(r)) = i
      BY ONLY <1>22, <3>1
    <3>3. c[Len(r) + (i - Len(r))] = B[i - Len(r)]
      BY <1>22, <2>2
    <3> QED BY <1>2, <1>15, <2>2, <3>2, <3>3
  <2> QED BY <1>22, <2>1, <2>2
<1>24. ASSUME NEW m \in 1..Len(l), l[m] = Root PROVE \E i \in 1..Len(c) : c[i] = m
  <2>1. CASE m <= n
    <3>1. m \in 1..n
      BY <1>1, <2>1
    <3>2. PICK i \in 1..Len(r) : r[i] = m
      BY <1>24, <3>1 DEF RootHistory
    <3> QED BY <1>22, <3>2
  <2>2. CASE ~(m <= n)
    <3>1. m \in (n + 1)..Len(l)
      BY <1>1, <2>2
    <3>2. PICK i \in 1..Len(B) : B[i] = m
      BY <1>16, <1>24, <3>1
    <3> QED BY <1>22, <3>2
  <2> QED BY <2>1, <2>2
<1>25. \A i \in 1..Len(c) : \E j \in 1..Len(k) : k[j] = c[i]
  BY <1>19, <1>23, Zenon DEF RootHistory
<1>26. \A j \in 1..Len(k) : \E i \in 1..Len(c) : c[i] = k[j]
  <2> SUFFICES ASSUME NEW j \in 1..Len(k) PROVE \E i \in 1..Len(c) : c[i] = k[j]
    OBVIOUS
  <2>1. k[j] \in Nat /\ 0 < k[j] /\ k[j] <= Len(l)
    BY <1>20, IncreasingFacts, Zenon
  <2>2. k[j] \in 1..Len(l)
    BY ONLY <1>1, <2>1
  <2>3. l[k[j]] = Root
    BY <1>19 DEF RootHistory
  <2> QED BY <1>24, <2>2, <2>3
<1>27. /\ c \in Seq(Nat) /\ k \in Seq(Nat)
       /\ \A i, j \in 1..Len(c) : i < j => c[i] < c[j]
       /\ \A i, j \in 1..Len(k) : i < j => k[i] < k[j]
  BY <1>18, <1>20, Zenon DEF Increasing
<1>28. c \in Seq(Int) /\ k \in Seq(Int)
  BY ONLY <1>27
<1>29. c = k
  BY <1>25, <1>26, <1>27, <1>28, SameElements
<1> QED BY <1>29 DEF c, k, B, A, S, NumbersOf, UpTo, RootNumbers, RootActions

\* The sessions after the buffered notifications are the server's.
LEMMA SummariesComplete ==
    ASSUME NEW ev \in Seq(Event), NEW there \in SUBSET Sessions, NEW summaries,
           \A s \in Sessions : LastAgrees(ev, s, there) /\ SummaryAgrees(ev, s, summaries, there)
    PROVE  {s \in Sessions : IF About(ev, s) = {} THEN s \in summaries
                             ELSE ev[Max(About(ev, s))].type = "sessionAdded"} = there
<1> SUFFICES ASSUME NEW s \in Sessions
             PROVE  (IF About(ev, s) = {} THEN s \in summaries
                     ELSE ev[Max(About(ev, s))].type = "sessionAdded") <=> s \in there
  OBVIOUS
<1>1. CASE About(ev, s) = {}
  BY <1>1 DEF SummaryAgrees
<1>2. CASE About(ev, s) # {}
  <2>1. Len(ev) \in Nat /\ About(ev, s) \in SUBSET (1..Len(ev))
    BY DEF About
  <2>2. PICK k \in About(ev, s) : \A m \in About(ev, s) : m <= k
    BY <1>2, <2>1, Greatest
  <2>3. About(ev, s) \in SUBSET Int
    BY <2>1
  <2>4. Max(About(ev, s)) = k
    BY <2>2, <2>3, MaxIs
  <2> QED BY <1>2, <2>2, <2>4 DEF LastAgrees
<1> QED BY <1>1, <1>2


-----------------------------------------------------------------------------
(* The invariant of the mirrored data.                                      *)

Live == {"listing", "running"}

\* A record is a function of its fields.
IsRecord(r) == r = [f \in DOMAIN r |-> r[f]]

\* The types of shared and of the handle source.
SharedTyped ==
    /\ IsRecord(shared) /\ IsRecord(handleSource)
    /\ shared.state \in HostStatus /\ shared.shutdownReason \in ShutdownReason
    /\ handleSource.shutdownReason \in ShutdownReason
    /\ shared.subscriptions \subseteq Channels /\ shared.sessionSummaries \subseteq Sessions

\* The types of what the server and the connection keep.
WireTyped ==
    /\ log \in Seq(Channels) /\ Len(log) <= MaxSeq /\ events \in Seq(Event)
    /\ sessions \subseteq Sessions /\ gone \subseteq Uris /\ subscribing \subseteq Uris

\* A generation is committed for a client of its own.
Numbered ==
    /\ conn.client <= MaxConnects /\ shared.generation <= conn.client
    /\ pc \in Handshake => shared.generation < conn.client

\* The mirrored root state is the root history up to the bookmark, the root
\* channel is tracked, and nothing beyond the bookmark was published.
Mirrored ==
    /\ shared.serverSeq \in 0..Len(log)
    /\ RootHistory(log, shared.rootState, shared.serverSeq)
    /\ Root \in shared.subscriptions
    /\ Increasing(published, 0, shared.serverSeq)

\* The bookmark that connectOnce() has read stays the current one.
Asked ==
    /\ pc \in {"reconnecting", "initializing", "listing"} =>
          prior.serverSeq = shared.serverSeq /\ Root \in prior.subscriptions
    /\ pc \in {"reconnecting", "initializing"} => events = <<>> /\ conn.subs = {}

\* The answer to the handshake goes on from it.
Answered ==
    pc = "listing" =>
        \/ /\ result.type = "replay" /\ Follows(log, result.actions, shared.serverSeq)
           /\ Root \notin result.missing
        \/ /\ result.type \in {"snapshot", "init"} /\ Root \in result.resources
           /\ result.fromSeq \in shared.serverSeq..Len(log)

\* The bookmark once the answer is committed.
Reach ==
    IF pc # "listing" THEN shared.serverSeq
    ELSE IF result.type # "replay" THEN result.fromSeq
    ELSE Max({shared.serverSeq} \cup ToSet(result.actions))

\* The buffered events go on from there, already while the sessions are listed.
Awaited ==
    pc \in Live => /\ Reach \in 0..Len(log) /\ Root \in conn.subs
                   /\ Buffers(log, events, Reach, conn.open)

\* The buffered notifications, and the summaries that none is about, agree with
\* the server.
Noted ==
    conn.open =>
        /\ pc \in Live => \A s \in Sessions : LastAgrees(events, s, sessions)
        /\ pc = "running" /\ listed =>
              \A s \in Sessions : SummaryAgrees(events, s, shared.sessionSummaries, sessions)

Following == Mirrored /\ Asked /\ Answered /\ Awaited /\ Noted

-----------------------------------------------------------------------------
(* The steps that no mirror takes part in.                                  *)

MirrorKept ==
    /\ shared'.serverSeq = shared.serverSeq /\ shared'.rootState = shared.rootState
    /\ shared'.sessionSummaries = shared.sessionSummaries
    /\ Root \in shared.subscriptions => Root \in shared'.subscriptions
    /\ log' = log /\ published' = published

\* The supervisor is or goes where it has no connection to hear from.
Leaves ==
    MirrorKept /\ pc' \notin {"reconnecting", "initializing", "listing", "running"}

\* A caller, the server or the transport acts, or a refused reconnect is turned
\* into an initialize.
Beside ==
    /\ MirrorKept
    /\ pc' = pc \/ (pc = "reconnecting" /\ pc' = "initializing")
    /\ events' = events /\ sessions' = sessions /\ listed' = listed
    /\ prior' = prior /\ result' = result
    /\ conn'.open => conn.open
    /\ Root \in conn.subs => Root \in conn'.subs
    /\ pc \in {"reconnecting", "initializing"} /\ conn.subs = {} => conn'.subs = {}

LEMMA LeavesStep ==
    ASSUME Following, Leaves
    PROVE  Following'
<1>1. Mirrored'
  BY Zenon DEF Following, Mirrored, Leaves, MirrorKept
<1>2. Asked' /\ Answered' /\ Awaited' /\ Noted'
  BY Zenon DEF Leaves, Asked, Answered, Awaited, Noted, Live
<1> QED BY <1>1, <1>2, Zenon DEF Following

LEMMA BesideStep ==
    ASSUME Following, Beside
    PROVE  Following'
<1>1. Mirrored'
  BY Zenon DEF Following, Mirrored, Beside, MirrorKept
<1>2. Asked'
  BY Zenon DEF Following, Asked, Beside, MirrorKept
<1>3. Answered'
  BY Zenon DEF Following, Answered, Beside, MirrorKept
<1>4. Awaited'
  <2> SUFFICES ASSUME pc' \in Live PROVE Awaited'
    BY Zenon DEF Awaited
  <2>1. pc' = pc
    BY Zenon DEF Beside, Live
  <2>2. Reach' = Reach
    BY <2>1, Zenon DEF Reach, Beside, MirrorKept
  <2>3. Reach \in 0..Len(log) /\ Root \in conn.subs /\ Buffers(log, events, Reach, conn.open)
    BY <2>1, Zenon DEF Following, Awaited
  <2>4. Buffers(log, events, Reach, conn'.open)
    BY <2>3, Zenon DEF Buffers, Beside
  <2> QED BY <2>2, <2>3, <2>4, Zenon DEF Awaited, Beside, MirrorKept
<1>5. Noted'
  <2>1. pc' \in Live => pc' = pc
    BY Zenon DEF Beside, Live
  <2>2. pc' = "running" => pc' = pc
    BY Zenon DEF Beside
  <2>3. /\ conn'.open => conn.open
        /\ events' = events /\ sessions' = sessions /\ listed' = listed
        /\ shared'.sessionSummaries = shared.sessionSummaries
    BY Zenon DEF Beside, MirrorKept
  <2> QED BY <2>1, <2>2, <2>3, Zenon DEF Following, Noted
<1> QED BY <1>1, <1>2, <1>3, <1>4, <1>5, Zenon DEF Following

\* Going round the loop leaves the mirrors alone.
LEMMA IterateMirrors ==
    ASSUME Shapes, NEW n, Iterate(n, shared)
    PROVE  /\ shared'.serverSeq = shared.serverSeq /\ shared'.rootState = shared.rootState
           /\ shared'.sessionSummaries = shared.sessionSummaries
           /\ shared'.subscriptions = shared.subscriptions
           /\ pc' \in {"exited", "factory"}
<1>1. CASE ShutDown
  BY <1>1, Zenon DEF Iterate
<1>2. CASE ~ShutDown
  <2>1. /\ pc' = "factory"
        /\ shared' = [shared EXCEPT !.state = IF n = 0 THEN "connecting" ELSE "reconnecting"]
    BY <1>2, Zenon DEF Iterate
  <2> QED BY <2>1, Zenon DEF Shapes
<1> QED BY <1>1, <1>2

LEMMA ConnectFailedMirrors ==
    ASSUME Shapes, ConnectFailed
    PROVE  /\ shared'.serverSeq = shared.serverSeq /\ shared'.rootState = shared.rootState
           /\ shared'.sessionSummaries = shared.sessionSummaries
           /\ shared'.subscriptions = shared.subscriptions
           /\ pc' \in {"exited", "factory", "failed", "sleeping"}
<1>1. CASE ShutDown \/ manual
  <2>1. Iterate(attempt, shared) \/ Iterate(0, shared)
    BY <1>1, Zenon DEF ConnectFailed
  <2> QED BY <2>1, IterateMirrors, Zenon
<1>2. CASE ~ShutDown /\ ~manual
  <2>1. /\ shared' = shared \/ shared' = [shared EXCEPT !.state = "failed"]
        /\ pc' \in {"failed", "sleeping"}
    BY <1>2, Zenon DEF ConnectFailed
  <2> QED BY <2>1, Zenon DEF Shapes
<1> QED BY <1>1, <1>2

\* The supervisor's own moves between connections.
LoopStep ==
    \/ Start \/ SleepElapses \/ WaitAborted \/ ConnectAborted \/ FactoryFails
    \/ HandshakeFails \/ AbortDone \/ ConnectionLeft \/ ClosingDone

LEMMA LoopLeaves ==
    ASSUME Shapes, LoopStep
    PROVE  Leaves
<1>1. log' = log /\ published' = published
  BY Zenon DEF LoopStep, Start, SleepElapses, WaitAborted, ConnectAborted, FactoryFails,
               HandshakeFails, AbortDone, ConnectionLeft, ClosingDone, serverVars
<1>2. CASE Start \/ SleepElapses \/ WaitAborted \/ ClosingDone
  <2>1. \E n : Iterate(n, shared)
    BY <1>2, Zenon DEF Start, SleepElapses, WaitAborted, ClosingDone
  <2>2. PICK n : Iterate(n, shared)
    BY <2>1
  <2> QED BY <1>1, <2>2, IterateMirrors, Zenon DEF Leaves, MirrorKept
<1>3. CASE ConnectAborted \/ FactoryFails \/ AbortDone
  <2>1. ConnectFailed
    BY <1>3, Zenon DEF ConnectAborted, FactoryFails, AbortDone
  <2> QED BY <1>1, <2>1, ConnectFailedMirrors, Zenon DEF Leaves, MirrorKept
<1>4. CASE HandshakeFails
  BY <1>1, <1>4, Zenon DEF HandshakeFails, Leaves, MirrorKept
<1>5. CASE ConnectionLeft
  <2>1. /\ pc' \in {"closing", "closingManual", "closingShutdown"}
        /\ shared' = [shared EXCEPT !.currentClient = 0]
    BY <1>5, Zenon DEF ConnectionLeft, TearDown
  <2>2. /\ shared'.serverSeq = shared.serverSeq /\ shared'.rootState = shared.rootState
        /\ shared'.sessionSummaries = shared.sessionSummaries
        /\ shared'.subscriptions = shared.subscriptions
    BY <2>1, Zenon DEF Shapes
  <2> QED BY <1>1, <2>1, <2>2, Zenon DEF Leaves, MirrorKept
<1> QED BY <1>2, <1>3, <1>4, <1>5, Zenon DEF LoopStep

\* What callers, the transport and a refusal do.
SideStep ==
    \/ ReconnectRefused \/ Reconnect \/ GetHandle \/ ConnectionEnds
    \/ \E reason \in Reasons : Shutdown(reason)
    \/ \E u \in Uris : \/ SubscribeOffline(u) \/ SubscribeSent(u) \/ SubscribeAnswered(u)
                       \/ Unsubscribe(u) \/ ServerDeletes(u)
    \/ UNCHANGED vars

LEMMA SideIsBeside ==
    ASSUME Shapes, ClientsByPhase, SideStep
    PROVE  Beside
<1>1. /\ log' = log /\ published' = published /\ events' = events /\ sessions' = sessions
      /\ listed' = listed /\ prior' = prior /\ result' = result
      /\ pc' = pc \/ (pc = "reconnecting" /\ pc' = "initializing")
  BY Zenon DEF SideStep, ReconnectRefused, Reconnect, GetHandle, ConnectionEnds, Shutdown,
               SubscribeOffline, SubscribeSent, SubscribeAnswered, Unsubscribe, ServerDeletes,
               serverVars, wireVars, callVars, supervisorVars, supVars, vars
<1>2. \A u \in Uris : u # Root
  BY BoundAssumption, Zenon
<1>3. MirrorKept
  <2>1. \/ shared' = shared
        \/ \E reason : shared' = [shared EXCEPT !.shutdownReason = reason]
        \/ \E u \in Uris : \/ shared' = [shared EXCEPT !.subscriptions = @ \cup {u}]
                           \/ shared' = [shared EXCEPT !.subscriptions = @ \ {u}]
    BY Zenon DEF SideStep, ReconnectRefused, Reconnect, GetHandle, ConnectionEnds, Shutdown,
                 SubscribeOffline, SubscribeSent, SubscribeAnswered, Unsubscribe,
                 ServerDeletes, supervisorVars, vars
  <2>2. /\ shared'.serverSeq = shared.serverSeq /\ shared'.rootState = shared.rootState
        /\ shared'.sessionSummaries = shared.sessionSummaries
    BY <2>1, Zenon DEF Shapes
  <2>3. \/ shared'.subscriptions = shared.subscriptions
        \/ \E u \in Uris : \/ shared'.subscriptions = shared.subscriptions \cup {u}
                           \/ shared'.subscriptions = shared.subscriptions \ {u}
    BY <2>1, Zenon DEF Shapes
  <2>4. Root \in shared.subscriptions => Root \in shared'.subscriptions
    BY <1>2, <2>3, Zenon
  <2> QED BY <1>1, <2>2, <2>4, Zenon DEF MirrorKept
<1>4. \/ conn' = conn
      \/ conn' = [conn EXCEPT !.open = FALSE] /\ conn.open
      \/ \E u \in Uris : conn' = [conn EXCEPT !.subs = @ \cup {u}] /\ shared.currentClient # 0
      \/ \E u \in Uris : conn' = [conn EXCEPT !.subs = @ \ {u}]
  BY Zenon DEF SideStep, ReconnectRefused, Reconnect, GetHandle, ConnectionEnds, Shutdown,
               SubscribeOffline, SubscribeSent, SubscribeAnswered, Unsubscribe,
               ServerDeletes, wireVars, vars
<1>5. \/ conn'.open = conn.open /\ conn'.subs = conn.subs
      \/ conn'.open = FALSE /\ conn'.subs = conn.subs
      \/ \E u \in Uris : /\ conn'.open = conn.open /\ conn'.subs = conn.subs \cup {u}
                         /\ shared.currentClient # 0
      \/ \E u \in Uris : conn'.open = conn.open /\ conn'.subs = conn.subs \ {u}
  BY <1>4, Zenon DEF Shapes
<1>6. (conn'.open => conn.open) /\ (Root \in conn.subs => Root \in conn'.subs)
  BY <1>2, <1>5, Zenon
<1>7. pc \in {"reconnecting", "initializing"} => shared.currentClient = 0
  BY Zenon DEF ClientsByPhase, Idle, Handshake
<1>8. pc \in {"reconnecting", "initializing"} /\ conn.subs = {} => conn'.subs = {}
  BY <1>5, <1>7, Zenon
<1> QED BY <1>1, <1>3, <1>6, <1>8, Zenon DEF Beside

-----------------------------------------------------------------------------
(* The steps of connectOnce().                                              *)

\* An empty buffer with nothing behind the bookmark.
LEMMA EmptyBuffer ==
    ASSUME NEW l, NEW from, NEW open, NEW there,
           \A n \in (from + 1)..Len(l) : l[n] # Root
    PROVE  /\ Buffers(l, <<>>, from, open)
           /\ \A s \in Sessions : LastAgrees(<<>>, s, there)
<1>1. Actions(<<>>) = {} /\ \A s : About(<<>>, s) = {}
  BY DEF Actions, About
<1> QED BY <1>1, Zenon DEF Buffers, LastAgrees

\* The factory delivers a transport: the bookmark is read, and nothing buffered.
LEMMA OpensStep ==
    ASSUME Shapes, Following, FactoryOpens
    PROVE  Following'
<1>1. /\ pc' \in {"reconnecting", "initializing"} /\ events' = <<>>
      /\ conn' = [client |-> conn.client + 1, open |-> TRUE, subs |-> {}]
      /\ prior' = [serverSeq |-> shared.serverSeq, subscriptions |-> shared.subscriptions]
      /\ shared' = shared /\ published' = published /\ log' = log
  BY Zenon DEF FactoryOpens, serverVars
<1>2. /\ conn'.subs = {} /\ prior'.serverSeq = shared.serverSeq
      /\ prior'.subscriptions = shared.subscriptions
  BY <1>1, Zenon
<1>3. Mirrored'
  BY <1>1, Zenon DEF Following, Mirrored
<1>4. Asked'
  BY <1>1, <1>2, <1>3, Zenon DEF Asked, Mirrored
<1>5. Answered' /\ Awaited' /\ Noted'
  BY <1>1, Zenon DEF Answered, Awaited, Noted, Live
<1> QED BY <1>3, <1>4, <1>5, Zenon DEF Following

\* The answer to the handshake: what it holds goes on from the bookmark, and the
\* root channel is subscribed from here on.
LEMMA HandshakenStep ==
    ASSUME Shapes, WireTyped, Following, ReconnectAnswered \/ InitializeAnswered
    PROVE  Following'
<1>1. PICK r : /\ Handshaken(r) /\ pc \in {"reconnecting", "initializing"}
               /\ \/ r = Replay(prior.serverSeq, prior.subscriptions)
                  \/ r = Snapshots("snapshot", prior.subscriptions)
                  \/ r = Snapshots("init", prior.subscriptions)
  BY Zenon DEF ReconnectAnswered, InitializeAnswered
<1>2. /\ result' = r /\ pc' = "listing"
      /\ conn' = [conn EXCEPT !.subs = prior.subscriptions \ gone]
      /\ shared' = shared /\ prior' = prior /\ listed' = listed /\ published' = published
      /\ events' = events /\ log' = log /\ sessions' = sessions
  BY <1>1, Zenon DEF Handshaken, serverVars
<1>3. conn'.subs = prior.subscriptions \ gone /\ conn'.open = conn.open
  BY <1>2, Zenon DEF Shapes
<1>4. /\ prior.serverSeq = shared.serverSeq /\ Root \in prior.subscriptions
      /\ events = <<>>
  BY <1>1, Zenon DEF Following, Asked
<1>5. Root \notin gone
  BY BoundAssumption, Zenon DEF WireTyped
<1>6. Mirrored' /\ Asked'
  <2>1. Mirrored'
    BY <1>2, Zenon DEF Following, Mirrored
  <2>2. Asked'
    BY <1>2, <1>4, Zenon DEF Asked
  <2> QED BY <2>1, <2>2
<1>7. log \in Seq(Channels) /\ Len(log) \in Nat /\ shared.serverSeq \in 0..Len(log)
  BY DEF WireTyped, Following, Mirrored
<1>8. ASSUME r = Replay(prior.serverSeq, prior.subscriptions)
      PROVE  /\ Answered' /\ Reach' \in 0..Len(log)
             /\ \A n \in (Reach' + 1)..Len(log) : log[n] # Root
  <2> DEFINE subs == prior.subscriptions \ gone
  <2>1. r.type = "replay" /\ r.actions = Missed(shared.serverSeq, subs)
        /\ r.missing = prior.subscriptions \cap gone
    BY <1>4, <1>8 DEF Replay
  <2>2. Root \in subs /\ Root \notin r.missing
    BY <1>4, <1>5, <2>1, Zenon
  <2>3. r.actions = Kept([i \in 1..Len(log) |-> i],
                         {i \in {j \in 1..Len(log) : log[j] \in subs} : i > shared.serverSeq})
    BY <2>1 DEF Missed, Numbers
  <2> HIDE DEF subs
  <2>4. /\ Follows(log, r.actions, shared.serverSeq)
        /\ \A n \in (Max({shared.serverSeq} \cup ToSet(r.actions)) + 1)..Len(log) : log[n] # Root
    BY ONLY <1>7, <2>2, <2>3, ReplayFollows
  <2>5. Reach' = Max({shared.serverSeq} \cup ToSet(r.actions))
    BY <1>2, <2>1, Zenon DEF Reach
  <2>6. Increasing(r.actions, shared.serverSeq, Len(log))
    BY <2>4 DEF Follows
  <2>7. shared.serverSeq \in Nat /\ shared.serverSeq <= Len(log)
    BY ONLY <1>7
  <2>8. Max({shared.serverSeq} \cup ToSet(r.actions)) \in shared.serverSeq..Len(log)
    BY ONLY <1>7, <2>6, <2>7, Bookmark
  <2>9. Reach' \in 0..Len(log)
    BY ONLY <1>7, <2>5, <2>7, <2>8
  <2>10. Answered'
    BY <1>2, <2>1, <2>2, <2>4, Zenon DEF Answered
  <2> QED BY <2>4, <2>5, <2>9, <2>10, Zenon
<1>9. ASSUME \/ r = Snapshots("snapshot", prior.subscriptions)
             \/ r = Snapshots("init", prior.subscriptions)
      PROVE  /\ Answered' /\ Reach' \in 0..Len(log)
             /\ \A n \in (Reach' + 1)..Len(log) : log[n] # Root
  <2>1. r.type \in {"snapshot", "init"} /\ r.resources = prior.subscriptions \ gone
        /\ r.fromSeq = Len(log)
    BY <1>9 DEF Snapshots
  <2>2. Root \in r.resources
    BY <1>4, <1>5, <2>1, Zenon
  <2>3. r.fromSeq \in shared.serverSeq..Len(log)
    BY <1>7, <2>1
  <2>4. Answered'
    BY <1>2, <2>1, <2>2, <2>3, Zenon DEF Answered
  <2>5. r.type # "replay"
    BY <2>1
  <2>6. Reach' = Len(log)
    BY <1>2, <2>1, <2>5, Zenon DEF Reach
  <2>7. Len(log) \in 0..Len(log) /\ (Len(log) + 1)..Len(log) = {}
    BY ONLY <1>7
  <2> QED BY <2>4, <2>6, <2>7, Zenon
<1>10. /\ Answered' /\ Reach' \in 0..Len(log)
       /\ \A n \in (Reach' + 1)..Len(log) : log[n] # Root
  BY <1>1, <1>8, <1>9, Zenon
<1>11. /\ Buffers(log, <<>>, Reach', conn.open)
       /\ \A s \in Sessions : LastAgrees(<<>>, s, sessions)
  BY ONLY <1>10, EmptyBuffer
<1>12. Awaited'
  BY <1>2, <1>3, <1>4, <1>5, <1>10, <1>11, Zenon DEF Awaited
<1>13. Noted'
  BY <1>2, <1>4, <1>11, Zenon DEF Noted
<1> QED BY <1>6, <1>10, <1>12, <1>13, Zenon DEF Following

\* The greater of two numbers.
LEMMA MaxOfTwo ==
    ASSUME NEW a \in Nat, NEW b \in Nat, a <= b
    PROVE  Max({a, b}) = b
  BY MaxIs

\* Where connectOnce() commits the bookmark, the mirrored root state, and the
\* subscriptions.
LEMMA CommittedMirrors ==
    ASSUME Shapes, WireTyped, Mirrored, Asked, Answered, pc = "listing", NEW ok,
           shared' = Committed(ok)
    PROVE  /\ shared'.serverSeq = Reach
           /\ Reach \in shared.serverSeq..Len(log)
           /\ RootHistory(log, shared'.rootState, Reach)
           /\ Root \in shared'.subscriptions
           /\ shared'.sessionSummaries = IF ok THEN sessions ELSE shared.sessionSummaries
           /\ result.type = "replay" => Increasing(result.actions, shared.serverSeq, Reach)
<1> DEFINE base == [shared EXCEPT
            !.generation = @ + 1, !.currentClient = conn.client, !.state = "connected",
            !.serverSeq = Max({@, FromSeq}),
            !.rootState = IF result.type # "replay" /\ Root \in result.resources
                          THEN RootAt(result.fromSeq) ELSE @,
            !.sessionSummaries = IF ok THEN sessions ELSE @,
            !.subscriptions = Surviving]
<1>1. /\ DOMAIN base = DOMAIN shared
      /\ base.serverSeq = Max({shared.serverSeq, FromSeq})
      /\ base.rootState = IF result.type # "replay" /\ Root \in result.resources
                          THEN RootAt(result.fromSeq) ELSE shared.rootState
      /\ base.sessionSummaries = IF ok THEN sessions ELSE shared.sessionSummaries
      /\ base.subscriptions = Surviving
  BY Zenon DEF Shapes
<1>2. /\ result.type # "replay" => shared' = base
      /\ result.type = "replay" =>
            shared' = [base EXCEPT !.serverSeq = Max({@} \cup ToSet(result.actions)),
                                   !.rootState = @ \o Kept(result.actions, Numbers({Root}))]
  BY Zenon DEF Committed, applyEnvelopeLocally
<1> HIDE DEF base
<1>3. /\ shared.serverSeq \in 0..Len(log) /\ log \in Seq(Channels)
      /\ RootHistory(log, shared.rootState, shared.serverSeq) /\ Root \in shared.subscriptions
      /\ prior.serverSeq = shared.serverSeq
  BY Zenon DEF Mirrored, WireTyped, Asked
<1>4. Len(log) \in Nat /\ shared.serverSeq \in Nat /\ shared.serverSeq <= Len(log)
  BY ONLY <1>3
<1>5. CASE result.type = "replay"
  <2>1. Follows(log, result.actions, shared.serverSeq) /\ Root \notin result.missing
    BY <1>5, Zenon DEF Answered
  <2>2. Increasing(result.actions, shared.serverSeq, Len(log))
    BY <2>1 DEF Follows
  <2>3. Reach = Max({shared.serverSeq} \cup ToSet(result.actions))
    BY <1>5, Zenon DEF Reach
  <2>4. FromSeq = shared.serverSeq
    BY <1>3, <1>5, Zenon DEF FromSeq
  <2>5. base.serverSeq = shared.serverSeq
    <3>1. Max({shared.serverSeq, shared.serverSeq}) = shared.serverSeq
      BY ONLY <1>4, MaxOfTwo
    <3> QED BY <1>1, <2>4, <3>1, Zenon
  <2>6. base.rootState = shared.rootState /\ Root \in base.subscriptions
    BY <1>1, <1>3, <1>5, <2>1, Zenon DEF Surviving
  <2>7. "serverSeq" \in DOMAIN base /\ "rootState" \in DOMAIN base
    BY <1>1, Zenon DEF Shapes
  <2>8. /\ shared'.serverSeq = Max({base.serverSeq} \cup ToSet(result.actions))
        /\ shared'.rootState = base.rootState \o Kept(result.actions, Numbers({Root}))
        /\ shared'.sessionSummaries = base.sessionSummaries
        /\ shared'.subscriptions = base.subscriptions
    <3> DEFINE q == Max({base.serverSeq} \cup ToSet(result.actions))
               k == base.rootState \o Kept(result.actions, Numbers({Root}))
    <3>1. shared' = [base EXCEPT !.serverSeq = q, !.rootState = k]
      BY <1>2, <1>5, Zenon
    <3> HIDE DEF q, k
    <3>2. shared'.serverSeq = q /\ shared'.rootState = k
          /\ shared'.sessionSummaries = base.sessionSummaries
          /\ shared'.subscriptions = base.subscriptions
      <4>1. "sessionSummaries" \in DOMAIN base /\ "subscriptions" \in DOMAIN base
        BY <1>1, Zenon DEF Shapes
      <4> QED BY ONLY <2>7, <3>1, <4>1, Zenon
    <3> QED BY <3>2 DEF q, k
  <2>9. shared'.serverSeq = Reach
    BY <2>3, <2>5, <2>8, Zenon
  <2>10. RootHistory(log, shared.rootState
                            \o Kept(result.actions, {i \in 1..Len(log) : log[i] \in {Root}}),
                     Max({shared.serverSeq} \cup ToSet(result.actions)))
    BY ONLY <1>3, <2>1, HistoryExtends
  <2>11. RootHistory(log, shared'.rootState, Reach)
    BY <2>3, <2>6, <2>8, <2>10, Zenon DEF Numbers
  <2>12. /\ Max({shared.serverSeq} \cup ToSet(result.actions)) \in shared.serverSeq..Len(log)
         /\ \A i \in 1..Len(result.actions) :
               result.actions[i] <= Max({shared.serverSeq} \cup ToSet(result.actions))
    BY ONLY <1>4, <2>2, Bookmark
  <2>13. Increasing(result.actions, shared.serverSeq, Reach)
    BY <2>2, <2>3, <2>12, Zenon DEF Increasing
  <2> QED BY <1>1, <2>3, <2>6, <2>8, <2>9, <2>11, <2>12, <2>13, Zenon
<1>6. CASE result.type # "replay"
  <2>1. /\ result.type \in {"snapshot", "init"} /\ Root \in result.resources
        /\ result.fromSeq \in shared.serverSeq..Len(log)
    BY <1>6, Zenon DEF Answered
  <2>2. Reach = result.fromSeq /\ FromSeq = result.fromSeq
    BY <1>6, <2>1, Zenon DEF Reach, FromSeq
  <2>3. Max({shared.serverSeq, result.fromSeq}) = result.fromSeq
    BY ONLY <1>4, <2>1, MaxOfTwo
  <2>4. shared'.serverSeq = Reach
    BY <1>1, <1>2, <1>6, <2>2, <2>3, Zenon
  <2>5. shared'.rootState = RootAt(result.fromSeq)
    BY <1>1, <1>2, <1>6, <2>1, Zenon
  <2>6. result.fromSeq \in 0..Len(log)
    BY ONLY <1>4, <2>1
  <2>7. RootHistory(log, Kept([i \in 1..result.fromSeq |-> i],
                              {i \in 1..Len(log) : log[i] \in {Root}}), result.fromSeq)
    BY ONLY <1>3, <2>6, RootStateIsHistory
  <2>8. RootHistory(log, shared'.rootState, Reach)
    BY <2>2, <2>5, <2>7, Zenon DEF RootAt, Numbers
  <2>9. Root \in shared'.subscriptions
    BY <1>1, <1>2, <1>3, <1>6, <2>1, Zenon DEF Surviving
  <2> QED BY <1>1, <1>2, <1>6, <2>1, <2>2, <2>4, <2>8, <2>9, Zenon
<1> QED BY <1>5, <1>6

\* The commit: nothing between the bookmark and the buffered events is missed,
\* and the summaries are the sessions just listed.
LEMMA ConnectedStep ==
    ASSUME Shapes, WireTyped, Following, Connected
    PROVE  Following'
<1>1. /\ pc = "listing" /\ pc' = "running" /\ shared' = Committed(listed')
      /\ listed' \in {conn.open, FALSE}
      /\ published' = IF result.type = "replay" THEN published \o result.actions ELSE published
      /\ conn' = conn /\ events' = events /\ log' = log /\ sessions' = sessions
  BY Zenon DEF Connected, wireVars, serverVars
<1>2. Mirrored /\ Asked /\ Answered /\ Awaited /\ Noted
  BY Zenon DEF Following
<1>3. /\ shared'.serverSeq = Reach
      /\ Reach \in shared.serverSeq..Len(log)
      /\ RootHistory(log, shared'.rootState, Reach)
      /\ Root \in shared'.subscriptions
      /\ shared'.sessionSummaries = IF listed' THEN sessions ELSE shared.sessionSummaries
      /\ result.type = "replay" => Increasing(result.actions, shared.serverSeq, Reach)
  BY <1>1, <1>2, CommittedMirrors
<1>4. Increasing(published, 0, shared.serverSeq) /\ shared.serverSeq \in 0..Len(log)
  BY <1>2, Zenon DEF Mirrored
<1>5. Len(log) \in Nat
  BY DEF WireTyped
<1>6. /\ shared.serverSeq \in Nat /\ Reach \in Nat /\ shared.serverSeq <= Reach
      /\ 0 <= shared.serverSeq /\ 0 \in Nat /\ Reach \in 0..Len(log)
  BY ONLY <1>3, <1>4, <1>5
<1>7. Increasing(published', 0, Reach)
  <2>1. CASE result.type = "replay"
    <3>1. Increasing(published \o result.actions, 0, Reach)
      BY ONLY <1>3, <1>4, <1>6, <2>1, IncreasingConcat
    <3> QED BY <1>1, <2>1, <3>1, Zenon
  <2>2. CASE result.type # "replay"
    <3>1. Increasing(published, 0, Reach)
      <4>1. published \in Seq(Nat) /\ \A i \in 1..Len(published) : published[i] \in Nat
        BY <1>4, IncreasingFacts, Zenon
      <4>2. \A i \in 1..Len(published) : 0 < published[i] /\ published[i] <= Reach
        BY <1>4, <1>6, <4>1 DEF Increasing
      <4> QED BY <1>4, <4>2 DEF Increasing
    <3> QED BY <1>1, <2>2, <3>1, Zenon
  <2> QED BY <2>1, <2>2
<1>8. Mirrored'
  BY <1>1, <1>3, <1>6, <1>7, Zenon DEF Mirrored
<1>9. Asked' /\ Answered'
  BY <1>1, Zenon DEF Asked, Answered
<1>10. Reach' = Reach
  BY <1>1, <1>3, Zenon DEF Reach
<1>11. Awaited'
  BY <1>1, <1>2, <1>10, Zenon DEF Awaited, Live
<1>12. Noted'
  <2>1. conn.open => \A s \in Sessions : LastAgrees(events, s, sessions)
    BY <1>1, <1>2, Zenon DEF Noted, Live
  <2>2. listed' => \A s \in Sessions :
                      SummaryAgrees(events, s, shared'.sessionSummaries, sessions)
    BY <1>3, Zenon DEF SummaryAgrees
  <2> QED BY <1>1, <2>1, <2>2, Zenon DEF Noted
<1> QED BY <1>8, <1>9, <1>11, <1>12, Zenon DEF Following

-----------------------------------------------------------------------------
(* The events.                                                              *)

\* handleEvent(): an action moves the bookmark and the root history with it, a
\* notification the summary of its session.
LEMMA HandleStep ==
    ASSUME Shapes, WireTyped, Following, HandleEvent
    PROVE  Following'
<1> DEFINE e == Head(events)
           q == Head(events).seq
           S == {i \in 1..Len(log) : log[i] \in {Root}}
<1>1. /\ pc = "running" /\ pc' = "running" /\ events # <<>> /\ events' = Tail(events)
      /\ conn' = conn /\ log' = log /\ sessions' = sessions /\ listed' = listed
      /\ prior' = prior /\ result' = result
  BY Zenon DEF HandleEvent, supVars, serverVars
<1>2. Mirrored /\ Asked /\ Answered /\ Awaited /\ Noted
  BY Zenon DEF Following
<1>3. log \in Seq(Channels) /\ events \in Seq(Event) /\ Len(log) \in Nat
  BY DEF WireTyped
<1>4. Reach = shared.serverSeq /\ Reach' = shared'.serverSeq
  BY <1>1, Zenon DEF Reach
<1>5. /\ Root \in conn.subs /\ Buffers(log, events, shared.serverSeq, conn.open)
      /\ shared.serverSeq \in 0..Len(log)
      /\ RootHistory(log, shared.rootState, shared.serverSeq)
      /\ Root \in shared.subscriptions /\ Increasing(published, 0, shared.serverSeq)
  BY <1>1, <1>2, <1>4, Zenon DEF Awaited, Mirrored, Live
<1>6. /\ conn.open => \A s \in Sessions : LastAgrees(events, s, sessions)
      /\ conn.open /\ listed => \A s \in Sessions :
            SummaryAgrees(events, s, shared.sessionSummaries, sessions)
  BY <1>1, <1>2, Zenon DEF Noted, Live
<1>7. ASSUME NEW s \in Sessions, conn.open
      PROVE  /\ LastAgrees(Tail(events), s, sessions)
             /\ e.type # "action" /\ e.session = s /\ About(Tail(events), s) = {} =>
                   (e.type = "sessionAdded" <=> s \in sessions)
             /\ ~(e.type # "action" /\ e.session = s) /\ About(Tail(events), s) = {} =>
                   About(events, s) = {}
  <2>1. LastAgrees(events, s, sessions)
    BY <1>6, <1>7
  <2> QED BY <1>1, <1>3, <2>1, NoteHandled
<1>8. Asked' /\ Answered'
  BY <1>1, Zenon DEF Asked, Answered
<1>9. CASE e.type = "action"
  <2>1. /\ shared' = applyEnvelopeLocally(shared, <<q>>) /\ published' = Append(published, q)
    BY <1>9, SMT DEF HandleEvent
  <2>2. /\ Follows(log, <<q>>, shared.serverSeq)
        /\ q \in 0..Len(log) /\ shared.serverSeq < q
        /\ Buffers(log, Tail(events), q, conn.open)
    BY ONLY <1>1, <1>3, <1>5, <1>9, BufferHandled
  <2> HIDE DEF e, q
  <2>3. /\ shared'.serverSeq = Max({shared.serverSeq} \cup ToSet(<<q>>))
        /\ shared'.rootState = shared.rootState \o Kept(<<q>>, Numbers({Root}))
        /\ shared'.subscriptions = shared.subscriptions
        /\ shared'.sessionSummaries = shared.sessionSummaries
    BY <2>1, Zenon DEF applyEnvelopeLocally, Shapes
  <2>4. shared.serverSeq \in Nat /\ q \in Nat /\ shared.serverSeq <= q
    BY ONLY <1>3, <1>5, <2>2
  <2>5. Max({shared.serverSeq} \cup ToSet(<<q>>)) = q
    <3>1. {shared.serverSeq} \cup ToSet(<<q>>) = {shared.serverSeq, q}
      BY DEF ToSet
    <3> QED BY <2>4, <3>1, MaxOfTwo
  <2>6. RootHistory(log, shared.rootState \o Kept(<<q>>, S), Max({shared.serverSeq} \cup ToSet(<<q>>)))
    BY ONLY <1>3, <1>5, <2>2, HistoryExtends
  <2>7. RootHistory(log, shared'.rootState, q)
    BY <2>3, <2>5, <2>6, Zenon DEF Numbers
  <2>8. Increasing(<<q>>, shared.serverSeq, q)
    BY <2>2, <2>4 DEF Increasing
  <2>9. 0 \in Nat /\ 0 <= shared.serverSeq /\ q <= q
    BY ONLY <2>4
  <2>10. Increasing(published \o <<q>>, 0, q)
    BY ONLY <1>5, <2>4, <2>8, <2>9, IncreasingConcat
  <2>11. published \o <<q>> = Append(published, q)
    <3>1. published \in Seq(Nat)
      BY <1>5 DEF Increasing
    <3> QED BY ONLY <2>4, <3>1
  <2>12. Mirrored'
    BY <1>1, <1>5, <2>1, <2>2, <2>3, <2>5, <2>7, <2>10, <2>11, Zenon DEF Mirrored
  <2>13. Awaited'
    BY <1>1, <1>4, <1>5, <2>2, <2>3, <2>5, Zenon DEF Awaited
  <2>14. ASSUME NEW s \in Sessions, conn.open, listed
         PROVE  SummaryAgrees(Tail(events), s, shared.sessionSummaries, sessions)
    BY <1>6, <1>7, <1>9, <2>14, Zenon DEF SummaryAgrees
  <2>15. Noted'
    BY <1>1, <1>7, <2>3, <2>14, Zenon DEF Noted
  <2> QED BY <1>8, <2>12, <2>13, <2>15, Zenon DEF Following
<1>10. CASE e.type # "action"
  <2>1. /\ published' = published
        /\ \/ /\ e.type = "sessionAdded"
              /\ shared' = [shared EXCEPT !.sessionSummaries = @ \cup {e.session}]
           \/ /\ e.type = "sessionRemoved"
              /\ shared' = [shared EXCEPT !.sessionSummaries = @ \ {e.session}]
    BY <1>10, Zenon DEF HandleEvent
  <2>2. Buffers(log, Tail(events), shared.serverSeq, conn.open)
    BY ONLY <1>1, <1>3, <1>5, <1>10, BufferPasses
  <2> HIDE DEF e
  <2>3. /\ shared'.serverSeq = shared.serverSeq /\ shared'.rootState = shared.rootState
        /\ shared'.subscriptions = shared.subscriptions
        /\ \/ /\ e.type = "sessionAdded"
              /\ shared'.sessionSummaries = shared.sessionSummaries \cup {e.session}
           \/ /\ e.type = "sessionRemoved"
              /\ shared'.sessionSummaries = shared.sessionSummaries \ {e.session}
    BY <2>1, Zenon DEF Shapes
  <2>4. Mirrored'
    BY <1>1, <1>5, <2>1, <2>3, Zenon DEF Mirrored
  <2>5. Awaited'
    BY <1>1, <1>4, <1>5, <2>2, <2>3, Zenon DEF Awaited
  <2>6. ASSUME NEW s \in Sessions, conn.open, listed
        PROVE  SummaryAgrees(Tail(events), s, shared'.sessionSummaries, sessions)
    <3> SUFFICES ASSUME About(Tail(events), s) = {}
                 PROVE  s \in shared'.sessionSummaries <=> s \in sessions
      BY Zenon DEF SummaryAgrees
    <3>1. CASE e.session = s
      <4>1. e.type = "sessionAdded" <=> s \in sessions
        BY <1>7, <1>10, <2>6, <3>1, Zenon
      <4>2. "sessionRemoved" # "sessionAdded"
        OBVIOUS
      <4> QED BY <2>3, <3>1, <4>1, <4>2, Zenon
    <3>2. CASE e.session # s
      <4>1. About(events, s) = {}
        BY <1>7, <2>6, <3>2, Zenon
      <4>2. s \in shared.sessionSummaries <=> s \in sessions
        BY <1>6, <2>6, <4>1, Zenon DEF SummaryAgrees
      <4> QED BY <2>3, <3>2, <4>2, Zenon
    <3> QED BY <3>1, <3>2
  <2>7. Noted'
    BY <1>1, <1>7, <2>6, Zenon DEF Noted
  <2> QED BY <1>8, <2>4, <2>5, <2>7, Zenon DEF Following
<1> QED BY <1>9, <1>10

\* The server acts: an open connection is told of every root action, and what
\* was answered or buffered before still goes on from its bookmark.
LEMMA ActsStep ==
    ASSUME Shapes, WireTyped, Following, NEW ch \in Channels, ServerActs(ch)
    PROVE  Following'
<1> DEFINE e == [type |-> "action", seq |-> Len(log) + 1]
           l == Append(log, ch)
<1>1. /\ log' = l /\ Len(log) < MaxSeq
      /\ events' = IF conn.open /\ ch \in conn.subs THEN Append(events, e) ELSE events
      /\ shared' = shared /\ conn' = conn /\ sessions' = sessions /\ listed' = listed
      /\ prior' = prior /\ result' = result /\ pc' = pc /\ published' = published
  BY Zenon DEF ServerActs, supervisorVars, supVars
<1>2. Mirrored /\ Asked /\ Answered /\ Awaited /\ Noted
  BY Zenon DEF Following
<1>3. log \in Seq(Channels) /\ events \in Seq(Event) /\ Len(log) \in Nat /\ MaxSeq \in Nat
  BY BoundAssumption DEF WireTyped
<1>4. e \in Event /\ e.type = "action" /\ e.seq = Len(log) + 1
  <2>1. Len(log) + 1 \in 1..MaxSeq
    BY ONLY <1>1, <1>3
  <2> QED BY <2>1 DEF Event
<1>5. Len(l) = Len(log) + 1
  BY <1>3, LogGrows
<1> HIDE DEF e, l
<1>6. \A n \in 0..Len(log) : n \in 0..Len(l)
  BY ONLY <1>3, <1>5
<1>7. Mirrored'
  <2>1. RootHistory(l, shared.rootState, shared.serverSeq)
    BY <1>2, <1>3, HistoryKept DEF Mirrored, l
  <2> QED BY <1>1, <1>2, <1>6, <2>1, Zenon DEF Mirrored
<1>8. Asked'
  BY <1>1, <1>2, Zenon DEF Asked
<1>9. Answered'
  <2>1. ASSUME Follows(log, result.actions, shared.serverSeq)
        PROVE  Follows(l, result.actions, shared.serverSeq)
    BY <1>2, <1>3, <2>1, FollowsKept DEF Mirrored, l
  <2>2. shared.serverSeq \in Nat
    BY <1>2, <1>3 DEF Mirrored
  <2>3. \A n \in shared.serverSeq..Len(log) : n \in shared.serverSeq..Len(l)
    BY ONLY <1>3, <1>5, <2>2
  <2> QED BY <1>1, <1>2, <2>1, <2>3, Zenon DEF Answered
<1>10. Awaited'
  <2> SUFFICES ASSUME pc \in Live PROVE Awaited'
    BY <1>1, Zenon DEF Awaited
  <2>1. Reach' = Reach
    BY <1>1, Zenon DEF Reach
  <2>2. Reach \in 0..Len(log) /\ Root \in conn.subs /\ Buffers(log, events, Reach, conn.open)
    BY <1>2, Zenon DEF Awaited
  <2>3. Buffers(l, events', Reach, conn.open)
    <3>1. CASE conn.open /\ ch \in conn.subs
      <4>1. Buffers(log, events, Reach, TRUE)
        BY <2>2, <3>1, Zenon DEF Buffers
      <4>2. Buffers(Append(log, ch), Append(events, e), Reach, conn.open)
        BY <1>3, <1>4, <2>2, <4>1, BufferTakes
      <4> QED BY <1>1, <3>1, <4>2, Zenon DEF l
    <3>2. CASE ~(conn.open /\ ch \in conn.subs)
      <4>1. conn.open => ch # Root
        BY <2>2, <3>2, Zenon
      <4>2. Buffers(Append(log, ch), events, Reach, conn.open)
        BY <1>3, <2>2, <4>1, BufferKept
      <4> QED BY <1>1, <3>2, <4>2, Zenon DEF l
    <3> QED BY <3>1, <3>2
  <2> QED BY <1>1, <1>6, <2>1, <2>2, <2>3, Zenon DEF Awaited
<1>11. Noted'
  <2>1. ASSUME NEW s \in Sessions, LastAgrees(events, s, sessions)
        PROVE  LastAgrees(events', s, sessions)
    <3>1. LastAgrees(Append(events, e), s, sessions)
      BY <1>3, <1>4, <2>1, NoteTaken
    <3> QED BY <1>1, <2>1, <3>1, Zenon
  <2>2. ASSUME NEW s \in Sessions,
               SummaryAgrees(events, s, shared.sessionSummaries, sessions)
        PROVE  SummaryAgrees(events', s, shared.sessionSummaries, sessions)
    <3>1. SummaryAgrees(Append(events, e), s, shared.sessionSummaries, sessions)
      BY <1>3, <1>4, <2>2, StillAgrees
    <3> QED BY <1>1, <2>2, <3>1, Zenon
  <2> QED BY <1>1, <1>2, <2>1, <2>2, Zenon DEF Noted
<1> QED BY <1>7, <1>8, <1>9, <1>10, <1>11, Zenon DEF Following

\* A session comes or goes: an open connection is told, also while the sessions
\* are being listed.
LEMMA NotifiesStep ==
    ASSUME Shapes, WireTyped, Following, NEW z \in Sessions, ServerNotifies(z)
    PROVE  Following'
<1> DEFINE e == [type |-> IF z \in sessions THEN "sessionRemoved" ELSE "sessionAdded",
                 session |-> z]
<1>1. /\ sessions' = IF z \in sessions THEN sessions \ {z} ELSE sessions \cup {z}
      /\ events' = IF conn.open /\ pc \in Live THEN Append(events, e) ELSE events
      /\ shared' = shared /\ conn' = conn /\ log' = log /\ listed' = listed
      /\ prior' = prior /\ result' = result /\ pc' = pc /\ published' = published
  BY Zenon DEF ServerNotifies, supervisorVars, supVars, Live
<1>2. Mirrored /\ Asked /\ Answered /\ Awaited /\ Noted
  BY Zenon DEF Following
<1>3. events \in Seq(Event)
  BY DEF WireTyped
<1>4. /\ e \in Event /\ e.type # "action" /\ e.session = z
      /\ e.type = "sessionAdded" <=> z \notin sessions
  BY DEF Event
<1> HIDE DEF e
<1>5. /\ z \in sessions' <=> z \notin sessions
      /\ \A s : s # z => (s \in sessions' <=> s \in sessions)
  BY <1>1, Zenon
<1>6. Mirrored' /\ Answered'
  BY <1>1, <1>2, Zenon DEF Mirrored, Answered
<1>7. Asked'
  BY <1>1, <1>2, Zenon DEF Asked, Live
<1>8. Awaited'
  <2> SUFFICES ASSUME pc \in Live PROVE Awaited'
    BY <1>1, Zenon DEF Awaited
  <2>1. Reach' = Reach
    BY <1>1, Zenon DEF Reach
  <2>2. Reach \in 0..Len(log) /\ Root \in conn.subs /\ Buffers(log, events, Reach, conn.open)
    BY <1>2, Zenon DEF Awaited
  <2>3. Buffers(log, Append(events, e), Reach, conn.open)
    BY <1>3, <1>4, <2>2, BufferIgnores
  <2>4. Buffers(log, events', Reach, conn.open)
    BY <1>1, <2>2, <2>3, Zenon
  <2> QED BY <1>1, <2>1, <2>2, <2>4, Zenon DEF Awaited
<1>9. Noted'
  <2> SUFFICES ASSUME conn.open, pc \in Live PROVE Noted'
    BY <1>1, Zenon DEF Noted, Live
  <2>1. events' = Append(events, e)
    BY <1>1, Zenon
  <2>2. ASSUME NEW s \in Sessions PROVE LastAgrees(events', s, sessions')
    <3>1. LastAgrees(events, s, sessions)
      BY <1>2, Zenon DEF Noted
    <3>2. e.type # "action" /\ e.session = s => (e.type = "sessionAdded" <=> s \in sessions')
      BY <1>4, <1>5, Zenon
    <3>3. ~(e.type # "action" /\ e.session = s) => (s \in sessions <=> s \in sessions')
      BY <1>4, <1>5, Zenon
    <3>4. LastAgrees(Append(events, e), s, sessions')
      BY <1>3, <1>4, <3>1, <3>2, <3>3, NoteTaken
    <3> QED BY <2>1, <3>4, Zenon
  <2>3. ASSUME NEW s \in Sessions, pc = "running", listed
        PROVE  SummaryAgrees(events', s, shared.sessionSummaries, sessions')
    <3>1. SummaryAgrees(events, s, shared.sessionSummaries, sessions)
      BY <1>2, <2>3, Zenon DEF Noted
    <3>2. ~(e.type # "action" /\ e.session = s) => (s \in sessions <=> s \in sessions')
      BY <1>4, <1>5, Zenon
    <3>3. SummaryAgrees(Append(events, e), s, shared.sessionSummaries, sessions')
      BY <1>3, <1>4, <3>1, <3>2, StillAgrees
    <3> QED BY <2>1, <3>3, Zenon
  <2> QED BY <1>1, <2>2, <2>3, Zenon DEF Noted
<1> QED BY <1>6, <1>7, <1>8, <1>9, Zenon DEF Following

-----------------------------------------------------------------------------
(* The types.                                                               *)

\* Every step changes shared in one of these ways.
LEMMA SharedMoves ==
    ASSUME [Next]_vars
    PROVE  \/ shared' = shared
           \/ \E st \in HostStatus : shared' = [shared EXCEPT !.state = st]
           \/ shared' = [shared EXCEPT !.currentClient = 0]
           \/ \E r \in Reasons : shared' = [shared EXCEPT !.shutdownReason = r]
           \/ \E u \in Channels : shared' = [shared EXCEPT !.subscriptions = @ \cup {u}]
           \/ \E u \in Channels : shared' = [shared EXCEPT !.subscriptions = @ \ {u}]
           \/ HandleEvent
           \/ Connected
<1> DEFINE Goal == \/ shared' = shared
                   \/ \E st \in HostStatus : shared' = [shared EXCEPT !.state = st]
                   \/ shared' = [shared EXCEPT !.currentClient = 0]
                   \/ \E r \in Reasons : shared' = [shared EXCEPT !.shutdownReason = r]
                   \/ \E u \in Channels : shared' = [shared EXCEPT !.subscriptions = @ \cup {u}]
                   \/ \E u \in Channels : shared' = [shared EXCEPT !.subscriptions = @ \ {u}]
                   \/ HandleEvent
                   \/ Connected
<1> SUFFICES Goal
  OBVIOUS
<1>1. /\ "connecting" \in HostStatus /\ "reconnecting" \in HostStatus /\ "failed" \in HostStatus
      /\ \A u \in Uris : u \in Channels
  BY Zenon DEF HostStatus, Channels
<1>2. ASSUME NEW n, Iterate(n, shared) PROVE Goal
  <2>1. \/ shared' = shared
        \/ shared' = [shared EXCEPT !.state = IF n = 0 THEN "connecting" ELSE "reconnecting"]
    BY <1>2, Zenon DEF Iterate
  <2>2. (IF n = 0 THEN "connecting" ELSE "reconnecting") \in HostStatus
    BY <1>1, Zenon
  <2> QED BY <2>1, <2>2, Zenon
<1>3. ASSUME ConnectFailed PROVE Goal
  <2>1. \/ Iterate(attempt, shared) \/ Iterate(0, shared)
        \/ shared' = shared \/ shared' = [shared EXCEPT !.state = "failed"]
    BY <1>3, Zenon DEF ConnectFailed
  <2> QED BY <1>1, <1>2, <2>1, Zenon
<1>4. CASE LoopStep
  <2>1. \/ ConnectFailed \/ \E n : Iterate(n, shared)
        \/ shared' = shared \/ shared' = [shared EXCEPT !.currentClient = 0]
    BY <1>4, Zenon DEF LoopStep, Start, SleepElapses, WaitAborted, ConnectAborted,
         FactoryFails, HandshakeFails, AbortDone, ConnectionLeft, ClosingDone, TearDown
  <2> QED BY <1>2, <1>3, <2>1, Zenon
<1>5. CASE SideStep
  <2>1. \/ shared' = shared
        \/ \E reason \in Reasons : shared' = [shared EXCEPT !.shutdownReason = reason]
        \/ \E u \in Uris : \/ shared' = [shared EXCEPT !.subscriptions = @ \cup {u}]
                           \/ shared' = [shared EXCEPT !.subscriptions = @ \ {u}]
    BY <1>5, Zenon DEF SideStep, ReconnectRefused, Reconnect, GetHandle, ConnectionEnds,
         Shutdown, SubscribeOffline, SubscribeSent, SubscribeAnswered, Unsubscribe,
         ServerDeletes, supervisorVars, vars
  <2> QED BY <1>1, <2>1, Zenon
<1>6. CASE FactoryOpens \/ ReconnectAnswered \/ InitializeAnswered
  BY <1>6, Zenon DEF FactoryOpens, ReconnectAnswered, InitializeAnswered, Handshaken
<1>7. CASE \/ \E ch \in Channels : ServerActs(ch)
           \/ \E s \in Sessions : ServerNotifies(s)
  BY <1>7, Zenon DEF ServerActs, ServerNotifies, supervisorVars
<1> QED BY <1>4, <1>5, <1>6, <1>7, Zenon DEF Next, Supervisor, LoopStep, SideStep

\* Every step is one of these.
LEMMA Steps ==
    ASSUME [Next]_vars
    PROVE  \/ LoopStep \/ SideStep \/ FactoryOpens \/ ReconnectAnswered \/ InitializeAnswered
           \/ Connected \/ HandleEvent
           \/ \E ch \in Channels : ServerActs(ch)
           \/ \E s \in Sessions : ServerNotifies(s)
  BY Zenon DEF Next, Supervisor, LoopStep, SideStep

\* What keeps the fields of shared that SharedTyped is about in their types.
SharedFieldsTyped ==
    /\ shared'.state \in HostStatus /\ shared'.shutdownReason \in ShutdownReason
    /\ shared'.subscriptions \subseteq Channels /\ shared'.sessionSummaries \subseteq Sessions

LEMMA CommittedTyped ==
    ASSUME Shapes, WireTyped, SharedTyped, NEW ok, shared' = Committed(ok)
    PROVE  IsRecord(shared') /\ SharedFieldsTyped
<1> DEFINE base == [shared EXCEPT
            !.generation = @ + 1, !.currentClient = conn.client, !.state = "connected",
            !.serverSeq = Max({@, FromSeq}),
            !.rootState = IF result.type # "replay" /\ Root \in result.resources
                          THEN RootAt(result.fromSeq) ELSE @,
            !.sessionSummaries = IF ok THEN sessions ELSE @,
            !.subscriptions = Surviving]
<1>1. /\ DOMAIN base = DOMAIN shared /\ base.state = "connected"
      /\ base.shutdownReason = shared.shutdownReason
      /\ base.sessionSummaries = IF ok THEN sessions ELSE shared.sessionSummaries
      /\ base.subscriptions = Surviving
  BY Zenon DEF Shapes
<1>2. IsRecord(base)
  BY Zenon DEF IsRecord
<1>3. \/ shared' = base
      \/ shared' = [base EXCEPT !.serverSeq = Max({@} \cup ToSet(result.actions)),
                                !.rootState = @ \o Kept(result.actions, Numbers({Root}))]
  BY Zenon DEF Committed, applyEnvelopeLocally
<1>4. Surviving \subseteq shared.subscriptions
  BY DEF Surviving
<1> HIDE DEF base
<1>5. IsRecord(shared')
  BY <1>2, <1>3, Zenon DEF IsRecord
<1>6. /\ shared'.state = base.state /\ shared'.shutdownReason = base.shutdownReason
      /\ shared'.sessionSummaries = base.sessionSummaries
      /\ shared'.subscriptions = base.subscriptions
  <2>1. {"state", "shutdownReason", "sessionSummaries", "subscriptions"} \subseteq DOMAIN base
    BY <1>1, Zenon DEF Shapes
  <2> QED BY <1>3, <2>1, Zenon
<1>7. base.sessionSummaries \subseteq Sessions /\ base.subscriptions \subseteq Channels
  BY <1>1, <1>4, Zenon DEF SharedTyped, WireTyped
<1>8. "connected" \in HostStatus
  BY Zenon DEF HostStatus
<1> QED BY <1>1, <1>5, <1>6, <1>7, <1>8, Zenon DEF SharedFieldsTyped, SharedTyped

LEMMA HandleTyped ==
    ASSUME Shapes, WireTyped, SharedTyped, HandleEvent
    PROVE  IsRecord(shared') /\ SharedFieldsTyped
<1> DEFINE e == Head(events)
<1>1. /\ events \in Seq(Event) /\ events # <<>>
      /\ \/ shared' = applyEnvelopeLocally(shared, <<e.seq>>)
         \/ e.type # "action" /\ shared' = [shared EXCEPT !.sessionSummaries = @ \cup {e.session}]
         \/ shared' = [shared EXCEPT !.sessionSummaries = @ \ {e.session}]
  BY Zenon DEF HandleEvent, WireTyped
<1>2. e \in Event
  BY ONLY <1>1, FirstAction
<1>3. e.type # "action" => e.session \in Sessions
  BY ONLY <1>2, EventTypes
<1> HIDE DEF e
<1>4. IsRecord(shared')
  BY <1>1, Zenon DEF SharedTyped, IsRecord, applyEnvelopeLocally
<1>5. /\ shared'.state = shared.state /\ shared'.shutdownReason = shared.shutdownReason
      /\ shared'.subscriptions = shared.subscriptions
      /\ \/ shared'.sessionSummaries = shared.sessionSummaries
         \/ /\ e.type # "action"
            /\ shared'.sessionSummaries = shared.sessionSummaries \cup {e.session}
         \/ shared'.sessionSummaries = shared.sessionSummaries \ {e.session}
  BY <1>1, Zenon DEF Shapes, applyEnvelopeLocally
<1> QED BY <1>3, <1>4, <1>5, Zenon DEF SharedFieldsTyped, SharedTyped

LEMMA SourceTyped ==
    ASSUME Shapes, SharedTyped, [Next]_vars
    PROVE  IsRecord(handleSource') /\ handleSource'.shutdownReason \in ShutdownReason
<1> DEFINE Goal == \/ handleSource' = handleSource
                   \/ \E g, c : handleSource' = [handleSource EXCEPT !.currentClient = c,
                                                                     !.generation = g]
                   \/ \E g, c : handleSource' = [handleSource EXCEPT !.generation = g,
                                                                     !.currentClient = c]
                   \/ handleSource' = [handleSource EXCEPT !.currentClient = 0]
                   \/ \E r \in Reasons : handleSource' = [handleSource EXCEPT !.shutdownReason = r]
<1>1. ASSUME NEW n, Iterate(n, shared) PROVE Goal
  BY <1>1, Zenon DEF Iterate
<1>2. ASSUME ConnectFailed PROVE Goal
  <2>1. Iterate(attempt, shared) \/ Iterate(0, shared) \/ handleSource' = handleSource
    BY <1>2, Zenon DEF ConnectFailed
  <2> QED BY <1>1, <2>1, Zenon
<1>3. ASSUME LoopStep PROVE Goal
  <2>1. \/ ConnectFailed \/ \E n : Iterate(n, shared)
        \/ handleSource' = handleSource
        \/ handleSource' = [handleSource EXCEPT !.currentClient = 0]
    BY <1>3, Zenon DEF LoopStep, Start, SleepElapses, WaitAborted, ConnectAborted,
         FactoryFails, HandshakeFails, AbortDone, ConnectionLeft, ClosingDone, TearDown
  <2> QED BY <1>1, <1>2, <2>1, Zenon
<1>4. ASSUME SideStep PROVE Goal
  <2>1. \/ handleSource' = handleSource
        \/ \E reason \in Reasons :
              handleSource' = [handleSource EXCEPT !.shutdownReason = reason]
    BY <1>4, Zenon DEF SideStep, ReconnectRefused, Reconnect, GetHandle, ConnectionEnds,
         Shutdown, SubscribeOffline, SubscribeSent, SubscribeAnswered, Unsubscribe,
         ServerDeletes, supervisorVars, vars
  <2> QED BY <2>1, Zenon
<1>5. ASSUME FactoryOpens \/ ReconnectAnswered \/ InitializeAnswered \/ HandleEvent
      PROVE  Goal
  BY <1>5, Zenon DEF FactoryOpens, ReconnectAnswered, InitializeAnswered, Handshaken, HandleEvent
<1>6. ASSUME Connected PROVE Goal
  BY <1>6, Zenon DEF Connected
<1>7. ASSUME \/ \E ch \in Channels : ServerActs(ch)
             \/ \E s \in Sessions : ServerNotifies(s)
      PROVE  Goal
  BY <1>7, Zenon DEF ServerActs, ServerNotifies, supervisorVars
<1>8. Goal
  BY <1>3, <1>4, <1>5, <1>6, <1>7, Steps, Zenon
<1>9. IsRecord(handleSource')
  BY <1>8, Zenon DEF SharedTyped, IsRecord
<1>10. \/ handleSource'.shutdownReason = handleSource.shutdownReason
       \/ handleSource'.shutdownReason \in Reasons
  BY <1>8, Zenon DEF Shapes
<1> QED BY <1>9, <1>10, ReasonAssumption, Zenon DEF SharedTyped

LEMMA SharedTypedStep ==
    ASSUME Shapes, WireTyped, SharedTyped, [Next]_vars
    PROVE  SharedTyped'
<1>1. IsRecord(shared') /\ SharedFieldsTyped
  <2>1. CASE HandleEvent
    BY <2>1, HandleTyped
  <2>2. CASE Connected
    <3>1. shared' = Committed(listed')
      BY <2>2, Zenon DEF Connected
    <3> QED BY <3>1, CommittedTyped
  <2>3. CASE ~HandleEvent /\ ~Connected
    <3>1. \/ shared' = shared
          \/ \E st \in HostStatus : shared' = [shared EXCEPT !.state = st]
          \/ shared' = [shared EXCEPT !.currentClient = 0]
          \/ \E r \in Reasons : shared' = [shared EXCEPT !.shutdownReason = r]
          \/ \E u \in Channels : shared' = [shared EXCEPT !.subscriptions = @ \cup {u}]
          \/ \E u \in Channels : shared' = [shared EXCEPT !.subscriptions = @ \ {u}]
      BY <2>3, SharedMoves, Zenon
    <3>2. IsRecord(shared')
      BY <3>1, Zenon DEF SharedTyped, IsRecord
    <3>3. /\ shared'.state = shared.state \/ shared'.state \in HostStatus
          /\ shared'.sessionSummaries = shared.sessionSummaries
          /\ \/ shared'.shutdownReason = shared.shutdownReason
             \/ shared'.shutdownReason \in Reasons
          /\ \/ shared'.subscriptions = shared.subscriptions
             \/ \E u \in Channels : \/ shared'.subscriptions = shared.subscriptions \cup {u}
                                    \/ shared'.subscriptions = shared.subscriptions \ {u}
      BY <3>1, Zenon DEF Shapes
    <3>4. shared'.subscriptions \subseteq Channels
      BY <3>3, Zenon DEF SharedTyped
    <3>5. shared'.shutdownReason \in ShutdownReason
      BY <3>3, ReasonAssumption, Zenon DEF SharedTyped
    <3> QED BY <3>2, <3>3, <3>4, <3>5, Zenon DEF SharedFieldsTyped, SharedTyped
  <2> QED BY <2>1, <2>2, <2>3
<1>2. IsRecord(handleSource') /\ handleSource'.shutdownReason \in ShutdownReason
  BY SourceTyped
<1> QED BY <1>1, <1>2, Zenon DEF SharedTyped, SharedFieldsTyped

LEMMA WireTypedStep ==
    ASSUME WireTyped, [Next]_vars
    PROVE  WireTyped'
<1>1. CASE LoopStep
  <2>1. /\ log' = log /\ sessions' = sessions /\ gone' = gone
        /\ events' = events \/ events' = <<>>
        /\ subscribing' = subscribing \/ subscribing' = {}
    BY <1>1, Zenon DEF LoopStep, Start, SleepElapses, WaitAborted, ConnectAborted,
         FactoryFails, HandshakeFails, AbortDone, ConnectionLeft, ClosingDone, TearDown,
         serverVars, wireVars
  <2>2. <<>> \in Seq(Event)
    OBVIOUS
  <2> QED BY <2>1, <2>2, Zenon DEF WireTyped
<1>2. CASE SideStep
  <2>1. /\ log' = log /\ sessions' = sessions /\ events' = events
        /\ gone' = gone \/ \E u \in Uris : gone' = gone \cup {u}
        /\ \/ subscribing' = subscribing \/ subscribing' = {}
           \/ \E u \in Uris : \/ subscribing' = subscribing \cup {u}
                              \/ subscribing' = subscribing \ {u}
    BY <1>2, Zenon DEF SideStep, ReconnectRefused, Reconnect, GetHandle, ConnectionEnds,
         Shutdown, SubscribeOffline, SubscribeSent, SubscribeAnswered, Unsubscribe,
         ServerDeletes, serverVars, wireVars, vars
  <2>2. gone' \subseteq Uris
    BY <2>1, Zenon DEF WireTyped
  <2>3. subscribing' \subseteq Uris
    BY <2>1, Zenon DEF WireTyped
  <2> QED BY <2>1, <2>2, <2>3, Zenon DEF WireTyped
<1>3. CASE FactoryOpens \/ ReconnectAnswered \/ InitializeAnswered \/ Connected
  <2>1. /\ log' = log /\ sessions' = sessions /\ gone' = gone /\ subscribing' = subscribing
        /\ events' = events \/ events' = <<>>
    BY <1>3, Zenon DEF FactoryOpens, ReconnectAnswered, InitializeAnswered, Handshaken,
         Connected, serverVars, wireVars
  <2>2. <<>> \in Seq(Event)
    OBVIOUS
  <2> QED BY <2>1, <2>2, Zenon DEF WireTyped
<1>4. CASE HandleEvent
  <2>1. /\ log' = log /\ sessions' = sessions /\ gone' = gone /\ subscribing' = subscribing
        /\ events' = Tail(events) /\ events # <<>> /\ events \in Seq(Event)
    BY <1>4, Zenon DEF HandleEvent, serverVars, WireTyped
  <2>2. Tail(events) \in Seq(Event)
    BY ONLY <2>1, FirstAction
  <2> QED BY <2>1, <2>2, Zenon DEF WireTyped
<1>5. ASSUME NEW ch \in Channels, ServerActs(ch) PROVE WireTyped'
  <2> DEFINE e == [type |-> "action", seq |-> Len(log) + 1]
  <2>1. /\ log' = Append(log, ch) /\ Len(log) < MaxSeq
        /\ sessions' = sessions /\ gone' = gone /\ subscribing' = subscribing
        /\ events' = Append(events, e) \/ events' = events
    BY <1>5, Zenon DEF ServerActs
  <2>2. log \in Seq(Channels) /\ events \in Seq(Event) /\ MaxSeq \in Nat /\ Len(log) \in Nat
    BY BoundAssumption DEF WireTyped
  <2>3. e \in Event
    <3>1. Len(log) + 1 \in 1..MaxSeq
      BY ONLY <2>1, <2>2
    <3> QED BY <3>1 DEF Event
  <2> HIDE DEF e
  <2>4. Append(events, e) \in Seq(Event)
    BY <2>2, <2>3
  <2>5. Append(log, ch) \in Seq(Channels) /\ Len(Append(log, ch)) = Len(log) + 1
    BY <2>2
  <2>6. Len(Append(log, ch)) <= MaxSeq
    BY ONLY <2>1, <2>2, <2>5
  <2> QED BY <2>1, <2>4, <2>5, <2>6, Zenon DEF WireTyped
<1>6. ASSUME NEW s \in Sessions, ServerNotifies(s) PROVE WireTyped'
  <2> DEFINE e == [type |-> IF s \in sessions THEN "sessionRemoved" ELSE "sessionAdded",
                   session |-> s]
  <2>1. /\ log' = log /\ gone' = gone /\ subscribing' = subscribing
        /\ sessions' = IF s \in sessions THEN sessions \ {s} ELSE sessions \cup {s}
        /\ events' = Append(events, e) \/ events' = events
    BY <1>6, Zenon DEF ServerNotifies
  <2>2. e \in Event
    BY DEF Event
  <2>3. events \in Seq(Event)
    BY Zenon DEF WireTyped
  <2> HIDE DEF e
  <2>4. Append(events, e) \in Seq(Event)
    BY <2>2, <2>3
  <2>5. sessions' \subseteq Sessions
    BY <2>1 DEF WireTyped
  <2> QED BY <2>1, <2>3, <2>4, <2>5, Zenon DEF WireTyped
<1> QED BY <1>1, <1>2, <1>3, <1>4, <1>5, <1>6, Steps, Zenon

LEMMA NumberedStep ==
    ASSUME Shapes, Numbered, Kinds
    PROVE  Numbered'
<1>1. /\ conn.client \in Nat /\ shared.generation \in Nat
      /\ conn.client <= MaxConnects /\ shared.generation <= conn.client
      /\ pc \in Handshake => shared.generation < conn.client
  BY Zenon DEF Shapes, Numbered
<1>2. MaxConnects \in Nat
  BY BoundAssumption
<1>3. ASSUME SharedKept, ConnKept, pc' \in Handshake => pc \in Handshake PROVE Numbered'
  BY <1>1, <1>3, Zenon DEF SharedKept, ConnKept, Numbered
<1>4. \A w \in Idle : w \notin Handshake
  BY DEF Idle, Handshake
<1>5. CASE Stays
  BY <1>3, <1>5, Zenon DEF Stays
<1>6. CASE Rounds
  BY <1>3, <1>4, <1>6, RoundsFacts, Zenon
<1>7. CASE Aborts
  BY <1>3, <1>4, <1>7, FailedConnectFacts, Zenon DEF Aborts
<1>8. CASE Opens
  <2>1. /\ conn.client < MaxConnects /\ conn'.client = conn.client + 1
        /\ shared'.generation = shared.generation
    BY <1>8, Zenon DEF Opens, SharedKept
  <2>2. /\ conn'.client <= MaxConnects /\ shared'.generation <= conn'.client
        /\ shared'.generation < conn'.client
    BY ONLY <1>1, <1>2, <2>1
  <2> QED BY <2>2, Zenon DEF Numbered
<1>9. CASE Commits
  <2>1. /\ pc = "listing" /\ pc' = "running" /\ conn'.client = conn.client
        /\ shared'.generation = shared.generation + 1
    BY <1>9, Zenon DEF Commits, ConnKept
  <2>2. pc \in Handshake /\ pc' \notin Handshake
    BY <2>1 DEF Handshake
  <2>3. conn'.client <= MaxConnects /\ shared'.generation <= conn'.client
    BY ONLY <1>1, <1>2, <2>1, <2>2
  <2> QED BY <2>2, <2>3, Zenon DEF Numbered
<1>10. CASE Closes
  <2>1. pc' \notin Handshake
    BY <1>10 DEF Closes, Handshake
  <2>2. conn'.client = conn.client /\ shared'.generation = shared.generation
    BY <1>10, Zenon DEF Closes, ConnKept
  <2> QED BY <1>1, <2>1, <2>2, Zenon DEF Numbered
<1>11. CASE Issues
  BY <1>1, <1>11, Zenon DEF Issues, Numbered
<1> QED BY <1>5, <1>6, <1>7, <1>8, <1>9, <1>10, <1>11, Zenon DEF Kinds

-----------------------------------------------------------------------------

Mirroring == Supervised /\ SharedTyped /\ WireTyped /\ Numbered /\ Following

LEMMA MirroringInit == Init => Mirroring
<1> SUFFICES ASSUME Init PROVE Mirroring
  OBVIOUS
<1>1. Supervised
  BY SupervisedInit
<1>2. /\ shared.state = "disconnected" /\ shared.serverSeq = 0 /\ shared.rootState = <<>>
      /\ shared.subscriptions = {Root} /\ shared.sessionSummaries = {}
      /\ shared.generation = 0 /\ shared.shutdownReason = "none"
      /\ handleSource.shutdownReason = "none"
      /\ conn.client = 0 /\ conn.open = FALSE
  BY Zenon DEF Init, makeInitialShared
<1>3. IsRecord(shared) /\ IsRecord(handleSource)
  <2>1. IsRecord(shared)
    BY DEF Init, makeInitialShared, IsRecord
  <2>2. IsRecord(handleSource)
    BY DEF Init, IsRecord
  <2> QED BY <2>1, <2>2
<1>4. SharedTyped
  BY <1>2, <1>3 DEF SharedTyped, HostStatus, ShutdownReason, Channels
<1>5. pc = "new" /\ log = <<>> /\ events = <<>> /\ sessions = {} /\ gone = {}
      /\ subscribing = {} /\ published = <<>>
  BY Zenon DEF Init
<1>6. MaxSeq \in Nat /\ MaxConnects \in Nat
  BY BoundAssumption
<1>7. WireTyped
  BY <1>5, <1>6 DEF WireTyped
<1>8. Numbered
  BY <1>2, <1>5, <1>6 DEF Numbered, Handshake
<1>9. Increasing(<<>>, 0, 0)
  BY DEF Increasing
<1>10. RootHistory(<<>>, <<>>, 0)
  BY <1>9 DEF RootHistory
<1>11. Mirrored
  <2>1. 0 \in 0..Len(<<>>) /\ Root \in {Root}
    OBVIOUS
  <2> QED BY <1>2, <1>5, <1>9, <1>10, <2>1, Zenon DEF Mirrored
<1>12. Asked /\ Answered /\ Awaited /\ Noted
  BY <1>5 DEF Asked, Answered, Awaited, Noted, Live
<1> QED BY <1>1, <1>4, <1>7, <1>8, <1>11, <1>12 DEF Mirroring, Following

LEMMA MirroringStep == Mirroring /\ [Next]_vars => Mirroring'
<1> SUFFICES ASSUME Mirroring, [Next]_vars PROVE Mirroring'
  OBVIOUS
<1>1. /\ Supervised /\ Shapes /\ ClientsByPhase
      /\ SharedTyped /\ WireTyped /\ Numbered /\ Following
  BY Zenon DEF Mirroring, Supervised
<1>2. Supervised'
  BY <1>1, SupervisedStep
<1>3. policy' = policy /\ Kinds
  BY <1>1, StepKinds
<1>4. Numbered'
  BY <1>1, <1>3, NumberedStep
<1>5. SharedTyped'
  BY <1>1, SharedTypedStep
<1>6. WireTyped'
  BY <1>1, WireTypedStep
<1>7. Following'
  <2>1. CASE LoopStep
    BY <1>1, <2>1, LoopLeaves, LeavesStep
  <2>2. CASE SideStep
    BY <1>1, <2>2, SideIsBeside, BesideStep
  <2>3. CASE FactoryOpens
    BY <1>1, <2>3, OpensStep
  <2>4. CASE ReconnectAnswered \/ InitializeAnswered
    BY <1>1, <2>4, HandshakenStep
  <2>5. CASE Connected
    BY <1>1, <2>5, ConnectedStep
  <2>6. CASE HandleEvent
    BY <1>1, <2>6, HandleStep
  <2>7. ASSUME NEW ch \in Channels, ServerActs(ch) PROVE Following'
    BY <1>1, <2>7, ActsStep
  <2>8. ASSUME NEW s \in Sessions, ServerNotifies(s) PROVE Following'
    BY <1>1, <2>8, NotifiesStep
  <2> QED BY <2>1, <2>2, <2>3, <2>4, <2>5, <2>6, <2>7, <2>8, Steps, Zenon
<1> QED BY <1>2, <1>4, <1>5, <1>6, <1>7, Zenon DEF Mirroring

LEMMA AlwaysMirroring == Spec => []Mirroring
  BY MirroringInit, MirroringStep, PTL DEF Spec

-----------------------------------------------------------------------------

\* Numbers up to one of a set of numbers.
LEMMA IncreasingTyped ==
    ASSUME NEW high \in Nat, NEW n \in Nat, high <= n, NEW s, Increasing(s, 0, high)
    PROVE  s \in Seq(1..n)
<1>1. /\ s \in Seq(Nat) /\ Len(s) \in Nat
      /\ \A i \in 1..Len(s) : s[i] \in Nat /\ 0 < s[i] /\ s[i] <= high
  BY IncreasingFacts, Zenon
<1>2. \A i \in 1..Len(s) : s[i] \in 1..n
  BY <1>1
<1>3. s \in [1..Len(s) -> 1..n]
  BY ONLY <1>1, <1>2
<1> QED BY <1>1, <1>3, SeqDef

LEMMA MirroringTypes ==
    ASSUME Mirroring
    PROVE  TypeOK
<1>1. /\ Shapes /\ ClientsByPhase /\ Generations /\ SharedTyped /\ WireTyped /\ Numbered
      /\ Mirrored
  BY Zenon DEF Mirroring, Supervised, Following
<1>2. MaxSeq \in Nat /\ MaxConnects \in Nat
  BY BoundAssumption
<1>3. Len(log) \in Nat /\ Len(log) <= MaxSeq /\ shared.serverSeq \in 0..Len(log)
  BY <1>1 DEF WireTyped, Mirrored
<1>4. /\ shared.serverSeq \in Nat /\ shared.serverSeq <= MaxSeq
      /\ shared.serverSeq \in 0..MaxSeq
  BY ONLY <1>2, <1>3
<1>5. Increasing(shared.rootState, 0, shared.serverSeq) /\ Increasing(published, 0, shared.serverSeq)
  BY <1>1, Zenon DEF Mirrored, RootHistory
<1>6. shared.rootState \in Seq(1..MaxSeq) /\ published \in Seq(1..MaxSeq)
  BY ONLY <1>2, <1>4, <1>5, IncreasingTyped
<1>7. conn.client \in 0..MaxConnects /\ shared.generation \in 0..MaxConnects
      /\ 0 \in 0..MaxConnects
  BY <1>1, <1>2 DEF Shapes, Numbered
<1>8. /\ shared.currentClient \in {0, conn.client}
      /\ handleSource.currentClient \in {0, conn.client}
      /\ clients \subseteq {conn.client}
  BY <1>1, Zenon DEF ClientsByPhase
<1>9. /\ shared.currentClient \in ClientIds /\ handleSource.currentClient \in ClientIds
      /\ clients \subseteq ClientIds
  BY <1>7, <1>8, Zenon DEF ClientIds
<1>10. shared \in HostShared
  <2>1. /\ shared = [f \in DOMAIN shared |-> shared[f]]
        /\ DOMAIN shared = {"state", "serverSeq", "rootState", "subscriptions",
                            "sessionSummaries", "generation", "currentClient",
                            "shutdownReason"}
        /\ shared.state \in HostStatus /\ shared.shutdownReason \in ShutdownReason
        /\ shared.subscriptions \in SUBSET Channels
        /\ shared.sessionSummaries \in SUBSET Sessions
    BY <1>1, Zenon DEF SharedTyped, IsRecord, Shapes
  <2> QED BY ONLY <1>4, <1>6, <1>7, <1>9, <2>1 DEF HostShared
<1>11. handleSource \in HostClientHandleSource
  <2>1. /\ handleSource = [f \in DOMAIN handleSource |-> handleSource[f]]
        /\ DOMAIN handleSource = {"generation", "currentClient", "shutdownReason"}
        /\ handleSource.shutdownReason \in ShutdownReason
        /\ handleSource.generation \in 0..MaxConnects
    BY <1>1, <1>7, Zenon DEF SharedTyped, IsRecord, Shapes, Generations
  <2> QED BY ONLY <1>9, <2>1 DEF HostClientHandleSource
<1>12. policy \in Policies /\ attempt \in Nat
  BY <1>1, Zenon DEF Shapes
<1> QED BY <1>6, <1>9, <1>10, <1>11, <1>12, Zenon DEF TypeOK

\* While a connection is live, the mirrored root state of the host with the root
\* actions that client.events() still holds is the server's root history, and
\* the session summaries with the notifications it still holds are the server's
\* sessions: for every set of channels and sessions, every policy and any number
\* of reconnects, replays, snapshots, refusals and lost connections.  What
\* fanOut() publishes is in the order of the server and repeats nothing.
THEOREM MirrorsFollow == Spec => []MirrorsFollowServer
<1>1. ASSUME Mirroring PROVE MirrorsFollowServer
  <2>1. /\ WireTyped /\ Mirrored /\ Awaited /\ Noted
    BY <1>1, Zenon DEF Mirroring, Following
  <2>2. /\ log \in Seq(Channels) /\ events \in Seq(Event) /\ sessions \in SUBSET Sessions
        /\ Len(log) \in Nat
    BY <2>1 DEF WireTyped
  <2>3. TypeOK
    BY <1>1, MirroringTypes
  <2>4. ASSUME pc = "running", conn.open PROVE shared.rootState \o Buffered = RootAt(Len(log))
    <3>1. Reach = shared.serverSeq
      BY <2>4, Zenon DEF Reach
    <3>2. /\ shared.serverSeq \in 0..Len(log)
          /\ RootHistory(log, shared.rootState, shared.serverSeq)
          /\ Buffers(log, events, shared.serverSeq, conn.open)
      BY <2>1, <2>4, <3>1, Zenon DEF Mirrored, Awaited, Live
    <3>3. Buffers(log, events, shared.serverSeq, TRUE)
      BY <2>4, <3>2, Zenon DEF Buffers
    <3>4. shared.rootState \o NumbersOf(RootActions(log, events))
             = Kept(UpTo(Len(log)), RootNumbers(log))
      BY ONLY <2>2, <3>2, <3>3, HistoryComplete
    <3>5. Numbers({Root}) = RootNumbers(log)
      BY Zenon DEF Numbers, RootNumbers
    <3>6. Buffered = NumbersOf(RootActions(log, events))
      BY <3>5 DEF Buffered, NumbersOf, RootActions
    <3>7. RootAt(Len(log)) = Kept(UpTo(Len(log)), RootNumbers(log))
      BY <3>5 DEF RootAt, UpTo
    <3> QED BY <3>4, <3>6, <3>7, Zenon
  <2>5. ASSUME pc = "running", conn.open, listed PROVE AfterNotes = sessions
    <3>1. \A s \in Sessions : /\ LastAgrees(events, s, sessions)
                              /\ SummaryAgrees(events, s, shared.sessionSummaries, sessions)
      BY <2>1, <2>5, Zenon DEF Noted, Live
    <3>2. {s \in Sessions : IF About(events, s) = {} THEN s \in shared.sessionSummaries
                            ELSE events[Max(About(events, s))].type = "sessionAdded"} = sessions
      BY ONLY <2>2, <3>1, SummariesComplete
    <3> QED BY <3>2, Zenon DEF AfterNotes, About
  <2>6. \A i \in 1..(Len(published) - 1) : published[i] < published[i + 1]
    <3>1. Increasing(published, 0, shared.serverSeq)
      BY <2>1, Zenon DEF Mirrored
    <3>2. /\ Len(published) \in Nat
          /\ \A i, j \in 1..Len(published) : i < j => published[i] < published[j]
      BY <3>1, IncreasingFacts, Zenon
    <3> QED BY <3>2
  <2> QED BY <2>3, <2>4, <2>5, <2>6, Zenon DEF MirrorsFollowServer
<1>2. Mirroring => MirrorsFollowServer
  BY <1>1
<1> QED BY <1>2, AlwaysMirroring, PTL

=============================================================================
