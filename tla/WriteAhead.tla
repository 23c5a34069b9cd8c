----------------------------- MODULE WriteAhead -----------------------------
(***************************************************************************)
(* Write-ahead reconciliation between one host and its clients, as the      *)
(* NotebookSession of docs/.vitepress/theme/notebook.ts runs it: a client   *)
(* shows its own actions before the host has ordered them, the host's order *)
(* wins, and a client that lost its connection catches up from a replay or  *)
(* a snapshot.                                                              *)
(*                                                                          *)
(* The reducer is deterministic, so a chat state is represented by the      *)
(* sequence of actions it was reduced from; equal sequences are equal       *)
(* states.  The host's state is therefore its log.  Sequence numbers count  *)
(* from 1 (the notebook starts at subscribedSeq).  The wire from a client   *)
(* to the host is first-in first-out and may lose its tail when the         *)
(* connection drops; the wire back is the outbox.                           *)
(***************************************************************************)
EXTENDS Integers, Sequences, FiniteSets, SequencesExt, Subsequence

CONSTANTS
    Devices,        \* the clients
    Host,           \* origin of the agent's own actions
    MaxEmits,       \* bound: actions of the agent
    MaxDispatch,    \* bound: actions one client ever dispatches
    MaxDrops        \* bound: connections lost

ASSUME HostAssumption == Host \notin Devices
ASSUME BoundAssumption == {MaxEmits, MaxDispatch, MaxDrops} \subseteq Nat

VARIABLES
    log,            \* host: the actions in the order of their serverSeq
    link,           \* per client: "connected", "offline", "reconnecting"
    confirmed,      \* per client: the state acknowledged by the host
    pending,        \* per client: own actions not echoed yet
    lastSeen,       \* per client: lastSeenServerSeq
    nextClientSeq,  \* per client
    outbox,         \* per client: serverSeqs sent and not delivered yet
    inflight,       \* per client: clientSeqs sent and not received yet
    drops           \* connections lost so far

deviceVars == <<link, confirmed, pending, lastSeen, nextClientSeq>>
vars == <<deviceVars, log, outbox, inflight, drops>>

\* The n-th action of d.
Action(d, n) == [from |-> d, n |-> n]

\* optimisticState(): what a client shows, its pending actions on top of the confirmed state.
Optimistic(d) == confirmed[d] \o [i \in 1..Len(pending[d]) |-> Action(d, pending[d][i])]

Init ==
    /\ log = <<>>
    /\ link = [d \in Devices |-> "connected"]
    /\ confirmed = [d \in Devices |-> <<>>]
    /\ pending = [d \in Devices |-> <<>>]
    /\ lastSeen = [d \in Devices |-> 0]
    /\ nextClientSeq = [d \in Devices |-> 1]
    /\ outbox = [d \in Devices |-> <<>>]
    /\ inflight = [d \in Devices |-> <<>>]
    /\ drops = 0

-----------------------------------------------------------------------------
\* Faulty: skips clients that have not drained what was sent before.
FaultyPublish(action) ==
    /\ log' = Append(log, action)
    /\ outbox' = [d \in Devices |->
           IF link[d] = "connected" /\ outbox[d] = <<>>
           THEN Append(outbox[d], Len(log) + 1) ELSE outbox[d]]

\* publish(): reduce, stamp the next serverSeq, queue for connected clients.
Publish(action) ==
    /\ log' = Append(log, action)
    /\ outbox' = [d \in Devices |->
           IF link[d] = "connected" THEN Append(outbox[d], Len(log) + 1)
           ELSE outbox[d]]

\* dispatch(): write ahead and send.  It throws unless connected.
Dispatch(d) ==
    /\ link[d] = "connected"
    /\ nextClientSeq[d] <= MaxDispatch
    /\ nextClientSeq' = [nextClientSeq EXCEPT ![d] = @ + 1]
    /\ pending' = [pending EXCEPT ![d] = Append(@, nextClientSeq[d])]
    /\ inflight' = [inflight EXCEPT ![d] = Append(@, nextClientSeq[d])]
    /\ UNCHANGED <<link, confirmed, lastSeen, log, outbox, drops>>

\* receive(): the host accepts a dispatched action; it throws for one that is
\* no longer pending, which leaves nothing but the consumed message.
Receive(d) ==
    /\ inflight[d] # <<>>
    /\ inflight' = [inflight EXCEPT ![d] = Tail(@)]
    /\ IF Contains(pending[d], Head(inflight[d]))
       THEN Publish(Action(d, Head(inflight[d])))
       ELSE UNCHANGED <<log, outbox>>
    /\ UNCHANGED <<deviceVars, drops>>

\* emit(): an action of the agent itself.
Emit ==
    /\ LET emits == Cardinality({i \in DOMAIN log : log[i].from = Host})
       IN  emits < MaxEmits /\ Publish(Action(Host, emits + 1))
    /\ UNCHANGED <<deviceVars, inflight, drops>>

-----------------------------------------------------------------------------
\* Faulty: an echo of the client's own action leaves it pending.
FaultyKeepsEchoed(d, seqs) == pending[d]

\* The pending actions that none of the envelopes echoes.
Unconfirmed(d, seqs) ==
    LET echoed == {log[n].n : n \in {m \in ToSet(seqs) : log[m].from = d}}
    IN  Kept(pending[d], ToSet(pending[d]) \ echoed)

\* apply() throws for an envelope at or below lastSeenServerSeq.
InOrder(d, seqs) ==
    \A i \in 1..Len(seqs) : seqs[i] > IF i = 1 THEN lastSeen[d] ELSE seqs[i - 1]

\* The confirmed state with the envelopes applied.
Reduced(d, seqs) == confirmed[d] \o [i \in 1..Len(seqs) |-> log[seqs[i]]]

\* flush(): deliver everything queued for the client, in order.
Flush(d) ==
    /\ outbox[d] # <<>>
    /\ InOrder(d, outbox[d])
    /\ confirmed' = [confirmed EXCEPT ![d] = Reduced(d, outbox[d])]
    /\ lastSeen' = [lastSeen EXCEPT ![d] = Last(outbox[d])]
    /\ pending' = [pending EXCEPT ![d] = Unconfirmed(d, outbox[d])]
    /\ outbox' = [outbox EXCEPT ![d] = <<>>]
    /\ UNCHANGED <<link, nextClientSeq, log, inflight, drops>>

\* disconnect(): what was not delivered on the socket is gone.
Disconnect(d) ==
    /\ link[d] = "connected" /\ drops < MaxDrops
    /\ drops' = drops + 1
    /\ link' = [link EXCEPT ![d] = "offline"]
    /\ outbox' = [outbox EXCEPT ![d] = <<>>]
    /\ UNCHANGED <<confirmed, pending, lastSeen, nextClientSeq, log, inflight>>

\* The tail of what the client had sent is lost with the socket.
LoseInflight(d) ==
    /\ link[d] # "connected" /\ inflight[d] # <<>>
    /\ inflight' = [inflight EXCEPT ![d] = Front(@)]
    /\ UNCHANGED <<deviceVars, log, outbox, drops>>

\* reconnectRequest(): asks with the client's lastSeenServerSeq, which cannot
\* change until the answer is in.
ReconnectRequest(d) ==
    /\ link[d] = "offline"
    /\ link' = [link EXCEPT ![d] = "reconnecting"]
    /\ UNCHANGED <<confirmed, pending, lastSeen, nextClientSeq,
                   log, outbox, inflight, drops>>

\* Faulty: the replay starts one envelope late.
FaultyMissed(d) == [i \in 1..(Len(log) - lastSeen[d] - 1) |-> lastSeen[d] + 1 + i]

\* The envelopes a replay carries: the host's log after the client's bookmark.
Missed(d) == [i \in 1..(Len(log) - lastSeen[d]) |-> lastSeen[d] + i]

\* Whether the host's replay buffer, which reaches back to replayFrom, covers
\* the client's gap.
InBuffer(d, replayFrom) == lastSeen[d] + 1 >= replayFrom

\* reconnectResult() and completeReconnect() with a replay: pending is cleared,
\* then the missed envelopes are applied.
CompleteReplay(d, replayFrom) ==
    /\ link[d] = "reconnecting"
    /\ InBuffer(d, replayFrom)
    /\ LET seqs == Missed(d)
       IN  /\ InOrder(d, seqs)
           /\ confirmed' = [confirmed EXCEPT ![d] = Reduced(d, seqs)]
           /\ lastSeen' = [lastSeen EXCEPT ![d] = IF seqs = <<>> THEN @ ELSE Last(seqs)]
    /\ pending' = [pending EXCEPT ![d] = <<>>]
    /\ link' = [link EXCEPT ![d] = "connected"]
    /\ UNCHANGED <<nextClientSeq, log, outbox, inflight, drops>>

\* ... and with fresh snapshots, when the gap is too old to replay.
CompleteSnapshot(d, replayFrom) ==
    /\ link[d] = "reconnecting"
    /\ ~InBuffer(d, replayFrom)
    /\ confirmed' = [confirmed EXCEPT ![d] = log]
    /\ lastSeen' = [lastSeen EXCEPT ![d] = Len(log)]
    /\ pending' = [pending EXCEPT ![d] = <<>>]
    /\ link' = [link EXCEPT ![d] = "connected"]
    /\ UNCHANGED <<nextClientSeq, log, outbox, inflight, drops>>

Reconnect(d) ==
    \E replayFrom \in 1..(Len(log) + 1) :
       CompleteReplay(d, replayFrom) \/ CompleteSnapshot(d, replayFrom)

Next ==
    \/ Emit
    \/ \E d \in Devices : \/ Dispatch(d)
                          \/ Receive(d)
                          \/ Flush(d)
                          \/ Disconnect(d)
                          \/ LoseInflight(d)
                          \/ ReconnectRequest(d)
                          \/ Reconnect(d)

Spec == Init /\ [][Next]_vars

\* Messages on a live connection arrive, and a client that lost its connection
\* keeps trying to reconnect.
Fairness ==
    \A d \in Devices : /\ WF_vars(Receive(d))
                       /\ WF_vars(Flush(d))
                       /\ WF_vars(ReconnectRequest(d))
                       /\ WF_vars(Reconnect(d))

FairSpec == Spec /\ Fairness

-----------------------------------------------------------------------------
(* Properties.                                                             *)

Actions == [from : Devices \cup {Host}, n : Nat]

\* Every variable has its type.
TypeOK ==
    /\ log \in Seq(Actions)
    /\ link \in [Devices -> {"connected", "offline", "reconnecting"}]
    /\ confirmed \in [Devices -> Seq(Actions)]
    /\ pending \in [Devices -> Seq(Nat)]
    /\ lastSeen \in [Devices -> Nat]
    /\ nextClientSeq \in [Devices -> Nat]
    /\ outbox \in [Devices -> Seq(Nat)]
    /\ inflight \in [Devices -> Seq(Nat)]
    /\ drops \in Nat

\* A client's confirmed state is always the host's state as of the serverSeq it
\* has seen: no interleaving of flush(), disconnect() and reconnect skips,
\* repeats or reorders an envelope.
ConfirmedIsPrefix ==
    \A d \in Devices : /\ lastSeen[d] <= Len(log)
                       /\ confirmed[d] = SubSeq(log, 1, lastSeen[d])

\* What is queued for a client is exactly what it has not seen, so apply() never
\* meets the out-of-order envelope it throws for; nothing is queued for a client
\* that is not connected.
OutboxIsRest ==
    \A d \in Devices :
       outbox[d] = IF link[d] = "connected"
                   THEN [i \in 1..(Len(log) - lastSeen[d]) |-> lastSeen[d] + i]
                   ELSE <<>>

\* No action is shown twice: an action the host has ordered leaves pending in
\* the same step that confirms it.
NothingShownTwice == \A d \in Devices : IsInjective(Optimistic(d))

\* On a live connection every pending action is on its way: either to the host
\* or back.  An entry that is neither would be shown as unsent for ever.
PendingIsUnderway ==
    \A d \in Devices : link[d] = "connected" =>
       \A n \in ToSet(pending[d]) :
          \/ Contains(inflight[d], n)
          \/ \E m \in ToSet(outbox[d]) : log[m] = Action(d, n)

\* The host orders the actions of one client as the client dispatched them.
DispatchOrderKept ==
    \A i, j \in 1..Len(log) :
       i < j /\ log[i].from = log[j].from => log[i].n < log[j].n

\* The confirmed side of a client: its state is a prefix of the host's, and what
\* is queued for it is exactly the rest.
ConfirmedSideSound == TypeOK /\ ConfirmedIsPrefix /\ OutboxIsRest

\* The optimistic side: nothing shown twice, nothing shown as unsent that is not
\* on its way, and the host's order of a client's actions is the client's own.
OptimisticSideSound == NothingShownTwice /\ PendingIsUnderway /\ DispatchOrderKept

\* converged() of the notebook: nothing pending and the host's own state.
Converged(d) == pending[d] = <<>> /\ confirmed[d] = log

\* Once the agent and the users stop acting and connections stop dropping,
\* every client converges to the host's state.
EventuallyConverged == \A d \in Devices : <>[]Converged(d)

=============================================================================
