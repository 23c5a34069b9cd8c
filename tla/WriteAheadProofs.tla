-------------------------- MODULE WriteAheadProofs --------------------------
(***************************************************************************)
(* Proofs about WriteAhead, for any set of devices and any bounds.          *)
(***************************************************************************)
EXTENDS WriteAhead, SubsequenceProofs, FiniteSetTheorems

\* ConfirmedIsPrefix for one client, element by element.
Prefix(d) ==
    /\ lastSeen[d] <= Len(log) /\ Len(confirmed[d]) = lastSeen[d]
    /\ \A i \in 1..lastSeen[d] : confirmed[d][i] = log[i]

\* OutboxIsRest for one client, element by element.
Rest(d) ==
    IF link[d] = "connected"
    THEN /\ Len(outbox[d]) = Len(log) - lastSeen[d]
         /\ \A i \in 1..Len(outbox[d]) : outbox[d][i] = lastSeen[d] + i
    ELSE outbox[d] = <<>>

Sound == TypeOK /\ \A d \in Devices : Prefix(d) /\ Rest(d)

Increasing(s) == \A i, j \in 1..Len(s) : i < j => s[i] < s[j]

\* What a client has sent is numbered in order, and what is on its way comes
\* after what the host has ordered.
Numbered(d) ==
    /\ Increasing(pending[d]) /\ Increasing(inflight[d])
    /\ \A i \in 1..Len(pending[d]) : pending[d][i] < nextClientSeq[d]
    /\ \A i \in 1..Len(inflight[d]) : inflight[d][i] < nextClientSeq[d]
    /\ \A m \in 1..Len(log) : log[m].from = d =>
          /\ log[m].n < nextClientSeq[d]
          /\ \A i \in 1..Len(inflight[d]) : log[m].n < inflight[d][i]

\* No pending action is confirmed already.
Unseen(d) ==
    \A i \in 1..Len(pending[d]), m \in 1..lastSeen[d] : log[m] # Action(d, pending[d][i])

\* PendingIsUnderway for one client, element by element.
Underway(d) ==
    link[d] = "connected" =>
       \A i \in 1..Len(pending[d]) :
          \/ \E j \in 1..Len(inflight[d]) : inflight[d][j] = pending[d][i]
          \/ \E m \in (lastSeen[d] + 1)..Len(log) : log[m] = Action(d, pending[d][i])

\* The agent's own actions are numbered by how many there are.
HostOrder ==
    \A m \in DOMAIN log : log[m].from = Host =>
        log[m].n <= Cardinality({i \in DOMAIN log : log[i].from = Host})

Ahead == \A d \in Devices : Numbered(d) /\ Unseen(d) /\ Underway(d)

IInv == Sound /\ DispatchOrderKept /\ HostOrder /\ Ahead

-----------------------------------------------------------------------------
(* The confirmed side.                                                     *)

(* A chat starts with an empty log, empty mirrors and empty outboxes.       *)
LEMMA InitSound == Init => Sound
  <1> SUFFICES ASSUME Init PROVE Sound
    OBVIOUS
  <1>1. TypeOK
    BY BoundAssumption DEF Init, TypeOK
  <1>2. \A d \in Devices : Prefix(d) /\ Rest(d)
    BY DEF Init, Prefix, Rest
  <1> QED
    BY <1>1, <1>2 DEF Sound

(* publish() extends the log, and the outbox of every connected client with *)
(* the new serverSeq, which is the one after the last it was sent.          *)
LEMMA PublishSound ==
    ASSUME Sound, NEW a \in Actions, Publish(a), UNCHANGED <<deviceVars, drops>>,
           inflight' \in [Devices -> Seq(Nat)]
    PROVE  Sound'
  <1> USE DEF deviceVars
  <1>1. log \in Seq(Actions) /\ log' \in Seq(Actions) /\ Len(log') = Len(log) + 1
        /\ \A i \in 1..Len(log) : log'[i] = log[i]
    BY DEF Sound, Publish, TypeOK
  <1>2. Len(log) + 1 \in Nat
    BY <1>1
  <1>3. outbox' \in [Devices -> Seq(Nat)]
    BY <1>2 DEF Sound, Publish, TypeOK
  <1>4. TypeOK'
    BY <1>1, <1>3 DEF Sound, TypeOK
  <1>5. ASSUME NEW d \in Devices PROVE Prefix(d)'
    <2>1. lastSeen[d] \in Nat /\ Len(log) \in Nat
      BY DEF Sound, TypeOK
    <2>2. Prefix(d)
      BY DEF Sound
    <2>3. lastSeen' = lastSeen /\ confirmed' = confirmed
      OBVIOUS
    <2> QED
      BY ONLY <2>1, <2>2, <2>3, <1>1 DEF Prefix
  <1>6. ASSUME NEW d \in Devices PROVE Rest(d)'
    <2>1. outbox[d] \in Seq(Nat) /\ lastSeen[d] \in Nat
      BY DEF Sound, TypeOK
    <2>2. CASE link[d] = "connected"
      <3>1. outbox'[d] = Append(outbox[d], Len(log) + 1) /\ link'[d] = "connected"
        BY <2>2 DEF Publish
      <3>2. Len(outbox[d]) = Len(log) - lastSeen[d]
            /\ \A i \in 1..Len(outbox[d]) : outbox[d][i] = lastSeen[d] + i
        BY <2>2 DEF Sound, Rest
      <3>3. Len(outbox'[d]) = Len(outbox[d]) + 1
            /\ outbox'[d][Len(outbox[d]) + 1] = Len(log) + 1
            /\ \A i \in 1..Len(outbox[d]) : outbox'[d][i] = outbox[d][i]
        BY <2>1, <3>1, <1>2
      <3>4. \A i \in 1..Len(outbox'[d]) : outbox'[d][i] = lastSeen[d] + i
        <4>1. Len(outbox[d]) \in Nat /\ Len(log) \in Nat
          BY <2>1, <1>1
        <4>2. \A i \in 1..Len(outbox'[d]) : i \in 1..Len(outbox[d]) \/ i = Len(outbox[d]) + 1
          BY <3>3, <4>1
        <4>3. Len(log) + 1 = lastSeen[d] + (Len(outbox[d]) + 1)
          BY <2>1, <3>2, <4>1
        <4> QED
          BY <3>2, <3>3, <4>2, <4>3
      <3>5. lastSeen'[d] = lastSeen[d] /\ Len(outbox'[d]) = Len(log') - lastSeen[d]
        BY <3>2, <3>3, <1>1, <2>1
      <3> QED
        BY <3>1, <3>4, <3>5 DEF Rest
    <2>3. CASE link[d] # "connected"
      BY <2>3 DEF Sound, Publish, Rest
    <2> QED
      BY <2>2, <2>3
  <1> QED
    BY <1>4, <1>5, <1>6 DEF Sound

(* dispatch() leaves the confirmed side alone.                              *)
LEMMA DispatchSound ==
    ASSUME Sound, NEW d \in Devices, Dispatch(d)
    PROVE  Sound'
  <1>1. TypeOK'
    <2>1. nextClientSeq[d] \in Nat
      BY DEF Sound, TypeOK
    <2>2. pending' \in [Devices -> Seq(Nat)] /\ inflight' \in [Devices -> Seq(Nat)]
      BY <2>1 DEF Sound, TypeOK, Dispatch
    <2>3. nextClientSeq' \in [Devices -> Nat]
      BY <2>1 DEF Sound, TypeOK, Dispatch
    <2> QED
      BY <2>2, <2>3 DEF Sound, TypeOK, Dispatch
  <1>2. \A e \in Devices : Prefix(e)' /\ Rest(e)'
    BY DEF Sound, Dispatch, Prefix, Rest
  <1> QED
    BY <1>1, <1>2 DEF Sound

(* receive() publishes an action that is pending, or drops the message.     *)
LEMMA ReceiveSound ==
    ASSUME Sound, NEW d \in Devices, Receive(d)
    PROVE  Sound'
  <1>1. inflight[d] \in Seq(Nat) /\ inflight[d] # <<>>
    BY DEF Sound, TypeOK, Receive
  <1>2. Head(inflight[d]) \in Nat /\ Tail(inflight[d]) \in Seq(Nat)
    BY <1>1
  <1>3. inflight' \in [Devices -> Seq(Nat)]
    BY <1>2 DEF Sound, TypeOK, Receive
  <1>4. CASE Contains(pending[d], Head(inflight[d]))
    <2>1. Action(d, Head(inflight[d])) \in Actions
      BY <1>2 DEF Action, Actions
    <2>2. Publish(Action(d, Head(inflight[d]))) /\ UNCHANGED <<deviceVars, drops>>
      BY <1>4 DEF Receive
    <2> QED
      BY <1>3, <2>1, <2>2, PublishSound
  <1>5. CASE ~Contains(pending[d], Head(inflight[d]))
    <2>1. UNCHANGED <<deviceVars, drops, log, outbox>>
      BY <1>5 DEF Receive
    <2> QED
      BY <1>3, <2>1 DEF Sound, TypeOK, deviceVars, Prefix, Rest
  <1> QED
    BY <1>4, <1>5

(* emit() publishes an action of the agent.                                 *)
LEMMA EmitCount ==
    ASSUME Sound
    PROVE  /\ IsFiniteSet({i \in DOMAIN log : log[i].from = Host})
           /\ Cardinality({i \in DOMAIN log : log[i].from = Host}) \in Nat
  <1>1. Len(log) \in Nat /\ DOMAIN log = 1..Len(log)
    BY DEF Sound, TypeOK
  <1>2. IsFiniteSet(1..Len(log))
    BY <1>1, FS_Interval
  <1>3. {i \in DOMAIN log : log[i].from = Host} \subseteq 1..Len(log)
    BY <1>1
  <1>4. IsFiniteSet({i \in DOMAIN log : log[i].from = Host})
    BY <1>2, <1>3, FS_Subset
  <1> QED
    BY <1>4, FS_CardinalityType

LEMMA EmitSound ==
    ASSUME Sound, Emit
    PROVE  Sound'
  <1> DEFINE emits == Cardinality({i \in DOMAIN log : log[i].from = Host})
  <1>1. emits \in Nat
    BY EmitCount
  <1>2. Publish(Action(Host, emits + 1)) /\ UNCHANGED <<deviceVars, inflight, drops>>
    BY DEF Emit
  <1> HIDE DEF emits
  <1>3. Action(Host, emits + 1) \in Actions
    BY <1>1 DEF Action, Actions
  <1>4. inflight' \in [Devices -> Seq(Nat)]
    BY <1>2 DEF Sound, TypeOK
  <1> QED
    BY <1>2, <1>3, <1>4, PublishSound

(* Applying the rest of the log to a prefix of it gives the log.            *)
LEMMA RestApplied ==
    ASSUME Sound, NEW d \in Devices, NEW seqs \in Seq(Nat),
           Len(seqs) = Len(log) - lastSeen[d],
           \A i \in 1..Len(seqs) : seqs[i] = lastSeen[d] + i
    PROVE  /\ Reduced(d, seqs) \in Seq(Actions)
           /\ Len(Reduced(d, seqs)) = Len(log)
           /\ \A i \in 1..Len(log) : Reduced(d, seqs)[i] = log[i]
  <1> DEFINE c == confirmed[d]
             s == [i \in 1..Len(seqs) |-> log[seqs[i]]]
  <1>1. c \in Seq(Actions) /\ log \in Seq(Actions) /\ lastSeen[d] \in Nat
    BY DEF Sound, TypeOK
  <1>2. lastSeen[d] <= Len(log) /\ Len(c) = lastSeen[d]
        /\ \A i \in 1..lastSeen[d] : c[i] = log[i]
    BY DEF Sound, Prefix
  <1>3. Len(seqs) \in Nat /\ Len(log) \in Nat
    BY <1>1
  <1>4. \A i \in 1..Len(seqs) : seqs[i] \in 1..Len(log)
    <2> DEFINE n == Len(seqs)
               k == lastSeen[d]
               l == Len(log)
    <2>1. n = l - k /\ n \in Nat /\ k \in Nat /\ l \in Nat
          /\ \A i \in 1..n : seqs[i] = k + i
      BY <1>1, <1>3
    <2> HIDE DEF n, k, l
    <2>2. \A i \in 1..n : seqs[i] \in 1..l
      BY ONLY <2>1
    <2> QED
      BY ONLY <2>2 DEF n, l
  <1>5. \A i \in 1..Len(seqs) : log[seqs[i]] \in Actions
    BY <1>1, <1>4
  <1>6. s \in Seq(Actions) /\ Len(s) = Len(seqs)
    BY <1>3, <1>5, IsASeq
  <1>7. \A i \in 1..Len(s) : s[i] = log[lastSeen[d] + i]
    BY <1>6
  <1>8. Reduced(d, seqs) = c \o s
    BY DEF Reduced
  <1> HIDE DEF c, s
  <1>9. /\ c \o s \in Seq(Actions) /\ Len(c \o s) = Len(c) + Len(s)
        /\ \A i \in 1..(Len(c) + Len(s)) :
              (c \o s)[i] = IF i <= Len(c) THEN c[i] ELSE s[i - Len(c)]
    <2>1. c \in Seq(Actions) /\ s \in Seq(Actions)
      BY <1>1, <1>6
    <2> QED
      BY ONLY <2>1, ConcatProperties
  <1>10. Len(c \o s) = Len(log)
    BY <1>2, <1>3, <1>6, <1>9, <1>1
  <1>11. ASSUME NEW i \in 1..Len(log) PROVE (c \o s)[i] = log[i]
    <2>1. CASE i <= Len(c)
      BY <2>1, <1>1, <1>2, <1>9, <1>10
    <2>2. CASE ~(i <= Len(c))
      <3>1. i - Len(c) \in 1..Len(s) /\ lastSeen[d] + (i - Len(c)) = i
        <4>1. i \in Int /\ 1 <= i /\ i <= Len(log) /\ Len(c) \in Nat
          BY <1>1, <1>2, <1>3
        <4>2. Len(s) = Len(log) - Len(c)
          BY <1>2, <1>6
        <4> QED
          BY ONLY <4>1, <4>2, <2>2, <1>2, <1>3
      <3> QED
        BY <3>1, <2>2, <1>7, <1>9, <1>10
    <2> QED
      BY <2>1, <2>2
  <1> QED
    BY <1>8, <1>9, <1>10, <1>11

(* A client that has applied the whole log, and whose outbox is empty, is   *)
(* sound again.                                                             *)
LEMMA CaughtUp ==
    ASSUME Sound, NEW d \in Devices,
           confirmed' \in [Devices -> Seq(Actions)], pending' \in [Devices -> Seq(Nat)],
           link' \in [Devices -> {"connected", "offline", "reconnecting"}],
           lastSeen' \in [Devices -> Nat], outbox' \in [Devices -> Seq(Nat)],
           lastSeen'[d] = Len(log), Len(confirmed'[d]) = Len(log),
           \A i \in 1..Len(log) : confirmed'[d][i] = log[i],
           outbox'[d] = <<>>,
           \A e \in Devices \ {d} : /\ confirmed'[e] = confirmed[e] /\ lastSeen'[e] = lastSeen[e]
                                    /\ outbox'[e] = outbox[e] /\ link'[e] = link[e],
           UNCHANGED <<nextClientSeq, log, inflight, drops>>
    PROVE  Sound'
  <1>1. TypeOK'
    BY DEF Sound, TypeOK
  <1>2. ASSUME NEW e \in Devices, e # d PROVE Prefix(e)' /\ Rest(e)'
    <2>1. /\ confirmed'[e] = confirmed[e] /\ lastSeen'[e] = lastSeen[e]
          /\ outbox'[e] = outbox[e] /\ link'[e] = link[e] /\ log' = log
      BY <1>2
    <2>2. Prefix(e) /\ Rest(e)
      BY DEF Sound
    <2> QED
      BY ONLY <2>1, <2>2 DEF Prefix, Rest
  <1>3. Len(log) \in Nat
    BY DEF Sound, TypeOK
  <1>4. Prefix(d)'
    BY <1>3 DEF Prefix
  <1>5. Rest(d)'
    BY <1>3 DEF Rest
  <1> QED
    BY <1>1, <1>2, <1>4, <1>5 DEF Sound

(* flush() applies the outbox, which is the rest of the log.                *)
LEMMA FlushSound ==
    ASSUME Sound, NEW d \in Devices, Flush(d)
    PROVE  Sound'
  <1> DEFINE q == outbox[d]
  <1>1. q \in Seq(Nat) /\ q # <<>> /\ lastSeen[d] \in Nat /\ Len(log) \in Nat
    BY DEF Sound, TypeOK, Flush
  <1>2. Len(q) = Len(log) - lastSeen[d] /\ \A i \in 1..Len(q) : q[i] = lastSeen[d] + i
    BY <1>1 DEF Sound, Rest
  <1>3. /\ confirmed' = [confirmed EXCEPT ![d] = Reduced(d, q)]
        /\ lastSeen' = [lastSeen EXCEPT ![d] = Last(q)]
        /\ pending' = [pending EXCEPT ![d] = Unconfirmed(d, q)]
        /\ outbox' = [outbox EXCEPT ![d] = <<>>]
        /\ UNCHANGED <<link, nextClientSeq, log, inflight, drops>>
    BY DEF Flush
  <1> HIDE DEF q
  <1>4. /\ Reduced(d, q) \in Seq(Actions) /\ Len(Reduced(d, q)) = Len(log)
        /\ \A i \in 1..Len(log) : Reduced(d, q)[i] = log[i]
    BY <1>1, <1>2, RestApplied
  <1>5. Last(q) = Len(log) /\ Last(q) \in Nat
    BY <1>1, <1>2 DEF Last
  <1>6. Unconfirmed(d, q) \in Seq(Nat)
    <2>1. pending[d] \in Seq(Nat)
      BY DEF Sound, TypeOK
    <2> QED
      BY <2>1, KeptIndex DEF Unconfirmed
  <1>7. /\ confirmed' \in [Devices -> Seq(Actions)] /\ lastSeen' \in [Devices -> Nat]
        /\ pending' \in [Devices -> Seq(Nat)] /\ outbox' \in [Devices -> Seq(Nat)]
        /\ link' \in [Devices -> {"connected", "offline", "reconnecting"}]
    <2>1. confirmed \in [Devices -> Seq(Actions)]
      BY DEF Sound, TypeOK
    <2> QED
      BY <1>3, <1>4, <1>5, <1>6, <2>1 DEF Sound, TypeOK
  <1>8. /\ confirmed'[d] = Reduced(d, q) /\ lastSeen'[d] = Len(log) /\ outbox'[d] = <<>>
        /\ \A e \in Devices \ {d} : /\ confirmed'[e] = confirmed[e] /\ lastSeen'[e] = lastSeen[e]
                                    /\ outbox'[e] = outbox[e] /\ link'[e] = link[e]
    BY <1>3, <1>5 DEF Sound, TypeOK
  <1> QED
    BY <1>3, <1>4, <1>7, <1>8, CaughtUp

(* disconnect() and reconnectRequest() leave an empty outbox behind.        *)
LEMMA LinkSound ==
    ASSUME Sound, NEW d \in Devices, Disconnect(d) \/ ReconnectRequest(d)
    PROVE  Sound'
  <1>1. TypeOK'
    <2>1. CASE Disconnect(d)
      BY <2>1 DEF Sound, TypeOK, Disconnect
    <2>2. CASE ReconnectRequest(d)
      BY <2>2 DEF Sound, TypeOK, ReconnectRequest
    <2> QED
      BY <2>1, <2>2
  <1>2. \A e \in Devices : Prefix(e)'
    BY DEF Sound, Prefix, Disconnect, ReconnectRequest
  <1>3. ASSUME NEW e \in Devices PROVE Rest(e)'
    <2>1. outbox[e] = outbox'[e] \/ outbox'[e] = <<>>
      BY DEF Sound, TypeOK, Disconnect, ReconnectRequest
    <2>2. CASE e = d
      <3>1. outbox'[d] = <<>> /\ link'[d] # "connected"
        BY DEF Sound, TypeOK, Rest, Disconnect, ReconnectRequest
      <3> QED
        BY <2>2, <3>1 DEF Rest
    <2>3. CASE e # d
      <3>1. outbox'[e] = outbox[e] /\ link'[e] = link[e] /\ log' = log /\ lastSeen' = lastSeen
        BY <2>3 DEF Sound, TypeOK, Disconnect, ReconnectRequest
      <3>2. Rest(e)
        BY DEF Sound
      <3> QED
        BY ONLY <3>1, <3>2 DEF Rest
    <2> QED
      BY <2>2, <2>3
  <1> QED
    BY <1>1, <1>2, <1>3 DEF Sound

(* The host misses the tail of what a lost connection had accepted.         *)
LEMMA LoseInflightSound ==
    ASSUME Sound, NEW d \in Devices, LoseInflight(d)
    PROVE  Sound'
  <1>1. inflight[d] \in Seq(Nat) /\ inflight[d] # <<>>
    BY DEF Sound, TypeOK, LoseInflight
  <1>2. Front(inflight[d]) \in Seq(Nat)
    BY <1>1, FrontProperties
  <1>3. inflight' \in [Devices -> Seq(Nat)]
    BY <1>2 DEF Sound, TypeOK, LoseInflight
  <1>4. TypeOK'
    BY <1>3 DEF Sound, TypeOK, LoseInflight, deviceVars
  <1>5. \A e \in Devices : Prefix(e)' /\ Rest(e)'
    BY DEF Sound, Prefix, Rest, LoseInflight, deviceVars
  <1> QED
    BY <1>4, <1>5 DEF Sound

(* A replay carries the rest of the log.                                    *)
LEMMA MissedIsRest ==
    ASSUME Sound, NEW d \in Devices
    PROVE  /\ Missed(d) \in Seq(Nat)
           /\ Len(Missed(d)) = Len(log) - lastSeen[d]
           /\ \A i \in 1..Len(Missed(d)) : Missed(d)[i] = lastSeen[d] + i
  <1>1. lastSeen[d] \in Nat /\ Len(log) \in Nat /\ lastSeen[d] <= Len(log)
    BY DEF Sound, TypeOK, Prefix
  <1> DEFINE m == [i \in 1..(Len(log) - lastSeen[d]) |-> lastSeen[d] + i]
  <1>2. m \in Seq(Nat) /\ Len(m) = Len(log) - lastSeen[d]
    BY <1>1
  <1>3. \A i \in 1..Len(m) : m[i] = lastSeen[d] + i
    BY <1>2
  <1> QED
    BY <1>2, <1>3 DEF Missed

(* completeReconnect() with a replay.                                       *)
LEMMA ReplaySound ==
    ASSUME Sound, NEW d \in Devices, NEW replayFrom \in 1..(Len(log) + 1),
           CompleteReplay(d, replayFrom)
    PROVE  Sound'
  <1> DEFINE q == Missed(d)
  <1>1. q \in Seq(Nat) /\ Len(q) = Len(log) - lastSeen[d]
        /\ \A i \in 1..Len(q) : q[i] = lastSeen[d] + i
    BY MissedIsRest
  <1>2. /\ confirmed' = [confirmed EXCEPT ![d] = Reduced(d, q)]
        /\ lastSeen' = [lastSeen EXCEPT ![d] = IF q = <<>> THEN @ ELSE Last(q)]
        /\ pending' = [pending EXCEPT ![d] = <<>>]
        /\ link' = [link EXCEPT ![d] = "connected"]
        /\ link[d] = "reconnecting"
        /\ UNCHANGED <<nextClientSeq, log, outbox, inflight, drops>>
    BY DEF CompleteReplay
  <1> HIDE DEF q
  <1>3. lastSeen[d] \in Nat /\ Len(log) \in Nat
    BY DEF Sound, TypeOK
  <1>4. /\ Reduced(d, q) \in Seq(Actions) /\ Len(Reduced(d, q)) = Len(log)
        /\ \A i \in 1..Len(log) : Reduced(d, q)[i] = log[i]
    BY <1>1, RestApplied
  <1>5. lastSeen'[d] = Len(log) /\ lastSeen' \in [Devices -> Nat]
    <2>1. lastSeen \in [Devices -> Nat]
      BY DEF Sound, TypeOK
    <2>2. CASE q = <<>>
      BY <2>1, <2>2, <1>1, <1>2, <1>3
    <2>3. CASE q # <<>>
      <3>1. Last(q) = Len(log)
        BY <2>3, <1>1, <1>3 DEF Last
      <3> QED
        BY <2>1, <2>3, <3>1, <1>2, <1>3
    <2> QED
      BY <2>2, <2>3
  <1>6. /\ confirmed' \in [Devices -> Seq(Actions)] /\ outbox' \in [Devices -> Seq(Nat)]
        /\ pending' \in [Devices -> Seq(Nat)]
        /\ link' \in [Devices -> {"connected", "offline", "reconnecting"}]
    <2>1. confirmed \in [Devices -> Seq(Actions)]
      BY DEF Sound, TypeOK
    <2> QED
      BY <1>2, <1>4, <2>1 DEF Sound, TypeOK
  <1>7. /\ confirmed'[d] = Reduced(d, q) /\ outbox'[d] = <<>>
        /\ \A e \in Devices \ {d} : /\ confirmed'[e] = confirmed[e] /\ lastSeen'[e] = lastSeen[e]
                                    /\ outbox'[e] = outbox[e] /\ link'[e] = link[e]
    BY <1>2 DEF Sound, TypeOK, Rest
  <1> QED
    BY <1>2, <1>4, <1>5, <1>6, <1>7, CaughtUp

(* completeReconnect() with a snapshot.                                     *)
LEMMA SnapshotSound ==
    ASSUME Sound, NEW d \in Devices, NEW replayFrom, CompleteSnapshot(d, replayFrom)
    PROVE  Sound'
  <1>1. log \in Seq(Actions) /\ Len(log) \in Nat /\ confirmed \in [Devices -> Seq(Actions)]
    BY DEF Sound, TypeOK
  <1>2. /\ confirmed' \in [Devices -> Seq(Actions)] /\ pending' \in [Devices -> Seq(Nat)]
        /\ lastSeen' \in [Devices -> Nat] /\ outbox' \in [Devices -> Seq(Nat)]
        /\ link' \in [Devices -> {"connected", "offline", "reconnecting"}]
    BY <1>1 DEF Sound, TypeOK, CompleteSnapshot
  <1>3. /\ confirmed'[d] = log /\ lastSeen'[d] = Len(log) /\ outbox'[d] = <<>>
        /\ \A e \in Devices \ {d} : /\ confirmed'[e] = confirmed[e] /\ lastSeen'[e] = lastSeen[e]
                                    /\ outbox'[e] = outbox[e] /\ link'[e] = link[e]
        /\ UNCHANGED <<nextClientSeq, log, inflight, drops>>
    BY DEF Sound, TypeOK, Rest, CompleteSnapshot
  <1> QED
    BY <1>2, <1>3, CaughtUp

(* Every step keeps the confirmed side sound.                               *)
LEMMA StepSound == Sound /\ [Next]_vars => Sound'
  <1> SUFFICES ASSUME Sound, [Next]_vars PROVE Sound'
    OBVIOUS
  <1>1. CASE UNCHANGED vars
    BY <1>1 DEF vars, deviceVars, Sound, TypeOK, Prefix, Rest
  <1>2. CASE Emit
    BY <1>2, EmitSound
  <1>3. ASSUME NEW d \in Devices, Reconnect(d) PROVE Sound'
    BY <1>3, ReplaySound, SnapshotSound DEF Reconnect
  <1> QED
    BY <1>1, <1>2, <1>3, DispatchSound, ReceiveSound, FlushSound, LinkSound,
       LoseInflightSound DEF Next

(* The element-wise form says what ConfirmedSideSound says.                 *)
LEMMA SoundIsConfirmed == Sound => ConfirmedSideSound
  <1> SUFFICES ASSUME Sound PROVE ConfirmedSideSound
    OBVIOUS
  <1>1. ASSUME NEW d \in Devices
        PROVE  lastSeen[d] <= Len(log) /\ confirmed[d] = SubSeq(log, 1, lastSeen[d])
    <2>1. /\ log \in Seq(Actions) /\ confirmed[d] \in Seq(Actions)
          /\ lastSeen[d] \in Nat /\ Len(log) \in Nat
      BY DEF Sound, TypeOK
    <2>2. /\ lastSeen[d] <= Len(log) /\ Len(confirmed[d]) = lastSeen[d]
          /\ \A i \in 1..lastSeen[d] : confirmed[d][i] = log[i]
      BY DEF Sound, Prefix
    <2> DEFINE s == SubSeq(log, 1, lastSeen[d])
    <2>3. s \in Seq(Actions) /\ Len(s) = lastSeen[d] /\ \A i \in 1..lastSeen[d] : s[i] = log[i]
      <3>1. \A i \in 1..lastSeen[d] : log[i] \in Actions
        BY <2>1, <2>2
      <3> QED
        BY <2>1, <2>2, <3>1, SubSeqProperties
    <2> HIDE DEF s
    <2>4. confirmed[d] = s
      BY <2>1, <2>2, <2>3, SeqEqual
    <2> QED
      BY <2>2, <2>4 DEF s
  <1>2. ASSUME NEW d \in Devices
        PROVE  outbox[d] = IF link[d] = "connected"
                           THEN [i \in 1..(Len(log) - lastSeen[d]) |-> lastSeen[d] + i]
                           ELSE <<>>
    <2>1. /\ outbox[d] \in Seq(Nat) /\ lastSeen[d] \in Nat /\ Len(log) \in Nat
          /\ lastSeen[d] <= Len(log)
      BY DEF Sound, TypeOK, Prefix
    <2>2. CASE link[d] = "connected"
      <3> DEFINE s == [i \in 1..(Len(log) - lastSeen[d]) |-> lastSeen[d] + i]
      <3>1. s \in Seq(Nat) /\ Len(s) = Len(log) - lastSeen[d]
        <4>1. Len(log) - lastSeen[d] \in Nat
          BY <2>1
        <4>2. \A i \in 1..(Len(log) - lastSeen[d]) : lastSeen[d] + i \in Nat
          BY <2>1
        <4> QED
          BY <4>1, <4>2, IsASeq
      <3>2. \A i \in 1..Len(s) : s[i] = lastSeen[d] + i
        BY <3>1
      <3>3. Len(outbox[d]) = Len(s) /\ \A i \in 1..Len(outbox[d]) : outbox[d][i] = s[i]
        BY <2>2, <3>1, <3>2 DEF Sound, Rest
      <3> HIDE DEF s
      <3>4. outbox[d] = s
        BY <2>1, <3>1, <3>3, SeqEqual
      <3> QED
        BY <2>2, <3>4 DEF s
    <2>3. CASE link[d] # "connected"
      BY <2>3 DEF Sound, Rest
    <2> QED
      BY <2>2, <2>3
  <1>3. TypeOK
    BY DEF Sound
  <1> QED
    BY <1>1, <1>2, <1>3 DEF ConfirmedSideSound, ConfirmedIsPrefix, OutboxIsRest

(* A client's confirmed state is the host's state as of the serverSeq it    *)
(* has seen, and its outbox is exactly the rest, whatever flush(),          *)
(* disconnect() and reconnect do.                                           *)
THEOREM ConfirmedSide == Spec => []ConfirmedSideSound
  <1>1. Spec => []Sound
    BY InitSound, StepSound, PTL DEF Spec
  <1> QED
    BY <1>1, SoundIsConfirmed, PTL

-----------------------------------------------------------------------------
(* The optimistic side.                                                    *)

(* The types of what a client keeps.                                        *)
LEMMA Types ==
    ASSUME Sound, NEW d \in Devices
    PROVE  /\ pending[d] \in Seq(Nat) /\ inflight[d] \in Seq(Nat) /\ outbox[d] \in Seq(Nat)
           /\ Len(pending[d]) \in Nat /\ Len(inflight[d]) \in Nat
           /\ nextClientSeq[d] \in Nat /\ lastSeen[d] \in Nat
           /\ log \in Seq(Actions) /\ Len(log) \in Nat /\ DOMAIN log = 1..Len(log)
           /\ lastSeen[d] <= Len(log)
           /\ \A m \in 1..Len(log) : log[m] \in Actions /\ log[m].n \in Nat
  <1>1. /\ pending[d] \in Seq(Nat) /\ inflight[d] \in Seq(Nat) /\ outbox[d] \in Seq(Nat)
        /\ nextClientSeq[d] \in Nat /\ lastSeen[d] \in Nat
        /\ log \in Seq(Actions) /\ lastSeen[d] <= Len(log)
    BY DEF Sound, TypeOK, Prefix
  <1>2. /\ Len(pending[d]) \in Nat /\ Len(inflight[d]) \in Nat
        /\ Len(log) \in Nat /\ DOMAIN log = 1..Len(log)
        /\ \A m \in 1..Len(log) : log[m] \in Actions
    BY <1>1
  <1>3. \A a \in Actions : a.n \in Nat
    BY DEF Actions
  <1> QED
    BY <1>1, <1>2, <1>3

(* Appending a number above all others keeps a sequence increasing.         *)
LEMMA AppendIncreasing ==
    ASSUME NEW s \in Seq(Nat), NEW c \in Nat, Increasing(s), \A i \in 1..Len(s) : s[i] < c
    PROVE  /\ Len(Append(s, c)) = Len(s) + 1 /\ Append(s, c)[Len(s) + 1] = c
           /\ \A i \in 1..Len(s) : Append(s, c)[i] = s[i]
           /\ \A i \in 1..Len(Append(s, c)) : i \in 1..Len(s) \/ i = Len(s) + 1
           /\ Len(s) + 1 \in 1..Len(Append(s, c)) /\ 1..Len(s) \subseteq 1..Len(Append(s, c))
           /\ Increasing(Append(s, c))
           /\ \A i \in 1..Len(Append(s, c)) : Append(s, c)[i] < c + 1
  <1> DEFINE t == Append(s, c)
             n == Len(s)
  <1>1. /\ n \in Nat /\ Len(t) = n + 1 /\ t[n + 1] = c
        /\ \A i \in 1..n : t[i] = s[i] /\ s[i] \in Nat
    OBVIOUS
  <1> HIDE DEF t
  <1>2. n + 1 \in 1..Len(t) /\ 1..n \subseteq 1..Len(t)
        /\ \A i \in 1..Len(t) : i \in 1..n \/ i = n + 1
    BY <1>1
  <1>3. ASSUME NEW i \in 1..Len(t), NEW j \in 1..Len(t), i < j PROVE t[i] < t[j]
    <2>1. i \in 1..n
      BY <1>1, <1>3
    <2>2. CASE j \in 1..n
      BY <2>1, <2>2, <1>1, <1>3 DEF Increasing
    <2>3. CASE j = n + 1
      BY <2>1, <2>3, <1>1
    <2> QED
      BY <2>2, <2>3, <1>2
  <1>4. ASSUME NEW i \in 1..Len(t) PROVE t[i] < c + 1
    <2>1. CASE i \in 1..n
      BY <2>1, <1>1
    <2>2. CASE i = n + 1
      BY <2>2, <1>1
    <2> QED
      BY <2>1, <2>2, <1>2
  <1> QED
    BY <1>1, <1>2, <1>3, <1>4 DEF Increasing, t

(* A new chat has nothing pending.                                          *)
LEMMA InitAhead == Init => IInv
  <1> SUFFICES ASSUME Init PROVE IInv
    OBVIOUS
  <1>1. DispatchOrderKept /\ HostOrder
    BY DEF Init, DispatchOrderKept, HostOrder
  <1>2. Ahead
    BY DEF Init, Ahead, Numbered, Increasing, Unseen, Underway
  <1> QED
    BY <1>1, <1>2, InitSound DEF IInv

(* What another client does leaves the facts about client e alone.          *)
LEMMA AheadKept ==
    ASSUME NEW e \in Devices, Numbered(e), Unseen(e), Underway(e),
           pending'[e] = pending[e], inflight'[e] = inflight[e], lastSeen'[e] = lastSeen[e],
           nextClientSeq'[e] = nextClientSeq[e], link'[e] = link[e], log' = log
    PROVE  Numbered(e)' /\ Unseen(e)' /\ Underway(e)'
  BY DEF Numbered, Increasing, Unseen, Underway, Action

(* dispatch() numbers its action after every other of the client.           *)
LEMMA DispatchAhead ==
    ASSUME IInv, NEW d \in Devices, Dispatch(d)
    PROVE  Ahead'
  <1>1. Sound /\ Numbered(d) /\ Unseen(d) /\ Underway(d)
    BY DEF IInv, Ahead
  <1> DEFINE c == nextClientSeq[d]
             p == pending[d]
             q == inflight[d]
  <1>2. /\ pending'[d] = Append(p, c) /\ inflight'[d] = Append(q, c)
        /\ nextClientSeq'[d] = c + 1 /\ link'[d] = link[d] /\ lastSeen'[d] = lastSeen[d]
        /\ log' = log
    BY <1>1 DEF Sound, TypeOK, Dispatch
  <1>3. /\ p \in Seq(Nat) /\ q \in Seq(Nat) /\ c \in Nat /\ lastSeen[d] \in Nat
        /\ Len(p) \in Nat /\ Len(q) \in Nat /\ Len(log) \in Nat /\ lastSeen[d] <= Len(log)
        /\ \A m \in 1..Len(log) : log[m].n \in Nat
    BY <1>1, Types
  <1>4. /\ Increasing(p) /\ Increasing(q)
        /\ \A i \in 1..Len(p) : p[i] < c
        /\ \A i \in 1..Len(q) : q[i] < c
        /\ \A m \in 1..Len(log) : log[m].from = d =>
              log[m].n < c /\ \A i \in 1..Len(q) : log[m].n < q[i]
    BY <1>1 DEF Numbered
  <1>5. /\ \A i \in 1..Len(p), m \in 1..lastSeen[d] : log[m] # Action(d, p[i])
        /\ link[d] = "connected" => \A i \in 1..Len(p) :
              \/ \E j \in 1..Len(q) : q[j] = p[i]
              \/ \E m \in (lastSeen[d] + 1)..Len(log) : log[m] = Action(d, p[i])
    BY <1>1 DEF Unseen, Underway
  <1> HIDE DEF c, p, q
  <1> DEFINE np == Append(p, c)
             nq == Append(q, c)
  <1>6. /\ Len(np) = Len(p) + 1 /\ np[Len(p) + 1] = c
        /\ \A i \in 1..Len(p) : np[i] = p[i]
        /\ \A i \in 1..Len(np) : i \in 1..Len(p) \/ i = Len(p) + 1
    BY <1>3, <1>4, AppendIncreasing
  <1>7. /\ Len(nq) = Len(q) + 1 /\ nq[Len(q) + 1] = c
        /\ \A i \in 1..Len(q) : nq[i] = q[i]
        /\ \A i \in 1..Len(nq) : i \in 1..Len(q) \/ i = Len(q) + 1
        /\ Len(q) + 1 \in 1..Len(nq) /\ 1..Len(q) \subseteq 1..Len(nq)
    BY <1>3, <1>4, AppendIncreasing
  <1>8. Increasing(np) /\ Increasing(nq)
    BY <1>3, <1>4, AppendIncreasing
  <1>9. /\ \A i \in 1..Len(np) : np[i] < c + 1
        /\ \A i \in 1..Len(nq) : nq[i] < c + 1
    BY <1>3, <1>4, AppendIncreasing
  <1> HIDE DEF np, nq
  <1>10. ASSUME NEW m \in 1..Len(log), log[m].from = d
         PROVE  log[m].n < c + 1 /\ \A i \in 1..Len(nq) : log[m].n < nq[i]
    <2>1. log[m].n < c /\ log[m].n \in Nat
      BY <1>3, <1>4, <1>10
    <2>2. ASSUME NEW i \in 1..Len(nq) PROVE log[m].n < nq[i]
      <3>1. CASE i \in 1..Len(q)
        BY <3>1, <1>4, <1>7, <1>10
      <3>2. CASE i = Len(q) + 1
        BY <3>2, <2>1, <1>7
      <3> QED
        BY <3>1, <3>2, <1>7
    <2> QED
      BY <2>1, <2>2, <1>3
  <1>11. Numbered(d)'
    BY <1>2, <1>8, <1>9, <1>10 DEF Numbered, Increasing, np, nq
  <1>12. Unseen(d)'
    <2>1. ASSUME NEW i \in 1..Len(np), NEW m \in 1..lastSeen[d] PROVE log[m] # Action(d, np[i])
      <3>1. m \in 1..Len(log)
        BY <1>3
      <3>2. CASE i \in 1..Len(p)
        BY <3>2, <1>5, <1>6
      <3>3. CASE i = Len(p) + 1
        <4>1. log[m].from = d => log[m].n < c /\ log[m].n \in Nat
          BY <3>1, <1>3, <1>4
        <4>2. log[m] = Action(d, c) => log[m].from = d /\ log[m].n = c
          BY DEF Action
        <4> QED
          BY <3>3, <4>1, <4>2, <1>3, <1>6
      <3> QED
        BY <3>2, <3>3, <1>6
    <2> QED
      BY <2>1, <1>2 DEF Unseen, Action, np
  <1>13. Underway(d)'
    <2>1. ASSUME link[d] = "connected", NEW i \in 1..Len(np)
          PROVE  \/ \E j \in 1..Len(nq) : nq[j] = np[i]
                 \/ \E m \in (lastSeen[d] + 1)..Len(log) : log[m] = Action(d, np[i])
      BY <2>1, <1>5, <1>6, <1>7
    <2> QED
      BY <2>1, <1>2 DEF Underway, Action, np, nq
  <1>14. ASSUME NEW e \in Devices, e # d PROVE Numbered(e)' /\ Unseen(e)' /\ Underway(e)'
    <2>1. /\ pending'[e] = pending[e] /\ inflight'[e] = inflight[e] /\ lastSeen'[e] = lastSeen[e]
          /\ nextClientSeq'[e] = nextClientSeq[e] /\ link'[e] = link[e] /\ log' = log
      BY <1>1, <1>14 DEF Sound, TypeOK, Dispatch
    <2> QED
      BY <2>1, AheadKept DEF IInv, Ahead
  <1> QED
    BY <1>11, <1>12, <1>13, <1>14 DEF Ahead

(* A published action of someone else changes nothing for client e.         *)
LEMMA OthersPublish ==
    ASSUME IInv, NEW e \in Devices, NEW a, a.from # e, log' = Append(log, a), a \in Actions,
           pending'[e] = pending[e], inflight'[e] = inflight[e], lastSeen'[e] = lastSeen[e],
           nextClientSeq'[e] = nextClientSeq[e], link'[e] = link[e]
    PROVE  Numbered(e)' /\ Unseen(e)' /\ Underway(e)'
  <1>1. Sound /\ Numbered(e) /\ Unseen(e) /\ Underway(e)
    BY DEF IInv, Ahead
  <1>2. log \in Seq(Actions) /\ Len(log) \in Nat /\ lastSeen[e] \in Nat /\ lastSeen[e] <= Len(log)
    BY <1>1, Types
  <1>3. /\ Len(log') = Len(log) + 1 /\ log'[Len(log) + 1] = a
        /\ \A m \in 1..Len(log) : log'[m] = log[m]
        /\ \A m \in 1..Len(log') : m \in 1..Len(log) \/ m = Len(log) + 1
    BY <1>2
  <1>4. Numbered(e)'
    BY <1>1, <1>3 DEF Numbered, Increasing
  <1>5. Unseen(e)'
    <2>1. \A m \in 1..lastSeen[e] : log'[m] = log[m]
      BY <1>2, <1>3
    <2> QED
      BY <1>1, <2>1 DEF Unseen, Action
  <1>6. Underway(e)'
    <2>1. \A m \in (lastSeen[e] + 1)..Len(log) :
             m \in (lastSeen[e] + 1)..Len(log') /\ log'[m] = log[m]
      BY <1>2, <1>3
    <2> QED
      BY <1>1, <2>1 DEF Underway, Action
  <1> QED
    BY <1>4, <1>5, <1>6

(* receive() publishes what is first on the wire: it was dispatched after   *)
(* everything of that client in the log, and before the rest of the wire.   *)
LEMMA ReceiveAhead ==
    ASSUME IInv, NEW d \in Devices, Receive(d), Contains(pending[d], Head(inflight[d]))
    PROVE  Ahead' /\ DispatchOrderKept' /\ HostOrder'
  <1>1. Sound /\ Numbered(d) /\ Unseen(d) /\ Underway(d)
    BY DEF IInv, Ahead
  <1> DEFINE p == pending[d]
             q == inflight[d]
             h == Head(q)
             a == Action(d, h)
             n == Len(log)
  <1>2. /\ q # <<>> /\ inflight' = [inflight EXCEPT ![d] = Tail(q)]
        /\ log' = Append(log, a) /\ UNCHANGED deviceVars
    BY DEF Receive, Publish
  <1>3. /\ q \in Seq(Nat) /\ log \in Seq(Actions) /\ n \in Nat /\ lastSeen[d] \in Nat
        /\ lastSeen[d] <= n /\ \A m \in 1..n : log[m].n \in Nat
    BY <1>1, Types
  <1>4. /\ Len(q) \in Nat /\ 1 \in 1..Len(q) /\ h = q[1] /\ h \in Nat
        /\ \A i \in 1..Len(Tail(q)) : Tail(q)[i] = q[i + 1] /\ i + 1 \in 1..Len(q) /\ 1 < i + 1
        /\ \A i \in 1..Len(q) : i = 1 \/ (i - 1 \in 1..Len(Tail(q)) /\ Tail(q)[i - 1] = q[i])
    BY <1>2, <1>3, TailFacts
  <1>5. a \in Actions /\ a.from = d /\ a.n = h
    BY <1>4 DEF Action, Actions
  <1> HIDE DEF h, a, n
  <1>6. /\ Len(log') = n + 1 /\ log'[n + 1] = a
        /\ \A m \in 1..n : log'[m] = log[m]
        /\ \A m \in 1..Len(log') : m \in 1..n \/ m = n + 1
    BY <1>2, <1>3, <1>5 DEF n
  <1>7. /\ inflight'[d] = Tail(q) /\ pending' = pending /\ lastSeen' = lastSeen
        /\ nextClientSeq' = nextClientSeq /\ link' = link
    BY <1>1, <1>2 DEF Sound, TypeOK, deviceVars
  <1>8. /\ Increasing(p) /\ Increasing(q)
        /\ \A i \in 1..Len(p) : p[i] < nextClientSeq[d]
        /\ \A i \in 1..Len(q) : q[i] < nextClientSeq[d]
        /\ \A m \in 1..n : log[m].from = d =>
              log[m].n < nextClientSeq[d] /\ \A i \in 1..Len(q) : log[m].n < q[i]
    BY <1>1 DEF Numbered, n
  <1>9. DispatchOrderKept'
    <2>1. ASSUME NEW i \in 1..Len(log'), NEW j \in 1..Len(log'), i < j, log'[i].from = log'[j].from
          PROVE  log'[i].n < log'[j].n
      <3>1. i \in 1..n
        BY <2>1, <1>3, <1>6
      <3>2. CASE j \in 1..n
        BY <2>1, <3>1, <3>2, <1>6 DEF IInv, DispatchOrderKept, n
      <3>3. CASE j = n + 1
        BY <2>1, <3>1, <3>3, <1>4, <1>5, <1>6, <1>8
      <3> QED
        BY <3>2, <3>3, <1>6
    <2> QED
      BY <2>1 DEF DispatchOrderKept
  <1>10. HostOrder'
    <2>1. DOMAIN log = 1..n /\ DOMAIN log' = 1..Len(log')
      BY <1>2, <1>3, <1>5 DEF n
    <2>2. a.from # Host
      BY <1>5, HostAssumption
    <2>3. {i \in DOMAIN log' : log'[i].from = Host} = {i \in DOMAIN log : log[i].from = Host}
      BY <2>1, <2>2, <1>3, <1>6
    <2>4. \A m \in DOMAIN log' : log'[m].from = Host => m \in DOMAIN log /\ log'[m] = log[m]
      BY <2>1, <2>2, <1>6
    <2> QED
      BY <2>3, <2>4 DEF IInv, HostOrder
  <1>11. Numbered(d)'
    <2>1. Increasing(Tail(q))
      BY <1>4, <1>8 DEF Increasing
    <2>2. \A i \in 1..Len(Tail(q)) : Tail(q)[i] < nextClientSeq[d]
      BY <1>4, <1>8
    <2>3. ASSUME NEW m \in 1..Len(log'), log'[m].from = d
          PROVE  /\ log'[m].n < nextClientSeq[d]
                 /\ \A i \in 1..Len(Tail(q)) : log'[m].n < Tail(q)[i]
      <3>1. CASE m \in 1..n
        BY <2>3, <3>1, <1>4, <1>6, <1>8
      <3>2. CASE m = n + 1
        BY <3>2, <1>4, <1>5, <1>6, <1>8 DEF Increasing
      <3> QED
        BY <3>1, <3>2, <1>6
    <2> QED
      BY <2>1, <2>2, <2>3, <1>7, <1>8 DEF Numbered, Increasing
  <1>12. Unseen(d)'
    <2>1. \A m \in 1..lastSeen[d] : log'[m] = log[m]
      BY <1>3, <1>6
    <2> QED
      BY <2>1, <1>1, <1>7 DEF Unseen, Action
  <1>13. Underway(d)'
    <2>1. ASSUME link[d] = "connected", NEW i \in 1..Len(p)
          PROVE  \/ \E j \in 1..Len(Tail(q)) : Tail(q)[j] = p[i]
                 \/ \E m \in (lastSeen[d] + 1)..Len(log') : log'[m] = Action(d, p[i])
      <3>1. CASE \E j \in 1..Len(q) : q[j] = p[i]
        <4>1. PICK j \in 1..Len(q) : q[j] = p[i]
          BY <3>1
        <4>2. CASE j = 1
          <5>1. n + 1 \in (lastSeen[d] + 1)..Len(log') /\ log'[n + 1] = Action(d, p[i])
            BY <4>1, <4>2, <1>3, <1>4, <1>6 DEF a
          <5> QED
            BY <5>1
        <4>3. CASE j # 1
          BY <4>1, <4>3, <1>4
        <4> QED
          BY <4>2, <4>3
      <3>2. CASE \E m \in (lastSeen[d] + 1)..n : log[m] = Action(d, p[i])
        <4>1. \A m \in (lastSeen[d] + 1)..n : m \in (lastSeen[d] + 1)..Len(log') /\ log'[m] = log[m]
          BY <1>3, <1>6
        <4> QED
          BY <3>2, <4>1
      <3> QED
        BY <2>1, <3>1, <3>2, <1>1 DEF Underway, n
    <2> QED
      BY <2>1, <1>7 DEF Underway, Action
  <1>14. ASSUME NEW e \in Devices, e # d PROVE Numbered(e)' /\ Unseen(e)' /\ Underway(e)'
    <2>1. inflight'[e] = inflight[e]
      BY <1>14, <1>1, <1>2 DEF Sound, TypeOK
    <2> QED
      BY <2>1, <1>2, <1>5, <1>7, <1>14, OthersPublish
  <1> QED
    BY <1>9, <1>10, <1>11, <1>12, <1>13, <1>14 DEF Ahead

(* A message that is no longer pending is consumed, or the last one on a    *)
(* dead wire is lost.                                                       *)
LEMMA WireAhead ==
    ASSUME IInv, NEW d \in Devices, NEW w \in Seq(Nat),
           inflight' = [inflight EXCEPT ![d] = w], UNCHANGED <<deviceVars, log>>,
           NEW k \in Nat, \A i \in 1..Len(w) : w[i] = inflight[d][i + k] /\ i + k \in 1..Len(inflight[d]),
           link[d] = "connected" =>
              \A i \in 1..Len(pending[d]), j \in 1..Len(inflight[d]) :
                 inflight[d][j] = pending[d][i] => \E m \in 1..Len(w) : w[m] = pending[d][i]
    PROVE  Ahead'
  <1>1. Sound /\ Numbered(d) /\ Unseen(d) /\ Underway(d)
    BY DEF IInv, Ahead
  <1>2. /\ inflight'[d] = w /\ pending' = pending /\ lastSeen' = lastSeen /\ log' = log
        /\ nextClientSeq' = nextClientSeq /\ link' = link
    BY <1>1 DEF Sound, TypeOK, deviceVars
  <1>3. Numbered(d)'
    <2> DEFINE q == inflight[d]
    <2>1. Increasing(w)
      <3>1. ASSUME NEW i \in 1..Len(w), NEW j \in 1..Len(w), i < j PROVE w[i] < w[j]
        <4>1. i + k \in 1..Len(q) /\ j + k \in 1..Len(q) /\ i + k < j + k
          BY <3>1
        <4>2. q[i + k] < q[j + k]
          BY <4>1, <1>1 DEF Numbered, Increasing
        <4> QED
          BY <4>2
      <3> QED
        BY <3>1 DEF Increasing
    <2>2. \A i \in 1..Len(w) : w[i] < nextClientSeq[d]
      BY <1>1 DEF Numbered
    <2>3. \A m \in 1..Len(log) : log[m].from = d =>
             /\ log[m].n < nextClientSeq[d]
             /\ \A i \in 1..Len(w) : log[m].n < w[i]
      BY <1>1 DEF Numbered
    <2> QED
      BY <2>1, <2>2, <2>3, <1>1, <1>2 DEF Numbered, Increasing
  <1>4. Unseen(d)'
    BY <1>1, <1>2 DEF Unseen, Action
  <1>5. Underway(d)'
    <2>1. ASSUME link[d] = "connected", NEW i \in 1..Len(pending[d])
          PROVE  \/ \E j \in 1..Len(w) : w[j] = pending[d][i]
                 \/ \E m \in (lastSeen[d] + 1)..Len(log) : log[m] = Action(d, pending[d][i])
      BY <2>1, <1>1 DEF Underway
    <2>2. /\ inflight'[d] = w /\ pending'[d] = pending[d] /\ lastSeen'[d] = lastSeen[d]
          /\ log' = log /\ link'[d] = link[d]
      BY <1>2
    <2>3. link[d] = "connected" => \A i \in 1..Len(pending[d]) :
             \/ \E j \in 1..Len(w) : w[j] = pending[d][i]
             \/ \E m \in (lastSeen[d] + 1)..Len(log) : log[m] = Action(d, pending[d][i])
      BY ONLY <2>1
    <2> QED
      BY ONLY <2>2, <2>3 DEF Underway, Action
  <1>6. ASSUME NEW e \in Devices, e # d PROVE Numbered(e)' /\ Unseen(e)' /\ Underway(e)'
    <2>1. inflight'[e] = inflight[e]
      BY <1>6, <1>1 DEF Sound, TypeOK
    <2> QED
      BY <2>1, <1>2, AheadKept DEF IInv, Ahead
  <1> QED
    BY <1>3, <1>4, <1>5, <1>6 DEF Ahead

LEMMA DroppedAhead ==
    ASSUME IInv, NEW d \in Devices, Receive(d), ~Contains(pending[d], Head(inflight[d]))
    PROVE  Ahead' /\ log' = log
  <1> DEFINE q == inflight[d]
  <1>1. Sound
    BY DEF IInv
  <1>2. q \in Seq(Nat) /\ q # <<>> /\ pending[d] \in Seq(Nat)
    BY <1>1, Types DEF Receive
  <1>3. inflight' = [inflight EXCEPT ![d] = Tail(q)] /\ UNCHANGED <<deviceVars, log>>
    BY DEF Receive
  <1>4. /\ Tail(q) \in Seq(Nat) /\ Head(q) = q[1]
        /\ \A i \in 1..Len(Tail(q)) : Tail(q)[i] = q[i + 1] /\ i + 1 \in 1..Len(q)
        /\ \A i \in 1..Len(q) : i = 1 \/ (i - 1 \in 1..Len(Tail(q)) /\ Tail(q)[i - 1] = q[i])
    BY <1>2, TailFacts
  <1>5. \A i \in 1..Len(pending[d]) : pending[d][i] # Head(q)
    BY <1>2 DEF Contains
  <1>6. \A i \in 1..Len(pending[d]), j \in 1..Len(q) :
           q[j] = pending[d][i] => \E m \in 1..Len(Tail(q)) : Tail(q)[m] = pending[d][i]
    BY <1>4, <1>5
  <1> HIDE DEF q
  <1> QED
    BY <1>3, <1>4, <1>6, WireAhead DEF q

LEMMA LoseInflightAhead ==
    ASSUME IInv, NEW d \in Devices, LoseInflight(d)
    PROVE  Ahead' /\ log' = log
  <1> DEFINE q == inflight[d]
             w == Front(q)
  <1>1. Sound
    BY DEF IInv
  <1>2. q \in Seq(Nat) /\ q # <<>> /\ Len(q) \in Nat /\ link[d] # "connected"
    BY <1>1, Types DEF LoseInflight
  <1>3. inflight' = [inflight EXCEPT ![d] = w] /\ UNCHANGED <<deviceVars, log>>
    BY DEF LoseInflight
  <1>4. w \in Seq(Nat) /\ Len(w) = Len(q) - 1 /\ \A i \in 1..(Len(q) - 1) : w[i] = q[i]
    BY <1>2, FrontProperties
  <1> HIDE DEF w, q
  <1>5. \A i \in 1..Len(w) : w[i] = q[i + 0] /\ i + 0 \in 1..Len(q)
    BY <1>2, <1>4
  <1> QED
    BY <1>2, <1>3, <1>4, <1>5, WireAhead DEF q

(* The agent's own actions, numbered by their count, are in order too.      *)
LEMMA EmitAhead ==
    ASSUME IInv, Emit
    PROVE  Ahead' /\ DispatchOrderKept' /\ HostOrder'
  <1>1. Sound
    BY DEF IInv
  <1> DEFINE hosted == {i \in DOMAIN log : log[i].from = Host}
             c == Cardinality(hosted)
             a == Action(Host, c + 1)
             n == Len(log)
  <1>2. log' = Append(log, a) /\ UNCHANGED <<deviceVars, inflight>>
    BY DEF Emit, Publish
  <1>3. IsFiniteSet(hosted) /\ c \in Nat
    BY <1>1, EmitCount
  <1>4. log \in Seq(Actions) /\ n \in Nat /\ DOMAIN log = 1..n /\ \A m \in 1..n : log[m].n \in Nat
    <2>1. log \in Seq(Actions)
      BY <1>1 DEF Sound, TypeOK
    <2>2. n \in Nat /\ DOMAIN log = 1..n /\ \A m \in 1..n : log[m] \in Actions
      BY <2>1
    <2>3. \A x \in Actions : x.n \in Nat
      BY DEF Actions
    <2> QED
      BY <2>1, <2>2, <2>3
  <1>5. hosted = {i \in 1..n : log[i].from = Host}
    BY <1>4
  <1> HIDE DEF c
  <1>6. a \in Actions /\ a.from = Host /\ a.n = c + 1
    BY <1>3 DEF Action, Actions
  <1> HIDE DEF a, n
  <1>7. /\ Len(log') = n + 1 /\ log'[n + 1] = a /\ DOMAIN log' = 1..(n + 1)
        /\ \A m \in 1..n : log'[m] = log[m]
        /\ \A m \in 1..(n + 1) : m \in 1..n \/ m = n + 1
    BY <1>2, <1>4, <1>6 DEF n
  <1>8. \A m \in 1..n : log[m].from = Host => log[m].n <= c
    BY <1>4 DEF IInv, HostOrder, c
  <1>9. DispatchOrderKept'
    <2>1. ASSUME NEW i \in 1..Len(log'), NEW j \in 1..Len(log'), i < j, log'[i].from = log'[j].from
          PROVE  log'[i].n < log'[j].n
      <3>1. i \in 1..n
        BY <2>1, <1>4, <1>7
      <3>2. CASE j \in 1..n
        BY <2>1, <3>1, <3>2, <1>7 DEF IInv, DispatchOrderKept, n
      <3>3. CASE j = n + 1
        <4>1. log'[i] = log[i] /\ log[i].n <= c /\ log[i].n \in Nat
          BY <2>1, <3>1, <3>3, <1>4, <1>6, <1>7, <1>8
        <4> QED
          BY <4>1, <3>3, <1>3, <1>6, <1>7
      <3> QED
        BY <3>2, <3>3, <1>7
    <2> QED
      BY <2>1 DEF DispatchOrderKept
  <1>10. HostOrder'
    <2>1. n + 1 \notin hosted
      BY <1>4, <1>5
    <2>2. {i \in DOMAIN log' : log'[i].from = Host} = hosted \cup {n + 1}
      BY <1>4, <1>5, <1>6, <1>7
    <2> HIDE DEF hosted
    <2>3. Cardinality(hosted \cup {n + 1}) = c + 1
      BY <2>1, <1>3, FS_AddElement DEF c
    <2>4. \A m \in 1..(n + 1) : log'[m].from = Host => log'[m].n <= c + 1
      <3>1. ASSUME NEW m \in 1..n, log'[m].from = Host PROVE log'[m].n <= c + 1
        <4>1. log[m].n <= c /\ log[m].n \in Nat /\ log'[m] = log[m]
          BY <3>1, <1>4, <1>7, <1>8
        <4> QED
          BY <4>1, <1>3
      <3>2. log'[n + 1].n <= c + 1
        BY <1>3, <1>6, <1>7
      <3> QED
        BY <3>1, <3>2, <1>7
    <2> QED
      BY <2>2, <2>3, <2>4, <1>7 DEF HostOrder
  <1>11. ASSUME NEW e \in Devices PROVE Numbered(e)' /\ Unseen(e)' /\ Underway(e)'
    <2>1. a.from # e
      BY <1>6, HostAssumption
    <2> QED
      BY <2>1, <1>2, <1>6, OthersPublish DEF deviceVars
  <1> QED
    BY <1>9, <1>10, <1>11 DEF Ahead

(* A client whose queue is empty, or that is not connected, has Underway     *)
(* settled by what it keeps; the other two facts follow from what it drops. *)
LEMMA DropsAhead ==
    ASSUME IInv, NEW d \in Devices, NEW p \in Seq(Nat), Increasing(p),
           \A i \in 1..Len(p) : \E j \in 1..Len(pending[d]) : pending[d][j] = p[i],
           pending'[d] = p, log' = log, inflight' = inflight, nextClientSeq' = nextClientSeq
    PROVE  Numbered(d)'
  <1>1. Numbered(d)
    BY DEF IInv, Ahead
  <1>2. \A i \in 1..Len(p) : p[i] < nextClientSeq[d]
    BY <1>1 DEF Numbered
  <1>3. /\ inflight'[d] = inflight[d] /\ nextClientSeq'[d] = nextClientSeq[d]
        /\ log' = log /\ pending'[d] = p
    OBVIOUS
  <1>4. Increasing(p)
    OBVIOUS
  <1> QED
    BY ONLY <1>1, <1>2, <1>3, <1>4 DEF Numbered, Increasing

(* flush() takes out of pending exactly what it confirms.                   *)
LEMMA FlushAhead ==
    ASSUME IInv, NEW d \in Devices, Flush(d)
    PROVE  Ahead' /\ log' = log
  <1> DEFINE p == pending[d]
             b == outbox[d]
             echoed == {log[m].n : m \in {x \in ToSet(b) : log[x].from = d}}
             K == ToSet(p) \ echoed
             np == Kept(p, K)
  <1>1. Sound /\ Numbered(d) /\ Unseen(d) /\ Underway(d)
    BY DEF IInv, Ahead
  <1>2. /\ p \in Seq(Nat) /\ b \in Seq(Nat) /\ Len(p) \in Nat /\ Len(log) \in Nat
        /\ lastSeen[d] \in Nat /\ lastSeen[d] <= Len(log)
    BY <1>1, Types
  <1>3. /\ link[d] = "connected" /\ lastSeen'[d] = Len(log)
        /\ \A x \in (lastSeen[d] + 1)..Len(log) : x \in ToSet(b)
    <2>1. b # <<>> /\ lastSeen'[d] = Last(b)
      BY <1>1 DEF Flush, Sound, TypeOK
    <2>2. link[d] = "connected"
      BY <1>1, <2>1 DEF Sound, Rest
    <2>3. Len(b) = Len(log) - lastSeen[d] /\ \A i \in 1..Len(b) : b[i] = lastSeen[d] + i
      BY <1>1, <2>2 DEF Sound, Rest
    <2>4. Len(b) \in 1..Len(b)
      BY <1>2, <2>1, EmptySeq, LenProperties
    <2> DEFINE n == Len(b)
               k == lastSeen[d]
               l == Len(log)
    <2>8. /\ n = l - k /\ n \in 1..n /\ k \in Nat /\ l \in Nat
          /\ \A i \in 1..n : b[i] = k + i
      BY <1>2, <2>3, <2>4
    <2> HIDE DEF b, n, k, l
    <2>5. b[n] = l
      BY ONLY <2>8
    <2>6. \A x \in (k + 1)..l : x - k \in 1..n /\ b[x - k] = x
      BY ONLY <2>8
    <2>9. DOMAIN b = 1..n
      BY <1>2, LenProperties DEF n
    <2>10. \A x \in (k + 1)..l : x \in ToSet(b)
      BY ONLY <2>6, <2>9 DEF ToSet
    <2>7. \A x \in (lastSeen[d] + 1)..Len(log) : x \in ToSet(b)
      BY ONLY <2>10 DEF k, l
    <2> QED
      BY <2>1, <2>2, <2>5, <2>7 DEF Last, n, l
  <1>4. /\ pending' = [pending EXCEPT ![d] = np] /\ log' = log /\ link' = link
        /\ inflight' = inflight /\ nextClientSeq' = nextClientSeq
        /\ lastSeen' = [lastSeen EXCEPT ![d] = Last(b)]
    BY DEF Flush, Unconfirmed
  <1>5. pending'[d] = np
    BY <1>1, <1>4 DEF Sound, TypeOK
  <1> HIDE DEF K
  <1>6. /\ np \in Seq(Nat)
        /\ \A i \in 1..Len(np) : np[i] \in K /\ \E j \in 1..Len(p) : p[j] = np[i]
    <2>1. p \in Seq(Nat)
      BY <1>2
    <2> HIDE DEF p
    <2>2. Kept(p, K) \in Seq(Nat)
      BY ONLY <2>1, KeptIndex
    <2>3. \A i \in 1..Len(Kept(p, K)) :
             Kept(p, K)[i] \in K /\ \E j \in 1..Len(p) : p[j] = Kept(p, K)[i]
      BY ONLY <2>1, KeptElements
    <2> QED
      BY ONLY <2>2, <2>3
  <1>7. Increasing(np)
    <2>1. \A i, j \in 1..Len(p) : i < j => p[i] < p[j]
      BY <1>1 DEF Numbered, Increasing
    <2>2. \A i, j \in 1..Len(Kept(p, K)) : i < j => Kept(p, K)[i] < Kept(p, K)[j]
      BY <2>1, <1>2, KeptIncreasing
    <2> QED
      BY <2>2 DEF Increasing
  <1> HIDE DEF np
  <1>8. Numbered(d)'
    BY <1>4, <1>5, <1>6, <1>7, DropsAhead
  <1>9. ASSUME NEW i \in 1..Len(np), NEW m \in 1..Len(log) PROVE log[m] # Action(d, np[i])
    <2>1. CASE m \in 1..lastSeen[d]
      <3>1. PICK j \in 1..Len(p) : p[j] = np[i]
        BY <1>6
      <3> QED
        BY <3>1, <2>1, <1>1 DEF Unseen
    <2>2. CASE m \in (lastSeen[d] + 1)..Len(log)
      <3> SUFFICES ASSUME log[m] = Action(d, np[i]) PROVE FALSE
        OBVIOUS
      <3>1. log[m].from = d /\ log[m].n = np[i]
        BY DEF Action
      <3>2. np[i] \in echoed
        BY <2>2, <3>1, <1>3
      <3> QED
        BY <3>2, <1>6 DEF K
    <2> QED
      BY <2>1, <2>2, <1>2
  <1>10. Unseen(d)'
    BY <1>3, <1>4, <1>5, <1>9 DEF Unseen, Action
  <1>11. Underway(d)'
    <2>1. ASSUME NEW i \in 1..Len(np) PROVE \E j \in 1..Len(inflight[d]) : inflight[d][j] = np[i]
      <3>1. PICK j \in 1..Len(p) : p[j] = np[i]
        BY <1>6
      <3>2. ~\E m \in (lastSeen[d] + 1)..Len(log) : log[m] = Action(d, p[j])
        <4>1. (lastSeen[d] + 1)..Len(log) \subseteq 1..Len(log)
          BY <1>2
        <4> QED
          BY <3>1, <4>1, <1>9
      <3> QED
        BY <3>1, <3>2, <1>1, <1>3 DEF Underway
    <2>2. inflight'[d] = inflight[d]
      BY <1>4
    <2> QED
      BY ONLY <2>1, <2>2, <1>5 DEF Underway
  <1>12. ASSUME NEW e \in Devices, e # d PROVE Numbered(e)' /\ Unseen(e)' /\ Underway(e)'
    <2>1. pending'[e] = pending[e] /\ lastSeen'[e] = lastSeen[e]
      BY <1>12, <1>1, <1>4 DEF Sound, TypeOK
    <2> QED
      BY <2>1, <1>4, AheadKept DEF IInv, Ahead
  <1> QED
    BY <1>4, <1>8, <1>10, <1>11, <1>12 DEF Ahead

(* Losing the connection and asking for it again leave pending alone.       *)
LEMMA LinkAhead ==
    ASSUME IInv, NEW d \in Devices, Disconnect(d) \/ ReconnectRequest(d)
    PROVE  Ahead' /\ log' = log
  <1>1. /\ pending' = pending /\ lastSeen' = lastSeen /\ nextClientSeq' = nextClientSeq
        /\ inflight' = inflight /\ log' = log
    BY DEF Disconnect, ReconnectRequest
  <1>2. link'[d] # "connected" /\ \A e \in Devices \ {d} : link'[e] = link[e]
    BY DEF IInv, Sound, TypeOK, Disconnect, ReconnectRequest
  <1>3. Numbered(d)' /\ Unseen(d)' /\ Underway(d)'
    BY <1>1, <1>2 DEF IInv, Ahead, Numbered, Increasing, Unseen, Underway, Action
  <1>4. ASSUME NEW e \in Devices, e # d PROVE Numbered(e)' /\ Unseen(e)' /\ Underway(e)'
    BY <1>1, <1>2, <1>4, AheadKept DEF IInv, Ahead
  <1> QED
    BY <1>1, <1>3, <1>4 DEF Ahead

(* completeReconnect() clears pending, whichever answer it got.             *)
LEMMA ReconnectAhead ==
    ASSUME IInv, NEW d \in Devices, Reconnect(d)
    PROVE  Ahead' /\ log' = log
  <1>1. /\ pending' = [pending EXCEPT ![d] = <<>>] /\ log' = log /\ inflight' = inflight
        /\ nextClientSeq' = nextClientSeq
        /\ link' = [link EXCEPT ![d] = "connected"]
    BY DEF Reconnect, CompleteReplay, CompleteSnapshot
  <1>2. \A e \in Devices \ {d} : /\ lastSeen'[e] = lastSeen[e] /\ pending'[e] = pending[e]
                                 /\ link'[e] = link[e]
    <2>1. \E x : lastSeen' = [lastSeen EXCEPT ![d] = x]
      BY DEF Reconnect, CompleteReplay, CompleteSnapshot
    <2> QED
      BY <1>1, <2>1 DEF IInv, Sound, TypeOK
  <1>3. pending'[d] = <<>>
    BY <1>1 DEF IInv, Sound, TypeOK
  <1>4. Numbered(d)'
    <2>1. Increasing(<<>>) /\ <<>> \in Seq(Nat) /\ \A i \in 1..Len(<<>>) : FALSE
      BY DEF Increasing
    <2> QED
      BY <2>1, <1>1, <1>3, DropsAhead
  <1>5. Unseen(d)' /\ Underway(d)'
    BY <1>3 DEF Unseen, Underway
  <1>6. ASSUME NEW e \in Devices, e # d PROVE Numbered(e)' /\ Unseen(e)' /\ Underway(e)'
    BY <1>1, <1>2, <1>6, AheadKept DEF IInv, Ahead
  <1> QED
    BY <1>1, <1>4, <1>5, <1>6 DEF Ahead

(* Every step keeps the inductive invariant.                                *)
LEMMA StepAhead == IInv /\ [Next]_vars => IInv'
  <1> SUFFICES ASSUME IInv, [Next]_vars PROVE IInv'
    OBVIOUS
  <1>1. Sound'
    BY StepSound DEF IInv
  <1>2. ASSUME log' = log PROVE DispatchOrderKept' /\ HostOrder'
    BY <1>2 DEF IInv, DispatchOrderKept, HostOrder
  <1>3. CASE UNCHANGED vars
    <2>1. Ahead' /\ log' = log
      BY <1>3 DEF vars, deviceVars, IInv, Ahead, Numbered, Increasing, Unseen, Underway, Action
    <2> QED
      BY <2>1, <1>1, <1>2 DEF IInv
  <1>4. CASE Emit
    BY <1>1, <1>4, EmitAhead DEF IInv
  <1>5. ASSUME NEW d \in Devices, Receive(d) PROVE IInv'
    <2>1. CASE Contains(pending[d], Head(inflight[d]))
      BY <1>1, <1>5, <2>1, ReceiveAhead DEF IInv
    <2>2. CASE ~Contains(pending[d], Head(inflight[d]))
      BY <1>1, <1>2, <1>5, <2>2, DroppedAhead DEF IInv
    <2> QED
      BY <2>1, <2>2
  <1>6. ASSUME NEW d \in Devices, Dispatch(d) PROVE Ahead' /\ log' = log
    BY <1>6, DispatchAhead DEF Dispatch
  <1>7. ASSUME NEW d \in Devices,
               \/ Dispatch(d) \/ Flush(d) \/ Disconnect(d) \/ LoseInflight(d)
               \/ ReconnectRequest(d) \/ Reconnect(d)
        PROVE  IInv'
    <2>1. Ahead' /\ log' = log
      BY <1>6, <1>7, FlushAhead, LinkAhead, LoseInflightAhead, ReconnectAhead
    <2> QED
      BY <2>1, <1>1, <1>2 DEF IInv
  <1> QED
    BY <1>3, <1>4, <1>5, <1>7 DEF Next

(* What a client shows: the confirmed actions, then the pending ones.       *)
LEMMA ShownOnce ==
    ASSUME IInv, NEW d \in Devices
    PROVE  IsInjective(Optimistic(d))
  <1> DEFINE c == confirmed[d]
             p == pending[d]
             q == [i \in 1..Len(p) |-> Action(d, p[i])]
             k == lastSeen[d]
             s == c \o q
  <1>1. Sound /\ Numbered(d) /\ Unseen(d) /\ DispatchOrderKept
    BY DEF IInv, Ahead
  <1>2. /\ p \in Seq(Nat) /\ Len(p) \in Nat /\ k \in Nat /\ Len(log) \in Nat /\ k <= Len(log)
        /\ \A m \in 1..Len(log) : log[m] \in Actions /\ log[m].n \in Nat
    BY <1>1, Types
  <1>3. c \in Seq(Actions) /\ Len(c) = k /\ \A i \in 1..k : c[i] = log[i]
    BY <1>1 DEF Sound, TypeOK, Prefix
  <1>4. q \in Seq(Actions) /\ Len(q) = Len(p) /\ \A i \in 1..Len(p) : q[i] = Action(d, p[i])
    <2>1. \A i \in 1..Len(p) : Action(d, p[i]) \in Actions
      BY <1>2 DEF Action, Actions
    <2> QED
      BY <2>1, <1>2, IsASeq
  <1> HIDE DEF c, p, q, k
  <1>5. /\ s \in Seq(Actions) /\ Len(s) = k + Len(p)
        /\ \A i \in 1..k : s[i] = log[i]
        /\ \A i \in 1..Len(p) : s[k + i] = Action(d, p[i])
    <2> DEFINE n == Len(p)
    <2>1. /\ s \in Seq(Actions) /\ Len(s) = Len(c) + Len(q)
          /\ \A i \in 1..(Len(c) + Len(q)) : s[i] = IF i <= Len(c) THEN c[i] ELSE q[i - Len(c)]
      BY <1>3, <1>4, ConcatProperties
    <2>2. /\ Len(s) = k + n /\ k \in Nat /\ n \in Nat
          /\ \A i \in 1..(k + n) : s[i] = IF i <= k THEN c[i] ELSE q[i - k]
      BY <2>1, <1>2, <1>3, <1>4
    <2> HIDE DEF s, n
    <2>3. \A i \in 1..k : i \in 1..(k + n) /\ i <= k
      BY <2>2
    <2>4. \A i \in 1..n : k + i \in 1..(k + n) /\ ~(k + i <= k) /\ (k + i) - k = i
      BY <2>2
    <2>5. (\A i \in 1..k : s[i] = c[i]) /\ \A i \in 1..n : s[k + i] = q[i]
      BY <2>2, <2>3, <2>4
    <2> QED
      BY <2>1, <2>2, <2>5, <1>3, <1>4 DEF n
  <1> HIDE DEF s
  <1>6. DOMAIN s = 1..(k + Len(p))
    BY <1>5
  <1>7. \A i \in 1..(k + Len(p)) : i \in 1..k \/ \E j \in 1..Len(p) : i = k + j
    <2>1. ASSUME NEW i \in 1..(k + Len(p)), i \notin 1..k PROVE i - k \in 1..Len(p) /\ i = k + (i - k)
      BY <2>1, <1>2
    <2> QED
      BY <2>1
  <1>8. ASSUME NEW i \in 1..k, NEW j \in 1..k, i < j PROVE s[i] # s[j]
    <2>1. i \in 1..Len(log) /\ j \in 1..Len(log)
      BY <1>2
    <2>2. log[i].from = log[j].from => log[i].n < log[j].n
      BY <1>1, <1>8, <2>1 DEF DispatchOrderKept
    <2>3. log[i].n \in Nat /\ log[j].n \in Nat
      BY <1>2, <2>1
    <2>4. log[i] # log[j]
      BY <2>2, <2>3
    <2> QED
      BY <2>4, <1>5
  <1>9. ASSUME NEW i \in 1..k, NEW j \in 1..Len(p) PROVE s[i] # s[k + j]
    <2>1. log[i] # Action(d, p[j])
      BY <1>1 DEF Unseen, k, p
    <2> QED
      BY <2>1, <1>5
  <1>10. ASSUME NEW i \in 1..Len(p), NEW j \in 1..Len(p), i < j PROVE s[k + i] # s[k + j]
    <2>4. \A x, y \in 1..Len(p) : x < y => p[x] < p[y]
      BY <1>1 DEF Numbered, Increasing, p
    <2>1. p[i] < p[j] /\ p[i] \in Nat /\ p[j] \in Nat
      BY <1>2, <1>10, <2>4
    <2>2. Action(d, p[i]).n = p[i] /\ Action(d, p[j]).n = p[j]
      BY DEF Action
    <2>3. Action(d, p[i]) # Action(d, p[j])
      BY <2>1, <2>2
    <2> QED
      BY <2>3, <1>5
  <1>11. ASSUME NEW i \in DOMAIN s, NEW j \in DOMAIN s, i < j PROVE s[i] # s[j]
    <2>1. CASE j \in 1..k
      <3>1. i \in 1..k
        BY <1>2, <1>6, <1>11, <2>1
      <3> QED
        BY <3>1, <2>1, <1>8, <1>11
    <2>2. CASE \E y \in 1..Len(p) : j = k + y
      <3>1. PICK y \in 1..Len(p) : j = k + y
        BY <2>2
      <3>2. CASE i \in 1..k
        BY <3>1, <3>2, <1>9
      <3>3. CASE \E x \in 1..Len(p) : i = k + x
        <4>1. PICK x \in 1..Len(p) : i = k + x
          BY <3>3
        <4>2. x < y
          BY <4>1, <3>1, <1>2, <1>11
        <4> QED
          BY <4>1, <4>2, <3>1, <1>10
      <3> QED
        BY <3>2, <3>3, <1>6, <1>7
    <2> QED
      BY <2>1, <2>2, <1>6, <1>7
  <1>12. \A i, j \in DOMAIN s : s[i] = s[j] => i = j
    <2>1. \A i, j \in DOMAIN s : i \in Int /\ j \in Int
      BY <1>6, <1>2
    <2>2. \A i, j \in DOMAIN s : i < j \/ j < i \/ i = j
      BY <2>1
    <2> QED
      BY <2>2, <1>11
  <1>13. Optimistic(d) = s
    BY DEF Optimistic, s, c, p, q
  <1> QED
    BY <1>12, <1>13 DEF IsInjective

(* A pending action is on the wire to the host, or queued on the way back.  *)
LEMMA PendingUnderway ==
    ASSUME IInv, NEW d \in Devices, link[d] = "connected", NEW x \in ToSet(pending[d])
    PROVE  \/ Contains(inflight[d], x)
           \/ \E m \in ToSet(outbox[d]) : log[m] = Action(d, x)
  <1>1. Sound /\ Underway(d)
    BY DEF IInv, Ahead
  <1> DEFINE b == outbox[d]
             k == lastSeen[d]
             l == Len(log)
  <1>2. /\ pending[d] \in Seq(Nat) /\ inflight[d] \in Seq(Nat) /\ b \in Seq(Nat)
        /\ k \in Nat /\ l \in Nat /\ k <= l
    BY <1>1, Types
  <1>3. PICK i \in 1..Len(pending[d]) : pending[d][i] = x
    <2>1. DOMAIN pending[d] = 1..Len(pending[d])
      BY <1>2
    <2>2. \E i \in DOMAIN pending[d] : pending[d][i] = x
      BY Zenon DEF ToSet
    <2> QED
      BY <2>1, <2>2
  <1>4. Len(b) = l - k /\ \A j \in 1..Len(b) : b[j] = k + j
    BY <1>1 DEF Sound, Rest
  <1>5. CASE \E j \in 1..Len(inflight[d]) : inflight[d][j] = x
    BY <1>5, <1>2 DEF Contains
  <1>6. CASE \E m \in (k + 1)..l : log[m] = Action(d, x)
    <2>1. PICK m \in (k + 1)..l : log[m] = Action(d, x)
      BY <1>6
    <2> HIDE DEF b, k, l
    <2>2. m - k \in 1..(l - k) /\ k + (m - k) = m
      BY <2>1, <1>2
    <2>3. m - k \in 1..Len(b) /\ b[m - k] = m
      BY <2>2, <1>4
    <2>4. m \in ToSet(b)
      BY <2>3, <1>2 DEF ToSet
    <2> QED
      BY <2>1, <2>4 DEF b
  <1> QED
    BY <1>1, <1>3, <1>5, <1>6 DEF Underway

(* Whatever the interleaving of dispatch(), receive(), flush() and           *)
(* reconnects, a client shows no action twice, a pending action is on its   *)
(* way while the connection lives, and the host's log keeps the order in    *)
(* which each client dispatched.                                            *)
THEOREM OptimisticSide == Spec => []OptimisticSideSound
  <1>1. Spec => []IInv
    BY InitAhead, StepAhead, PTL DEF Spec
  <1>2. IInv => OptimisticSideSound
    BY ShownOnce, PendingUnderway
       DEF OptimisticSideSound, NothingShownTwice, PendingIsUnderway, IInv
  <1> QED
    BY <1>1, <1>2, PTL

=============================================================================
