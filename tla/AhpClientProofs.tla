--------------------------- MODULE AhpClientProofs ---------------------------
(***************************************************************************)
(* Proofs about AhpClient, for any number of channels, subscriptions,       *)
(* requests, events and server requests.                                    *)
(*                                                                          *)
(* Four inductive invariants, each on top of Typed: Settled for requests    *)
(* and what a closed client holds, Delivered for subscriptions and their    *)
(* events, Asked for the requests of the server and FreshClientSeq itself.  *)
(***************************************************************************)
EXTENDS AhpClient, SubsequenceProofs

-----------------------------------------------------------------------------
(* The invariants.                                                         *)

\* Frames and messages name requests and events that exist.
WiresTyped ==
    /\ \A k \in DOMAIN inbound :
          /\ inbound[k].type \in {"result", "error"} => inbound[k].id \in Requests
          /\ inbound[k].type = "event" => inbound[k].id \in 1..Len(emitted)
          /\ inbound[k].type = "ask" => inbound[k].id \in 1..srvAsked
    /\ \A k \in DOMAIN sending :
          /\ sending[k].type = "request" => sending[k].id \in Requests
          /\ sending[k].type = "answer" => sending[k].id \in ServerRequests
    /\ Len(emitted) <= MaxEvents

Typed == TypeOK /\ WiresTyped

\* Requests are numbered in order.
IdsFresh == \A i \in Requests : i >= nextRequestId => outcome[i] = "unused"

Settled == Typed /\ IdsFresh /\ ClosedLeavesNothing

\* An open subscription has a queue, and one that was not made yet is unknown
\* to requests and server.
HandleKnown(h) ==
    /\ handle[h].state = "open" => handle[h].uri \in subs
    /\ handle[h].state = "none" => since[h] = -1 /\ \A i \in Requests : subscribing[i] # h

\* Requests on their way to the server or with it were made.
RequestsMade ==
    /\ \A i \in srvOpen : outcome[i] # "unused"
    /\ \A k \in DOMAIN sending : sending[k].type = "request" => outcome[sending[k].id] # "unused"

Unsubscribes(u, k) == sending[k] = [type |-> "unsubscribe", uri |-> u]

\* An unsubscribe() that is still on the wire was made before an open
\* subscription of the channel: it is not behind the subscribe request.
NotUndone(h) ==
    handle[h].state = "open" =>
       /\ (since[h] >= 0 \/ \E i \in srvOpen : subscribing[i] = h) =>
             \A k \in DOMAIN sending : ~Unsubscribes(handle[h].uri, k)
       /\ \A j, k \in DOMAIN sending :
             /\ j < k /\ sending[j].type = "request" /\ subscribing[sending[j].id] = h
             => ~Unsubscribes(handle[h].uri, k)

\* Events are delivered and are on the wire in the order they were emitted.
EventsInOrder ==
    /\ \A j, k \in DOMAIN inbound :
          j < k /\ inbound[j].type = "event" /\ inbound[k].type = "event" =>
             inbound[j].id < inbound[k].id
    /\ \A h \in Handles :
          /\ \A j, k \in DOMAIN got[h] : j < k => got[h][j] < got[h][k]
          /\ \A j \in DOMAIN got[h] : got[h][j] <= Len(emitted)
          /\ \A j \in DOMAIN got[h], k \in DOMAIN inbound :
                inbound[k].type = "event" => got[h][j] < inbound[k].id

\* What the server emitted since it took the subscription is in got or underway.
Complete(h) ==
    handle[h].state = "open" /\ since[h] >= 0 =>
       /\ handle[h].uri \in srvSubs
       /\ \A n \in (since[h] + 1)..Len(emitted) : emitted[n] = handle[h].uri =>
             \/ \E j \in DOMAIN got[h] : got[h][j] = n
             \/ \E k \in DOMAIN inbound : inbound[k].type = "event" /\ inbound[k].id = n

Delivered ==
    /\ Settled /\ EventsInOrder /\ RequestsMade
    /\ \A h \in Handles : HandleKnown(h) /\ NotUndone(h) /\ Complete(h)

IsAsk(k, i)    == inbound[k].type = "ask" /\ inbound[k].id = i
IsAnswer(k, i) == sending[k].type = "answer" /\ sending[k].id = i

\* A request of the server is in one place only: on its way to the client, with
\* its handler, on its way back, or answered.
AskedOnce(i) ==
    /\ \A j, k \in DOMAIN inbound : IsAsk(j, i) /\ IsAsk(k, i) => j = k
    /\ \A j, k \in DOMAIN sending : IsAnswer(j, i) /\ IsAnswer(k, i) => j = k
    /\ \A j \in DOMAIN inbound : IsAsk(j, i) =>
          i \notin answering /\ answers[i] = 0 /\ \A k \in DOMAIN sending : ~IsAnswer(k, i)
    /\ i \in answering => answers[i] = 0 /\ \A k \in DOMAIN sending : ~IsAnswer(k, i)
    /\ (\E k \in DOMAIN sending : IsAnswer(k, i)) => answers[i] = 0
    /\ i > srvAsked => /\ i \notin answering /\ answers[i] = 0
                       /\ \A k \in DOMAIN sending : ~IsAnswer(k, i)
    /\ answers[i] <= 1

Asked == Typed /\ \A i \in ServerRequests : AskedOnce(i)

-----------------------------------------------------------------------------
(* Types.                                                                  *)

HandleStates == [uri : Uris, state : {"none", "open", "ended", "closed"}]

\* The part of TypeOK that tearDown() and the requests change.
CallsTyped ==
    /\ status \in {"idle", "connected", "closed"}
    /\ nextRequestId \in 1..(MaxRequests + 1)
    /\ outcome \in [Requests -> Outcomes]
    /\ timer \subseteq Requests
    /\ subscribing \in [Requests -> Handles \cup {NoHandle}]
    /\ subs \subseteq Uris
    /\ handle \in [Handles -> HandleStates]
    /\ got \in [Handles -> Seq(1..MaxEvents)]

\* The rest.
LinkTyped ==
    /\ loop \in {"none", "running", "done"}
    /\ shutdownCall \in {"none", "closing", "draining", "returned"}
    /\ nextClientSeq \in Nat /\ seqs \in Seq(Nat)
    /\ handlerSet \in BOOLEAN /\ answering \subseteq ServerRequests
    /\ transport \in {"open", "closed"}
    /\ sending \in Seq(Messages) /\ inbound \in Seq(Frames)
    /\ srvOpen \subseteq Requests /\ srvSubs \subseteq Uris
    /\ since \in [Handles -> -1..MaxEvents]
    /\ emitted \in Seq(Uris)
    /\ srvAsked \in 0..MaxServerRequests
    /\ answers \in [ServerRequests -> Nat]
    /\ WiresTyped

LEMMA TypedParts == Typed <=> CallsTyped /\ LinkTyped
  BY DEF Typed, TypeOK, CallsTyped, LinkTyped, HandleStates

LEMMA Bounds == /\ MaxRequests \in Nat /\ MaxEvents \in Nat /\ MaxServerRequests \in Nat
                /\ MaxDispatches \in Nat /\ MaxSending \in Nat
  BY BoundAssumption

(* Ending and closing subscriptions changes their state only.               *)
LEMMA HandleChanges ==
    ASSUME CallsTyped
    PROVE  /\ \A U : /\ Ended(U) \in [Handles -> HandleStates]
                     /\ \A h \in Handles :
                           /\ Ended(U)[h].uri = handle[h].uri
                           /\ Ended(U)[h].state =
                                 IF handle[h].state = "open" /\ handle[h].uri \in U
                                 THEN "ended" ELSE handle[h].state
           /\ \A hs \in [Handles -> HandleStates] : \A S :
                     /\ Released(hs, S) \in [Handles -> HandleStates]
                     /\ \A h \in Handles :
                           /\ Released(hs, S)[h].uri = hs[h].uri
                           /\ Released(hs, S)[h].state =
                                 IF h \in S /\ hs[h].state # "none" THEN "closed" ELSE hs[h].state
  <1>1. ASSUME NEW x \in HandleStates, NEW s \in {"ended", "closed"}
        PROVE  /\ [x EXCEPT !.state = s] \in HandleStates
               /\ [x EXCEPT !.state = s].uri = x.uri /\ [x EXCEPT !.state = s].state = s
    BY DEF HandleStates
  <1>2. \A h \in Handles : handle[h] \in HandleStates
    BY DEF CallsTyped
  <1>3. ASSUME NEW U
        PROVE  /\ Ended(U) \in [Handles -> HandleStates]
               /\ \A h \in Handles :
                     /\ Ended(U)[h].uri = handle[h].uri
                     /\ Ended(U)[h].state =
                           IF handle[h].state = "open" /\ handle[h].uri \in U
                           THEN "ended" ELSE handle[h].state
    <2>1. ASSUME NEW h \in Handles
          PROVE  LET e == IF handle[h].state = "open" /\ handle[h].uri \in U
                          THEN [handle[h] EXCEPT !.state = "ended"] ELSE handle[h] IN
                 /\ e \in HandleStates /\ e.uri = handle[h].uri
                 /\ e.state = IF handle[h].state = "open" /\ handle[h].uri \in U
                              THEN "ended" ELSE handle[h].state
      <3> DEFINE x == handle[h]
                 b == x.state = "open" /\ x.uri \in U
      <3>1. x \in HandleStates
        BY <1>2
      <3>2. /\ [x EXCEPT !.state = "ended"] \in HandleStates
            /\ [x EXCEPT !.state = "ended"].uri = x.uri /\ [x EXCEPT !.state = "ended"].state = "ended"
        BY <3>1, <1>1
      <3> HIDE DEF x, b
      <3>3. CASE b
        BY <3>2, <3>3 DEF x, b
      <3>4. CASE ~b
        BY <3>1, <3>4 DEF x, b
      <3> QED
        BY <3>3, <3>4
    <2> QED
      BY <2>1 DEF Ended
  <1>4. ASSUME NEW hs \in [Handles -> HandleStates], NEW S
        PROVE  /\ Released(hs, S) \in [Handles -> HandleStates]
               /\ \A h \in Handles :
                     /\ Released(hs, S)[h].uri = hs[h].uri
                     /\ Released(hs, S)[h].state =
                           IF h \in S /\ hs[h].state # "none" THEN "closed" ELSE hs[h].state
    BY <1>1 DEF Released
  <1> QED
    BY <1>3, <1>4

(* tearDown() in one formula.                                               *)
LEMMA TearDownFacts ==
    ASSUME CallsTyped, NEW reason \in {"clientClosed", "transport"}, TearDown(reason)
    PROVE  /\ CallsTyped' /\ status' = "closed"
           /\ \A i \in Requests : outcome'[i] # outcome[i] => outcome[i] = "pending" /\ outcome'[i] = reason
           /\ status # "closed" => \A i \in Requests : outcome'[i] # "pending"
           /\ timer' = IF status = "closed" THEN timer ELSE {}
           /\ subs' = IF status = "closed" THEN subs ELSE {}
           /\ nextRequestId' = nextRequestId /\ subscribing' = subscribing /\ got' = got
           /\ \A h \in Handles : /\ handle'[h].uri = handle[h].uri
                                 /\ handle'[h].state = "open" => status = "closed" /\ handle[h].state = "open"
                                 /\ handle'[h].state = "none" <=> handle[h].state = "none"
  <1>1. CASE status = "closed"
    <2>1. /\ status' = status /\ nextRequestId' = nextRequestId /\ outcome' = outcome
          /\ timer' = timer /\ subscribing' = subscribing /\ subs' = subs /\ handle' = handle
          /\ got' = got
      BY <1>1 DEF TearDown, reqVars, subVars
    <2>2. CallsTyped'
      BY <2>1 DEF CallsTyped
    <2> QED
      BY <1>1, <2>1, <2>2
  <1>2. CASE status # "closed"
    <2> DEFINE S == {subscribing[i] : i \in {j \in Requests : outcome[j] = "pending"}}
    <2>1. /\ status' = "closed"
          /\ outcome' = [i \in Requests |-> IF outcome[i] = "pending" THEN reason ELSE outcome[i]]
          /\ timer' = {} /\ subs' = {} /\ handle' = Released(Ended(Uris), S)
          /\ nextRequestId' = nextRequestId /\ subscribing' = subscribing /\ got' = got
      BY <1>2 DEF TearDown
    <2> HIDE DEF S
    <2>2. /\ Ended(Uris) \in [Handles -> HandleStates]
          /\ \A h \in Handles :
                /\ Ended(Uris)[h].uri = handle[h].uri
                /\ Ended(Uris)[h].state = IF handle[h].state = "open" /\ handle[h].uri \in Uris
                                          THEN "ended" ELSE handle[h].state
      BY HandleChanges
    <2>3. /\ handle' \in [Handles -> HandleStates]
          /\ \A h \in Handles :
                /\ handle'[h].uri = Ended(Uris)[h].uri
                /\ handle'[h].state = IF h \in S /\ Ended(Uris)[h].state # "none"
                                      THEN "closed" ELSE Ended(Uris)[h].state
      BY <2>1, <2>2, HandleChanges
    <2>4. \A h \in Handles : handle[h].uri \in Uris
      BY DEF CallsTyped, HandleStates
    <2>5. reason \in Outcomes
      BY DEF Outcomes
    <2>6. outcome' \in [Requests -> Outcomes]
      BY <2>1, <2>5 DEF CallsTyped
    <2>7. CallsTyped'
      BY <2>1, <2>3, <2>6 DEF CallsTyped
    <2> QED
      BY <1>2, <2>1, <2>2, <2>3, <2>4, <2>7
  <1> QED
    BY <1>1, <1>2

(* A request that settles.                                                  *)
LEMMA SettleFacts ==
    ASSUME CallsTyped, NEW i \in Requests, NEW how \in {"result", "error", "timeout"}, IsPending(i),
           Settle(i, how), status' = status
    PROVE  /\ CallsTyped'
           /\ outcome'[i] = how /\ \A j \in Requests \ {i} : outcome'[j] = outcome[j]
           /\ timer' = timer \ {i}
           /\ subs' = subs
           /\ nextRequestId' = nextRequestId /\ subscribing' = subscribing /\ got' = got
           /\ \A h \in Handles : /\ handle'[h].uri = handle[h].uri
                                 /\ handle'[h].state = "open" => handle[h].state = "open"
                                 /\ handle'[h].state = "none" <=> handle[h].state = "none"
  <1>1. /\ outcome' = [outcome EXCEPT ![i] = how] /\ timer' = timer \ {i}
        /\ handle' = handle \/ handle' = Released(handle, {subscribing[i]})
        /\ nextRequestId' = nextRequestId /\ subscribing' = subscribing /\ subs' = subs /\ got' = got
    BY DEF Settle
  <1>2. handle \in [Handles -> HandleStates]
    BY DEF CallsTyped
  <1>3. /\ handle' \in [Handles -> HandleStates]
        /\ \A h \in Handles : /\ handle'[h].uri = handle[h].uri
                              /\ handle'[h].state = "open" => handle[h].state = "open"
                              /\ handle'[h].state = "none" <=> handle[h].state = "none"
    BY <1>1, <1>2, HandleChanges
  <1>4. how \in Outcomes
    BY DEF Outcomes
  <1>5. outcome' \in [Requests -> Outcomes]
    BY <1>1, <1>4 DEF CallsTyped
  <1>6. CallsTyped'
    BY <1>1, <1>3, <1>5 DEF CallsTyped
  <1>7. outcome'[i] = how /\ \A j \in Requests \ {i} : outcome'[j] = outcome[j]
    BY <1>1 DEF CallsTyped
  <1> QED
    BY <1>1, <1>3, <1>6, <1>7

-----------------------------------------------------------------------------
(* The wires.                                                              *)

(* A sequence with one more element.                                        *)
LEMMA AppendFacts ==
    ASSUME NEW T, NEW s \in Seq(T), NEW x \in T
    PROVE  /\ Append(s, x) \in Seq(T) /\ Len(s) \in Nat /\ DOMAIN s = 1..Len(s)
           /\ Len(Append(s, x)) = Len(s) + 1 /\ DOMAIN Append(s, x) = 1..(Len(s) + 1)
           /\ Append(s, x)[Len(s) + 1] = x
           /\ \A k \in DOMAIN s : k \in DOMAIN Append(s, x) /\ Append(s, x)[k] = s[k] /\ k < Len(s) + 1
           /\ \A k \in DOMAIN Append(s, x) : k \in DOMAIN s \/ k = Len(s) + 1
           /\ Len(s) + 1 \in DOMAIN Append(s, x)
  <1> DEFINE a == Append(s, x)
             n == Len(s)
  <1>1. /\ a \in Seq(T) /\ n \in Nat /\ DOMAIN s = 1..n /\ Len(a) = n + 1 /\ DOMAIN a = 1..(n + 1)
        /\ a[n + 1] = x /\ \A k \in 1..n : a[k] = s[k]
    OBVIOUS
  <1> HIDE DEF a, n
  <1>2. /\ \A k \in 1..n : k \in 1..(n + 1) /\ k < n + 1
        /\ \A k \in 1..(n + 1) : k \in 1..n \/ k = n + 1
        /\ n + 1 \in 1..(n + 1)
    BY <1>1
  <1> QED
    BY <1>1, <1>2 DEF a, n

(* A sequence without its first element.                                    *)
LEMMA TailDomain ==
    ASSUME NEW T, NEW s \in Seq(T), s # <<>>
    PROVE  /\ Tail(s) \in Seq(T) /\ 1 \in DOMAIN s /\ Head(s) = s[1] /\ Head(s) \in T
           /\ \A k \in DOMAIN Tail(s) : /\ k + 1 \in DOMAIN s /\ Tail(s)[k] = s[k + 1] /\ 1 < k + 1
           /\ \A k \in DOMAIN s : k = 1 \/ (k - 1 \in DOMAIN Tail(s) /\ Tail(s)[k - 1] = s[k])
           /\ \A j, k \in DOMAIN Tail(s) : (j < k <=> j + 1 < k + 1) /\ (j + 1 = k + 1 => j = k)
  <1> DEFINE t == Tail(s)
  <1>1. /\ t \in Seq(T) /\ 1 \in 1..Len(s) /\ Head(s) = s[1]
        /\ \A i \in 1..Len(t) : t[i] = s[i + 1] /\ i + 1 \in 1..Len(s) /\ 1 < i + 1
        /\ \A i \in 1..Len(s) : i = 1 \/ (i - 1 \in 1..Len(t) /\ t[i - 1] = s[i])
    BY TailFacts
  <1>2. DOMAIN s = 1..Len(s) /\ s[1] \in T
    BY <1>1
  <1> HIDE DEF t
  <1>3. DOMAIN t = 1..Len(t)
    BY <1>1
  <1>4. \A j, k \in DOMAIN t : (j < k <=> j + 1 < k + 1) /\ (j + 1 = k + 1 => j = k)
    BY <1>3
  <1> QED
    BY <1>1, <1>2, <1>3, <1>4 DEF t

LEMMA MessageFacts ==
    /\ \A i \in Nat : /\ [type |-> "request", id |-> i] \in Messages
                      /\ [type |-> "answer", id |-> i] \in Messages
    /\ \A u \in Uris : [type |-> "unsubscribe", uri |-> u] \in Messages
    /\ [type |-> "dispatch"] \in Messages
    /\ \A i \in Nat, t \in {"result", "error", "event", "ask"} : [type |-> t, id |-> i] \in Frames
    /\ \A m \in Messages : m.type = "unsubscribe" =>
          m.uri \in Uris /\ m = [type |-> "unsubscribe", uri |-> m.uri]
  <1>1. \A m \in Messages : m.type = "unsubscribe" => m \in [type : {"unsubscribe"}, uri : Uris]
    BY DEF Messages
  <1>2. \A m \in [type : {"unsubscribe"}, uri : Uris] :
           m.uri \in Uris /\ m = [type |-> "unsubscribe", uri |-> m.uri]
    OBVIOUS
  <1> QED
    BY <1>1, <1>2 DEF Messages, Frames

(* A message more on the wire to the server.                                *)
LEMMA SendTyped ==
    ASSUME LinkTyped, NEW m \in Messages, Send(m), UNCHANGED <<inbound, emitted, srvAsked>>,
           m.type = "request" => m.id \in Requests, m.type = "answer" => m.id \in ServerRequests
    PROVE  sending' \in Seq(Messages) /\ WiresTyped'
  <1>1. sending \in Seq(Messages) /\ sending' = Append(sending, m)
    BY DEF LinkTyped, Send
  <1>2. /\ sending' \in Seq(Messages)
        /\ \A k \in DOMAIN sending' :
              (k \in DOMAIN sending /\ sending'[k] = sending[k]) \/ sending'[k] = m
    BY <1>1, AppendFacts
  <1> QED
    BY <1>2 DEF LinkTyped, WiresTyped

(* The first message off that wire.                                         *)
LEMMA SentTyped ==
    ASSUME LinkTyped, sending # <<>>, sending' = Tail(sending), UNCHANGED <<inbound, emitted, srvAsked>>
    PROVE  sending' \in Seq(Messages) /\ WiresTyped'
  <1>1. /\ sending' \in Seq(Messages)
        /\ \A k \in DOMAIN sending' : k + 1 \in DOMAIN sending /\ sending'[k] = sending[k + 1]
    BY TailDomain DEF LinkTyped
  <1> QED
    BY <1>1 DEF LinkTyped, WiresTyped

(* The first frame off the wire to the client.                              *)
LEMMA ReceivedTyped ==
    ASSUME LinkTyped, NEW f, Received(f)
    PROVE  /\ inbound' \in Seq(Frames) /\ f \in Frames
           /\ \A k \in DOMAIN inbound' : k + 1 \in DOMAIN inbound /\ inbound'[k] = inbound[k + 1]
           /\ f.type \in {"result", "error"} => f.id \in Requests
           /\ f.type = "event" => f.id \in 1..Len(emitted)
           /\ f.type = "ask" => f.id \in 1..srvAsked
           /\ status' = status /\ loop' \in {"none", "running", "done"}
           /\ UNCHANGED <<shutdownCall, nextClientSeq, seqs, handlerSet, transport, srvOpen, srvSubs,
                          since, emitted, srvAsked, answers>>
  <1>1. inbound \in Seq(Frames) /\ inbound # <<>> /\ inbound' = Tail(inbound) /\ f = Head(inbound)
    BY DEF LinkTyped, Received
  <1>2. /\ inbound' \in Seq(Frames) /\ 1 \in DOMAIN inbound /\ f = inbound[1] /\ f \in Frames
        /\ \A k \in DOMAIN inbound' : k + 1 \in DOMAIN inbound /\ inbound'[k] = inbound[k + 1]
    BY <1>1, TailDomain
  <1>3. /\ status' = status /\ loop' \in {"none", "running", "done"}
        /\ UNCHANGED <<shutdownCall, nextClientSeq, seqs, handlerSet, transport, srvOpen, srvSubs,
                       since, emitted, srvAsked, answers>>
    BY DEF Received, seqVars, serverVars
  <1>4. /\ f.type \in {"result", "error"} => f.id \in Requests
        /\ f.type = "event" => f.id \in 1..Len(emitted)
        /\ f.type = "ask" => f.id \in 1..srvAsked
    BY <1>2 DEF LinkTyped, WiresTyped
  <1> QED
    BY <1>2, <1>3, <1>4

(* A frame more on that wire.                                               *)
LEMMA DeliverTyped ==
    ASSUME LinkTyped, NEW f \in Frames, Deliver(f), sending' = sending,
           emitted' \in Seq(Uris), Len(emitted) <= Len(emitted'), Len(emitted') <= MaxEvents,
           srvAsked' \in Nat, srvAsked <= srvAsked',
           f.type \in {"result", "error"} => f.id \in Requests,
           f.type = "event" => f.id \in 1..Len(emitted'),
           f.type = "ask" => f.id \in 1..srvAsked'
    PROVE  inbound' \in Seq(Frames) /\ WiresTyped'
  <1>1. inbound \in Seq(Frames) /\ inbound' = Append(inbound, f)
    BY DEF LinkTyped, Deliver
  <1>2. /\ inbound' \in Seq(Frames)
        /\ \A k \in DOMAIN inbound' :
              (k \in DOMAIN inbound /\ inbound'[k] = inbound[k]) \/ inbound'[k] = f
    BY <1>1, AppendFacts
  <1>3. /\ \A x \in 1..Len(emitted) : x \in 1..Len(emitted')
        /\ \A x \in 1..srvAsked : x \in 1..srvAsked'
    <2>1. Len(emitted) \in Nat /\ Len(emitted') \in Nat /\ srvAsked \in Nat
      BY Bounds DEF LinkTyped
    <2> QED
      BY <2>1
  <1>4. ASSUME NEW k \in DOMAIN inbound'
        PROVE  /\ inbound'[k].type \in {"result", "error"} => inbound'[k].id \in Requests
               /\ inbound'[k].type = "event" => inbound'[k].id \in 1..Len(emitted')
               /\ inbound'[k].type = "ask" => inbound'[k].id \in 1..srvAsked'
    <2>1. CASE inbound'[k] = f
      BY <2>1
    <2>2. CASE k \in DOMAIN inbound /\ inbound'[k] = inbound[k]
      BY <2>2, <1>3 DEF LinkTyped, WiresTyped
    <2> QED
      BY <2>1, <2>2, <1>2
  <1> QED
    BY <1>2, <1>4 DEF LinkTyped, WiresTyped

-----------------------------------------------------------------------------
(* Typed is inductive.                                                     *)

LEMMA InitTyped == Init => Typed
  <1> SUFFICES ASSUME Init PROVE CallsTyped /\ LinkTyped
    BY TypedParts
  <1>1. handle \in [Handles -> HandleStates]
    BY DEF Init, HandleStates
  <1>2. CallsTyped
    BY <1>1, Bounds DEF Init, CallsTyped, Outcomes
  <1>3. WiresTyped
    BY Bounds DEF Init, WiresTyped
  <1>4. since \in [Handles -> -1..MaxEvents] /\ srvAsked \in 0..MaxServerRequests
    BY Bounds DEF Init
  <1>5. LinkTyped
    <2>1. sending \in Seq(Messages) /\ inbound \in Seq(Frames) /\ emitted \in Seq(Uris) /\ seqs \in Seq(Nat)
      BY DEF Init
    <2>2. nextClientSeq \in Nat /\ answers \in [ServerRequests -> Nat]
      BY DEF Init
    <2>3. /\ loop \in {"none", "running", "done"}
          /\ shutdownCall \in {"none", "closing", "draining", "returned"}
          /\ handlerSet \in BOOLEAN /\ answering \subseteq ServerRequests /\ transport \in {"open", "closed"}
          /\ srvOpen \subseteq Requests /\ srvSubs \subseteq Uris
      BY DEF Init
    <2> QED
      BY <1>3, <1>4, <2>1, <2>2, <2>3 DEF LinkTyped
  <1> QED
    BY <1>2, <1>5

\* The variables of CallsTyped, and those of LinkTyped but three.
CallsSame == UNCHANGED <<status, nextRequestId, outcome, timer, subscribing, subs, handle, got>>
WiresSame == UNCHANGED <<sending, inbound, emitted, srvAsked>>
OthersSame == UNCHANGED <<nextClientSeq, seqs, handlerSet, answering, srvOpen, srvSubs, since, answers>>

LEMMA SameTyped ==
    /\ CallsTyped /\ CallsSame => CallsTyped'
    /\ WiresTyped /\ WiresSame => WiresTyped'
    /\ /\ LinkTyped /\ OthersSame /\ loop' \in {"none", "running", "done"}
       /\ shutdownCall' \in {"none", "closing", "draining", "returned"}
       /\ transport' \in {"open", "closed"}
       /\ sending' \in Seq(Messages) /\ inbound' \in Seq(Frames) /\ emitted' \in Seq(Uris)
       /\ srvAsked' \in 0..MaxServerRequests /\ WiresTyped'
       => LinkTyped'
  <1>1. CallsTyped /\ CallsSame => CallsTyped'
    BY DEF CallsTyped, CallsSame
  <1>2. WiresTyped /\ WiresSame => WiresTyped'
    BY DEF WiresTyped, WiresSame
  <1> QED
    BY <1>1, <1>2 DEF OthersSame, LinkTyped

(* The calls of the application.                                            *)
LEMMA CallTyped ==
    ASSUME CallsTyped, LinkTyped
    PROVE  /\ Connect \/ Shutdown \/ ShutdownClosed \/ ShutdownReturns \/ Request \/ SetHandler
                => CallsTyped' /\ LinkTyped'
           /\ \A h \in Handles : AttachSubscription(h) \/ Subscribe(h) \/ CloseSubscription(h)
                => CallsTyped' /\ LinkTyped'
           /\ \A u \in Uris : Unsubscribe(u) => CallsTyped' /\ LinkTyped'
           /\ \A seq \in Nat : Dispatch(seq) => CallsTyped' /\ LinkTyped'
  <1>0. WiresTyped
    BY DEF LinkTyped
  <1> DEFINE StartFacts(h) ==
        /\ nextRequestId \in Requests /\ nextRequestId' \in 1..(MaxRequests + 1)
        /\ outcome' \in [Requests -> Outcomes] /\ timer' \subseteq Requests
        /\ subscribing' \in [Requests -> Handles \cup {NoHandle}]
  <1>1. ASSUME NEW h \in Handles \cup {NoHandle}, StartRequest(h)
        PROVE  StartFacts(h)
    <2>1. nextRequestId \in Requests /\ nextRequestId + 1 \in 1..(MaxRequests + 1)
      BY <1>1, Bounds DEF CallsTyped, StartRequest, Requests
    <2>2. "pending" \in Outcomes
      BY DEF Outcomes
    <2> QED
      BY <1>1, <2>1, <2>2 DEF CallsTyped, StartRequest
  <1>2. ASSUME NEW h \in Handles \cup {NoHandle}, StartRequest(h), UNCHANGED <<inbound, emitted, srvAsked>>
        PROVE  sending' \in Seq(Messages) /\ WiresTyped'
    <2>1. nextRequestId \in Requests /\ nextRequestId \in Nat
      BY <1>1, <1>2, Bounds DEF Requests
    <2>2. Send([type |-> "request", id |-> nextRequestId])
      BY <1>2 DEF StartRequest
    <2> QED
      BY <2>1, <2>2, <1>2, SendTyped, MessageFacts
  <1>3. ASSUME NEW h \in Handles, Attach(h)
        PROVE  handle' \in [Handles -> HandleStates] /\ subs' \subseteq Uris /\ got' = got
    <2>1. handle[h] \in HandleStates
      BY DEF CallsTyped
    <2>2. handle[h].uri \in Uris /\ [handle[h] EXCEPT !.state = "open"] \in HandleStates
      BY <2>1 DEF HandleStates
    <2>3. handle' = [handle EXCEPT ![h] = [handle[h] EXCEPT !.state = "open"]]
      BY <1>3 DEF Attach
    <2> QED
      BY <1>3, <2>2, <2>3 DEF Attach, CallsTyped
  <1> HIDE DEF StartFacts
  <1>4. ASSUME Connect PROVE CallsTyped' /\ LinkTyped'
    BY <1>4, <1>0 DEF Connect, CallsTyped, LinkTyped, WiresTyped, reqVars, subVars, seqVars, callVars,
                 wireVars, serverVars
  <1>5. ASSUME Shutdown PROVE CallsTyped' /\ LinkTyped'
    <2>1. CallsTyped'
      BY <1>5, TearDownFacts DEF Shutdown
    <2>2. WiresSame /\ OthersSame /\ UNCHANGED <<loop, transport>>
          /\ shutdownCall' \in {"none", "closing", "draining", "returned"}
      BY <1>5 DEF Shutdown, WiresSame, OthersSame, seqVars, callVars, wireVars, serverVars
    <2> QED
      BY <2>1, <2>2, <1>0, SameTyped DEF LinkTyped, WiresSame
  <1>6. ASSUME ShutdownClosed \/ ShutdownReturns PROVE CallsTyped' /\ LinkTyped'
    <2>1. CallsSame /\ WiresSame /\ OthersSame /\ loop' = loop
      BY <1>6 DEF ShutdownClosed, ShutdownReturns, CallsSame, WiresSame, OthersSame, reqVars, subVars, seqVars,
                  callVars, wireVars, serverVars
    <2>2. transport' \in {"open", "closed"} /\ shutdownCall' \in {"none", "closing", "draining", "returned"}
      BY <1>6 DEF ShutdownClosed, ShutdownReturns, LinkTyped, wireVars
    <2> QED
      BY <2>1, <2>2, <1>0, SameTyped DEF LinkTyped, WiresSame
  <1>7. ASSUME Request PROVE CallsTyped' /\ LinkTyped'
    <2>1. StartRequest(NoHandle) /\ NoHandle \in Handles \cup {NoHandle}
      BY <1>7 DEF Request
    <2>2. /\ OthersSame /\ UNCHANGED <<inbound, emitted, srvAsked, loop, shutdownCall, transport>>
          /\ UNCHANGED <<status, subs, handle, got>>
      BY <1>7 DEF Request, OthersSame, subVars, seqVars, callVars, serverVars
    <2>3. StartFacts(NoHandle) /\ sending' \in Seq(Messages) /\ WiresTyped'
      BY <2>1, <2>2, <1>1, <1>2
    <2>4. CallsTyped'
      BY <2>2, <2>3 DEF StartFacts, CallsTyped
    <2> QED
      BY <2>2, <2>3, <2>4, SameTyped DEF LinkTyped
  <1>8. ASSUME SetHandler PROVE CallsTyped' /\ LinkTyped'
    <2>1. CallsSame /\ WiresSame /\ UNCHANGED <<loop, shutdownCall, nextClientSeq, seqs, answering, transport,
                          srvOpen, srvSubs, since, answers>> /\ handlerSet' \in BOOLEAN
      BY <1>8 DEF SetHandler, CallsSame, WiresSame, reqVars, subVars, seqVars, wireVars, serverVars
    <2>2. CallsTyped' /\ WiresTyped'
      BY <2>1, <1>0, SameTyped
    <2> QED
      BY <2>1, <2>2 DEF LinkTyped, WiresSame
  <1>9. ASSUME NEW h \in Handles, AttachSubscription(h) PROVE CallsTyped' /\ LinkTyped'
    <2>1. Attach(h) /\ WiresSame /\ OthersSame /\ UNCHANGED <<loop, shutdownCall, transport, status,
               nextRequestId, outcome, timer, subscribing>>
      BY <1>9 DEF AttachSubscription, WiresSame, OthersSame, reqVars, seqVars, callVars, wireVars, serverVars
    <2>2. CallsTyped'
      BY <2>1, <1>3 DEF CallsTyped
    <2> QED
      BY <2>1, <2>2, <1>0, SameTyped DEF LinkTyped, WiresSame
  <1>10. ASSUME NEW h \in Handles, Subscribe(h) PROVE CallsTyped' /\ LinkTyped'
    <2>1. /\ Attach(h) /\ StartRequest(h) /\ OthersSame
          /\ UNCHANGED <<inbound, emitted, srvAsked, loop, shutdownCall, transport, status>>
      BY <1>10 DEF Subscribe, OthersSame, seqVars, callVars, serverVars
    <2>2. StartFacts(h) /\ sending' \in Seq(Messages) /\ WiresTyped'
      BY <2>1, <1>1, <1>2
    <2>3. CallsTyped'
      BY <2>1, <2>2, <1>3 DEF StartFacts, CallsTyped
    <2> QED
      BY <2>1, <2>2, <2>3, SameTyped DEF LinkTyped
  <1>11. ASSUME NEW h \in Handles, CloseSubscription(h) PROVE CallsTyped' /\ LinkTyped'
    <2>1. WiresSame /\ OthersSame /\ UNCHANGED <<loop, shutdownCall, transport, status,
               nextRequestId, outcome, timer, subscribing, subs, got>> /\ handle' = Released(handle, {h})
      BY <1>11 DEF CloseSubscription, WiresSame, OthersSame, reqVars, seqVars, callVars, wireVars, serverVars
    <2>2. handle' \in [Handles -> HandleStates]
      BY <2>1, HandleChanges DEF CallsTyped
    <2>3. CallsTyped'
      BY <2>1, <2>2 DEF CallsTyped
    <2> QED
      BY <2>1, <2>3, <1>0, SameTyped DEF LinkTyped, WiresSame
  <1>12. ASSUME NEW u \in Uris, Unsubscribe(u) PROVE CallsTyped' /\ LinkTyped'
    <2>1. /\ OthersSame /\ UNCHANGED <<inbound, emitted, srvAsked, loop, shutdownCall, transport>>
          /\ UNCHANGED <<status, nextRequestId, outcome, timer, subscribing, got>>
          /\ handle' = Ended({u}) /\ subs' = subs \ {u} /\ Send([type |-> "unsubscribe", uri |-> u])
      BY <1>12 DEF Unsubscribe, OthersSame, reqVars, seqVars, callVars, serverVars
    <2>2. handle' \in [Handles -> HandleStates]
      BY <2>1, HandleChanges
    <2>3. CallsTyped'
      BY <2>1, <2>2 DEF CallsTyped
    <2>4. sending' \in Seq(Messages) /\ WiresTyped'
      BY <2>1, SendTyped, MessageFacts
    <2> QED
      BY <2>1, <2>3, <2>4, SameTyped DEF LinkTyped
  <1>13. ASSUME NEW seq \in Nat, Dispatch(seq) PROVE CallsTyped' /\ LinkTyped'
    <2>1. /\ CallsSame /\ UNCHANGED <<inbound, emitted, srvAsked, loop, shutdownCall, transport>>
          /\ UNCHANGED <<handlerSet, answering, srvOpen, srvSubs, since, answers>>
          /\ Send([type |-> "dispatch"]) /\ seqs' = Append(seqs, seq)
          /\ nextClientSeq' = IF seq = nextClientSeq THEN seq + 1 ELSE NextSeq(seq)
      BY <1>13 DEF Dispatch, CallsSame, reqVars, subVars, callVars, serverVars
    <2>2. nextClientSeq' \in Nat /\ seqs' \in Seq(Nat)
      BY <2>1 DEF LinkTyped, NextSeq
    <2>3. sending' \in Seq(Messages) /\ WiresTyped'
      BY <2>1, SendTyped, MessageFacts
    <2> QED
      BY <2>1, <2>2, <2>3, SameTyped DEF LinkTyped
  <1> QED
    BY <1>4, <1>5, <1>6, <1>7, <1>8, <1>9, <1>10, <1>11, <1>12, <1>13

(* The continuations and the receive loop.                                  *)
LEMMA LoopTyped ==
    ASSUME CallsTyped, LinkTyped
    PROVE  /\ \A i \in Requests : TimeoutFires(i) => CallsTyped' /\ LinkTyped'
           /\ SendDone \/ SendFails \/ HandleFrame \/ RecvNull \/ RecvFails => CallsTyped' /\ LinkTyped'
           /\ \A i \in ServerRequests : HandlerFinishes(i) => CallsTyped' /\ LinkTyped'
  <1>0. WiresTyped
    BY DEF LinkTyped
  <1>1. ASSUME NEW i \in Requests, TimeoutFires(i) PROVE CallsTyped' /\ LinkTyped'
    <2>1. WiresSame /\ OthersSame /\ UNCHANGED <<loop, shutdownCall, transport, status>>
      BY <1>1 DEF TimeoutFires, WiresSame, OthersSame, seqVars, callVars, wireVars, serverVars
    <2>2. IsPending(i) /\ Settle(i, "timeout")
      BY <1>1 DEF TimeoutFires
    <2>3. CallsTyped'
      BY <2>1, <2>2, SettleFacts
    <2> QED
      BY <2>1, <2>3, <1>0, SameTyped DEF LinkTyped, WiresSame
  <1>2. ASSUME SendDone PROVE CallsTyped' /\ LinkTyped'
    <2>1. /\ CallsSame /\ sending # <<>> /\ sending' = Tail(sending)
          /\ UNCHANGED <<loop, shutdownCall, nextClientSeq, seqs, handlerSet, answering, transport, inbound,
                         since, emitted, srvAsked>>
      BY <1>2 DEF SendDone, CallsSame, reqVars, subVars, seqVars, callVars
    <2>2. sending' \in Seq(Messages) /\ WiresTyped'
      BY <2>1, SentTyped
    <2>3. /\ Head(sending).type = "request" => Head(sending).id \in Requests
          /\ Head(sending).type = "answer" => Head(sending).id \in ServerRequests
      BY <2>1, <1>0, TailDomain DEF LinkTyped, WiresTyped
    <2>4. srvOpen' \subseteq Requests
      BY <1>2, <2>3 DEF SendDone, LinkTyped
    <2>5. srvSubs' \subseteq Uris
      BY <1>2 DEF SendDone, LinkTyped
    <2>6. answers' \in [ServerRequests -> Nat]
      <3>1. CASE transport = "open" /\ Head(sending).type = "answer"
        <4> DEFINE x == Head(sending).id
        <4>1. x \in ServerRequests
          BY <3>1, <2>3
        <4>2. answers' = [answers EXCEPT ![x] = @ + 1]
          BY <3>1, <1>2 DEF SendDone
        <4> HIDE DEF x
        <4> QED
          BY <4>1, <4>2 DEF LinkTyped
      <3>2. CASE ~(transport = "open" /\ Head(sending).type = "answer")
        BY <3>2, <1>2 DEF SendDone, LinkTyped
      <3> QED
        BY <3>1, <3>2
    <2> QED
      BY <2>1, <2>2, <2>4, <2>5, <2>6, SameTyped DEF LinkTyped
  <1>3. ASSUME SendFails PROVE CallsTyped' /\ LinkTyped'
    <2>1. /\ OthersSame /\ sending # <<>> /\ sending' = Tail(sending) /\ TearDown("transport")
          /\ UNCHANGED <<loop, shutdownCall, transport, inbound, emitted, srvAsked>>
      BY <1>3 DEF SendFails, OthersSame, seqVars, callVars, serverVars
    <2>2. sending' \in Seq(Messages) /\ WiresTyped'
      BY <2>1, SentTyped
    <2>3. CallsTyped'
      BY <2>1, TearDownFacts
    <2> QED
      BY <2>1, <2>2, <2>3, SameTyped DEF LinkTyped
  <1>4. ASSUME LoopEnds PROVE CallsTyped' /\ LinkTyped'
    <2>1. /\ OthersSame /\ WiresSame /\ loop' \in {"none", "running", "done"} /\ TearDown("transport")
          /\ UNCHANGED <<shutdownCall, transport>>
      BY <1>4 DEF LoopEnds, OthersSame, WiresSame, seqVars, callVars, wireVars, serverVars
    <2>2. CallsTyped'
      BY <2>1, TearDownFacts
    <2> QED
      BY <2>1, <2>2, <1>0, SameTyped DEF LinkTyped, WiresSame
  <1>5. ASSUME NEW f, Received(f), UNCHANGED sending PROVE WiresTyped'
    <2>1. UNCHANGED <<emitted, srvAsked>> /\
          \A k \in DOMAIN inbound' : k + 1 \in DOMAIN inbound /\ inbound'[k] = inbound[k + 1]
      BY <1>5, ReceivedTyped
    <2> QED
      BY <2>1, <1>0, <1>5 DEF WiresTyped
  <1>6. ASSUME NEW f, HandleResponse(f) PROVE CallsTyped' /\ LinkTyped'
    <2>1. Received(f) /\ f.type \in {"result", "error"} /\ UNCHANGED <<answering, sending>>
      BY <1>6 DEF HandleResponse
    <2>2. f.id \in Requests /\ status' = status
      BY <2>1, ReceivedTyped
    <2>3. CallsTyped'
      <3>1. CASE IsPending(f.id)
        BY <3>1, <1>6, <2>1, <2>2, SettleFacts DEF HandleResponse
      <3>2. CASE ~IsPending(f.id)
        BY <3>2, <1>6, <2>2 DEF HandleResponse, CallsTyped, reqVars, subVars
      <3> QED
        BY <3>1, <3>2
    <2>4. LinkTyped'
      BY <2>1, <1>5, ReceivedTyped DEF LinkTyped
    <2> QED
      BY <2>3, <2>4
  <1>7. ASSUME NEW f, HandleEvent(f) PROVE CallsTyped' /\ LinkTyped'
    <2>1. /\ Received(f) /\ f.type = "event" /\ UNCHANGED <<answering, sending>>
          /\ UNCHANGED <<nextRequestId, outcome, timer, subscribing, subs, handle>>
          /\ got' = FanOut(emitted[f.id], f.id)
      BY <1>7 DEF HandleEvent, reqVars
    <2>2. f.id \in 1..Len(emitted) /\ status' = status
      BY <2>1, ReceivedTyped
    <2>3. f.id \in 1..MaxEvents
      <3>1. Len(emitted) \in Nat /\ Len(emitted) <= MaxEvents
        BY <1>0 DEF LinkTyped, WiresTyped
      <3> DEFINE n == Len(emitted)
      <3> HIDE DEF n
      <3> QED
        BY <3>1, <2>2, Bounds DEF n
    <2>4. got' \in [Handles -> Seq(1..MaxEvents)]
      <3>1. \A h \in Handles : got[h] \in Seq(1..MaxEvents) /\ Append(got[h], f.id) \in Seq(1..MaxEvents)
        BY <2>3, AppendFacts DEF CallsTyped
      <3> QED
        BY <3>1, <2>1 DEF FanOut
    <2>5. CallsTyped'
      BY <2>1, <2>2, <2>4 DEF CallsTyped
    <2>6. LinkTyped'
      BY <2>1, <1>5, ReceivedTyped DEF LinkTyped
    <2> QED
      BY <2>5, <2>6
  <1>8. ASSUME NEW f, HandleServerRequest(f) PROVE CallsTyped' /\ LinkTyped'
    <2>1. /\ Received(f) /\ f.type = "ask"
          /\ UNCHANGED <<nextRequestId, outcome, timer, subscribing, subs, handle, got>>
          /\ \/ answering' = answering \cup {f.id} /\ UNCHANGED sending
             \/ Send([type |-> "answer", id |-> f.id]) /\ UNCHANGED answering
      BY <1>8 DEF HandleServerRequest, reqVars, subVars
    <2>2. f.id \in ServerRequests /\ f.id \in Nat /\ status' = status
      <3>1. f.id \in 1..srvAsked /\ srvAsked \in 0..MaxServerRequests /\ status' = status
        BY <2>1, ReceivedTyped DEF LinkTyped
      <3> QED
        BY <3>1, Bounds DEF ServerRequests
    <2>3. CallsTyped'
      BY <2>1, <2>2 DEF CallsTyped
    <2>4. CASE answering' = answering \cup {f.id} /\ UNCHANGED sending
      BY <2>1, <2>2, <2>3, <2>4, <1>5, ReceivedTyped DEF LinkTyped
    <2>5. CASE Send([type |-> "answer", id |-> f.id]) /\ UNCHANGED answering
      <3> DEFINE m == [type |-> "answer", id |-> f.id]
      <3>1. m \in Messages /\ m.type = "answer" /\ m.id \in ServerRequests
        BY <2>2, MessageFacts
      <3>2. sending \in Seq(Messages) /\ sending' = Append(sending, m)
        BY <2>5 DEF LinkTyped, Send
      <3> HIDE DEF m
      <3>3. /\ sending' \in Seq(Messages)
            /\ \A k \in DOMAIN sending' :
                  (k \in DOMAIN sending /\ sending'[k] = sending[k]) \/ sending'[k] = m
        BY <3>1, <3>2, AppendFacts
      <3>4. UNCHANGED <<emitted, srvAsked>> /\
            \A k \in DOMAIN inbound' : k + 1 \in DOMAIN inbound /\ inbound'[k] = inbound[k + 1]
        BY <2>1, ReceivedTyped
      <3>5. WiresTyped'
        BY <3>1, <3>3, <3>4, <1>0 DEF WiresTyped
      <3> QED
        BY <2>1, <2>3, <2>5, <3>3, <3>5, ReceivedTyped DEF LinkTyped
    <2> QED
      BY <2>1, <2>4, <2>5
  <1>9. ASSUME NEW i \in ServerRequests, HandlerFinishes(i) PROVE CallsTyped' /\ LinkTyped'
    <2>1. /\ CallsSame /\ answering' = answering \ {i} /\ Send([type |-> "answer", id |-> i])
          /\ UNCHANGED <<loop, shutdownCall, nextClientSeq, seqs, handlerSet, transport, inbound,
                         srvOpen, srvSubs, since, emitted, srvAsked, answers>>
      BY <1>9 DEF HandlerFinishes, CallsSame, reqVars, subVars, seqVars, serverVars
    <2>2. i \in Nat
      BY Bounds DEF ServerRequests
    <2>3. sending' \in Seq(Messages) /\ WiresTyped'
      BY <2>1, <2>2, SendTyped, MessageFacts
    <2> QED
      BY <2>1, <2>3, SameTyped DEF LinkTyped
  <1>10. HandleFrame => CallsTyped' /\ LinkTyped'
    BY <1>6, <1>7, <1>8 DEF HandleFrame
  <1>11. RecvNull \/ RecvFails => CallsTyped' /\ LinkTyped'
    BY <1>4 DEF RecvNull, RecvFails
  <1> QED
    BY <1>1, <1>2, <1>3, <1>9, <1>10, <1>11

(* The server.                                                              *)
LEMMA ServerTyped ==
    ASSUME CallsTyped, LinkTyped
    PROVE  /\ \A i \in Requests : ServerSubscribes(i) \/ ServerAnswers(i) => CallsTyped' /\ LinkTyped'
           /\ \A u \in srvSubs : ServerEmits(u) => CallsTyped' /\ LinkTyped'
           /\ ServerAsks \/ RemoteClose => CallsTyped' /\ LinkTyped'
  <1> DEFINE Same == UNCHANGED <<loop, shutdownCall, nextClientSeq, seqs, handlerSet, answering, transport,
                                 sending>>
  <1>0. WiresTyped /\ Len(emitted) \in Nat /\ Len(emitted) <= MaxEvents /\ srvAsked \in Nat
    BY Bounds DEF LinkTyped, WiresTyped
  <1>1. ClientUnchanged => Same /\ CallsSame
    BY DEF ClientUnchanged, CallsSame, reqVars, subVars, seqVars, callVars
  <1>2. ASSUME NEW i \in Requests, ServerSubscribes(i) PROVE CallsTyped' /\ LinkTyped'
    <2>1. /\ Same /\ CallsSame /\ UNCHANGED <<inbound, srvOpen, emitted, srvAsked, answers>>
          /\ subscribing[i] # NoHandle
          /\ srvSubs' = srvSubs \cup {handle[subscribing[i]].uri}
          /\ since' = [since EXCEPT ![subscribing[i]] = Len(emitted)]
      BY <1>1, <1>2 DEF ServerSubscribes
    <2>2. subscribing[i] \in Handles
      BY <2>1 DEF CallsTyped
    <2>3. handle[subscribing[i]].uri \in Uris
      BY <2>2 DEF CallsTyped, HandleStates
    <2>4. Len(emitted) \in -1..MaxEvents
      BY <1>0, Bounds
    <2>5. since' \in [Handles -> -1..MaxEvents] /\ srvSubs' \subseteq Uris
      BY <2>1, <2>2, <2>3, <2>4 DEF LinkTyped
    <2>6. WiresTyped' /\ CallsTyped'
      BY <1>0, <2>1, SameTyped DEF WiresSame
    <2> QED
      BY <2>1, <2>5, <2>6 DEF LinkTyped
  <1>3. ASSUME NEW i \in Requests, ServerAnswers(i) PROVE CallsTyped' /\ LinkTyped'
    <2>1. /\ Same /\ CallsSame /\ UNCHANGED <<srvSubs, since, emitted, srvAsked, answers>>
          /\ srvOpen' = srvOpen \ {i}
      BY <1>1, <1>3 DEF ServerAnswers
    <2>2. PICK how \in {"result", "error"} : Deliver([type |-> how, id |-> i])
      BY <1>3 DEF ServerAnswers
    <2>3. i \in Nat
      BY Bounds DEF Requests
    <2>4. inbound' \in Seq(Frames) /\ WiresTyped'
      <3> DEFINE f == [type |-> how, id |-> i]
      <3>1. f \in Frames /\ f.type \in {"result", "error"} /\ f.id = i
        BY <2>3, MessageFacts
      <3>2. f.type # "event" /\ f.type # "ask" /\ Deliver(f)
        BY <3>1, <2>2
      <3>3. emitted' \in Seq(Uris) /\ Len(emitted') = Len(emitted) /\ srvAsked' = srvAsked /\ sending' = sending
        BY <2>1 DEF LinkTyped
      <3> HIDE DEF f
      <3> QED
        BY <3>1, <3>2, <3>3, <1>0, DeliverTyped
    <2> QED
      BY <2>1, <2>4, SameTyped DEF LinkTyped
  <1>4. ASSUME NEW u \in srvSubs, ServerEmits(u) PROVE CallsTyped' /\ LinkTyped'
    <2> DEFINE n == Len(emitted)
               f == [type |-> "event", id |-> n + 1]
    <2>1. /\ Same /\ CallsSame /\ UNCHANGED <<srvSubs, since, srvOpen, srvAsked, answers>>
          /\ emitted' = Append(emitted, u) /\ n < MaxEvents /\ Deliver(f) /\ u \in Uris
      BY <1>1, <1>4 DEF ServerEmits, LinkTyped
    <2>2. emitted' \in Seq(Uris) /\ Len(emitted') = n + 1 /\ n \in Nat
      BY <2>1, AppendFacts DEF LinkTyped
    <2>3. f \in Frames /\ f.type = "event" /\ f.id = n + 1
      <3>1. n + 1 \in Nat
        BY <2>2
      <3> QED
        BY <3>1, MessageFacts
    <2> HIDE DEF n, f
    <2>4. n + 1 \in 1..(n + 1) /\ n <= n + 1 /\ n + 1 <= MaxEvents
      BY <2>1, <2>2, Bounds
    <2>5. f.type \notin {"result", "error"} /\ f.type # "ask"
      BY <2>3
    <2>6. inbound' \in Seq(Frames) /\ WiresTyped'
      BY <2>1, <2>2, <2>3, <2>4, <2>5, <1>0, DeliverTyped DEF n
    <2> QED
      BY <2>1, <2>2, <2>6, SameTyped DEF LinkTyped
  <1>5. ASSUME ServerAsks PROVE CallsTyped' /\ LinkTyped'
    <2> DEFINE f == [type |-> "ask", id |-> srvAsked + 1]
    <2>1. /\ Same /\ CallsSame /\ UNCHANGED <<srvSubs, since, srvOpen, emitted, answers>>
          /\ srvAsked' = srvAsked + 1 /\ srvAsked < MaxServerRequests /\ Deliver(f)
      BY <1>1, <1>5 DEF ServerAsks
    <2>2. f \in Frames /\ f.type = "ask" /\ f.id = srvAsked + 1
      <3>1. srvAsked + 1 \in Nat
        BY <1>0
      <3> QED
        BY <3>1, MessageFacts
    <2> HIDE DEF f
    <2>3. srvAsked + 1 \in 1..srvAsked' /\ srvAsked <= srvAsked' /\ srvAsked' \in 0..MaxServerRequests
          /\ srvAsked' \in Nat
      BY <2>1, <1>0, Bounds
    <2>4. f.type \notin {"result", "error"} /\ f.type # "event"
      BY <2>2
    <2>5. emitted' \in Seq(Uris) /\ Len(emitted') = Len(emitted) /\ sending' = sending
      BY <2>1 DEF LinkTyped
    <2>6. inbound' \in Seq(Frames) /\ WiresTyped'
      BY <2>1, <2>2, <2>3, <2>4, <2>5, <1>0, DeliverTyped
    <2> QED
      BY <2>1, <2>3, <2>6, SameTyped DEF LinkTyped
  <1>6. ASSUME RemoteClose PROVE CallsTyped' /\ LinkTyped'
    <2>1. WiresSame /\ OthersSame /\ CallsSame /\ UNCHANGED <<loop, shutdownCall>> /\ transport' = "closed"
      BY <1>6 DEF RemoteClose, WiresSame, OthersSame, CallsSame, reqVars, subVars, seqVars, callVars, serverVars
    <2> QED
      BY <2>1, <1>0, SameTyped DEF LinkTyped, WiresSame
  <1> QED
    BY <1>2, <1>3, <1>4, <1>5, <1>6

LEMMA StepTyped == Typed /\ [Next]_vars => Typed'
  <1> SUFFICES ASSUME CallsTyped, LinkTyped, [Next]_vars
               PROVE  CallsTyped' /\ LinkTyped'
    BY TypedParts DEF Typed, TypeOK, CallsTyped, LinkTyped, HandleStates
  <1>1. CASE Next
    <2>1. \A seq \in 1..(MaxDispatches + 1) \cup {nextClientSeq} : seq \in Nat
      BY Bounds DEF LinkTyped
    <2> QED
      BY <1>1, <2>1, CallTyped, LoopTyped, ServerTyped DEF Next
  <1>2. CASE UNCHANGED vars
    BY <1>2, SameTyped DEF vars, reqVars, subVars, seqVars, callVars, wireVars, serverVars, LinkTyped, CallsSame,
        WiresSame, OthersSame
  <1> QED
    BY <1>1, <1>2

-----------------------------------------------------------------------------
(* Requests settle once, and a closed client holds nothing.                *)

(* What a step does to requests, queues and subscriptions: it tears the     *)
(* client down, starts a request, settles one, or does neither.             *)
LEMMA RequestSteps ==
    ASSUME Typed, [Next]_vars
    PROVE  \/ \E reason \in {"clientClosed", "transport"} : TearDown(reason)
           \/ \E h \in Handles \cup {NoHandle} :
                 /\ StartRequest(h) /\ status' = status /\ UNCHANGED got
                 /\ UNCHANGED <<subs, handle>> \/ (h \in Handles /\ Attach(h))
           \/ \E i \in Requests, how \in {"result", "error", "timeout"} :
                 IsPending(i) /\ Settle(i, how) /\ status' = status
           \/ /\ UNCHANGED reqVars
              /\ \/ UNCHANGED <<subs, handle>> /\ (status' = status \/ status' = "connected")
                 \/ status' = status /\ \E h \in Handles : Attach(h)
                 \/ status' = status /\ subs' = subs /\ \E h \in Handles : handle' = Released(handle, {h})
                 \/ /\ IsOpen /\ status' = status
                    /\ \E u \in Uris : handle' = Ended({u}) /\ subs' = subs \ {u}
  <1> USE DEF subVars
  <1>0. CallsTyped /\ LinkTyped
    BY TypedParts
  <1>1. CASE Connect
    BY <1>1 DEF Connect
  <1>2. CASE Shutdown
    BY <1>2 DEF Shutdown
  <1>3. CASE ShutdownClosed \/ ShutdownReturns \/ SetHandler
    BY <1>3 DEF ShutdownClosed, ShutdownReturns, SetHandler
  <1>4. CASE Request
    BY <1>4 DEF Request
  <1>5. ASSUME NEW h \in Handles, AttachSubscription(h) PROVE status' = status /\ Attach(h) /\ UNCHANGED reqVars
    BY <1>5 DEF AttachSubscription
  <1>6. ASSUME NEW h \in Handles, Subscribe(h) PROVE StartRequest(h) /\ status' = status /\ UNCHANGED got /\ Attach(h)
    BY <1>6 DEF Subscribe, Attach
  <1>7. ASSUME NEW h \in Handles, CloseSubscription(h)
        PROVE  status' = status /\ subs' = subs /\ handle' = Released(handle, {h}) /\ UNCHANGED reqVars
    BY <1>7 DEF CloseSubscription
  <1>8. ASSUME NEW u \in Uris, Unsubscribe(u)
        PROVE  IsOpen /\ status' = status /\ handle' = Ended({u}) /\ subs' = subs \ {u} /\ UNCHANGED reqVars
    BY <1>8 DEF Unsubscribe
  <1>9. ASSUME NEW seq, Dispatch(seq) PROVE UNCHANGED <<subs, handle>> /\ status' = status /\ UNCHANGED reqVars
    BY <1>9 DEF Dispatch
  <1>10. ASSUME NEW i \in Requests, TimeoutFires(i) PROVE IsPending(i) /\ Settle(i, "timeout") /\ status' = status
    BY <1>10 DEF TimeoutFires
  <1>11. CASE SendDone
    BY <1>11 DEF SendDone
  <1>12. CASE SendFails
    BY <1>12 DEF SendFails
  <1>13. CASE RecvNull \/ RecvFails
    BY <1>13 DEF RecvNull, RecvFails, LoopEnds
  <1>14. ASSUME NEW f, HandleResponse(f)
         PROVE  \/ UNCHANGED reqVars /\ UNCHANGED <<subs, handle>> /\ status' = status
                \/ \E i \in Requests, how \in {"result", "error", "timeout"} :
                      IsPending(i) /\ Settle(i, how) /\ status' = status
    <2>1. Received(f) /\ f.type \in {"result", "error"}
      BY <1>14 DEF HandleResponse
    <2>2. f.id \in Requests /\ status' = status
      BY <2>1, <1>0, ReceivedTyped
    <2> QED
      BY <1>14, <2>1, <2>2 DEF HandleResponse
  <1>15. ASSUME NEW f, HandleEvent(f) \/ HandleServerRequest(f)
         PROVE  UNCHANGED reqVars /\ UNCHANGED <<subs, handle>> /\ status' = status
    BY <1>15 DEF HandleEvent, HandleServerRequest, Received
  <1>16. ASSUME NEW i, HandlerFinishes(i) \/ ServerSubscribes(i) \/ ServerAnswers(i) \/ ServerEmits(i)
         PROVE  UNCHANGED reqVars /\ UNCHANGED <<subs, handle>> /\ status' = status
    BY <1>16 DEF HandlerFinishes, ServerSubscribes, ServerAnswers, ServerEmits, ClientUnchanged
  <1>17. CASE ServerAsks \/ RemoteClose
    BY <1>17 DEF ServerAsks, RemoteClose, ClientUnchanged
  <1>18. CASE UNCHANGED vars
    BY <1>18 DEF vars
  <1>19. CASE HandleFrame
    BY <1>14, <1>15, <1>19 DEF HandleFrame
  <1> QED
    BY <1>1, <1>2, <1>3, <1>4, <1>5, <1>6, <1>7, <1>8, <1>9, <1>10, <1>11, <1>12, <1>13, <1>16, <1>17, <1>18,
       <1>19 DEF Next

LEMMA InitSettled == Init => Settled
  BY InitTyped DEF Init, Settled, IdsFresh, ClosedLeavesNothing

(* What settles and what is closed, by the kind of step.                    *)
LEMMA StepSettled ==
    ASSUME Settled, [Next]_vars
    PROVE  /\ Settled'
           /\ \A i \in Requests : outcome'[i] # outcome[i] =>
                 \/ outcome[i] = "unused" /\ outcome'[i] = "pending"
                 \/ outcome[i] = "pending" /\ outcome'[i] # "unused"
  <1> DEFINE Once == \A i \in Requests : outcome'[i] # outcome[i] =>
                 \/ outcome[i] = "unused" /\ outcome'[i] = "pending"
                 \/ outcome[i] = "pending" /\ outcome'[i] # "unused"
             Pending == {i \in Requests : outcome[i] = "pending"}
             Goal == IdsFresh' /\ ClosedLeavesNothing' /\ Once
  <1>0. Typed /\ CallsTyped /\ LinkTyped /\ IdsFresh /\ ClosedLeavesNothing
    BY TypedParts DEF Settled
  <1>1. Typed'
    BY <1>0, StepTyped
  <1>2. ASSUME NEW reason \in {"clientClosed", "transport"}, TearDown(reason) PROVE Goal
    <2>1. /\ status' = "closed"
          /\ \A i \in Requests : outcome'[i] # outcome[i] => outcome[i] = "pending" /\ outcome'[i] = reason
          /\ status # "closed" => \A i \in Requests : outcome'[i] # "pending"
          /\ timer' = IF status = "closed" THEN timer ELSE {}
          /\ subs' = IF status = "closed" THEN subs ELSE {}
          /\ nextRequestId' = nextRequestId
          /\ \A h \in Handles : handle'[h].state = "open" => status = "closed" /\ handle[h].state = "open"
      BY <1>0, <1>2, TearDownFacts
    <2>2. Once
      BY <2>1
    <2>3. IdsFresh'
      BY <1>0, <2>1 DEF IdsFresh
    <2>4. \A i \in Requests : outcome'[i] # "pending"
      BY <1>0, <2>1 DEF ClosedLeavesNothing
    <2>5. timer' = {} /\ subs' = {} /\ \A h \in Handles : handle'[h].state # "open"
      BY <1>0, <2>1 DEF ClosedLeavesNothing
    <2>6. ClosedLeavesNothing'
      BY <2>4, <2>5 DEF ClosedLeavesNothing
    <2> QED
      BY <2>2, <2>3, <2>6
  <1>3. ASSUME NEW h \in Handles \cup {NoHandle}, StartRequest(h), status' = status PROVE Goal
    <2> DEFINE n == nextRequestId
    <2>1. n \in Requests /\ status # "closed" /\ nextRequestId' = n + 1 /\ n \in Nat
      BY <1>0, <1>3, Bounds DEF StartRequest, IsOpen, CallsTyped, Requests
    <2>2. /\ outcome'[n] = "pending" /\ outcome[n] = "unused"
          /\ \A i \in Requests \ {n} : outcome'[i] = outcome[i]
      BY <1>0, <1>3, <2>1 DEF StartRequest, CallsTyped, IdsFresh
    <2>3. timer' = IF Timeouts THEN timer \cup {n} ELSE timer
      BY <1>3 DEF StartRequest
    <2>4. ASSUME NEW i \in Requests, i >= n + 1 PROVE i # n /\ i >= n
      BY <2>1, <2>4, Bounds DEF Requests
    <2> HIDE DEF n
    <2>5. IdsFresh'
      BY <1>0, <2>1, <2>2, <2>4 DEF IdsFresh, n
    <2>6. {i \in Requests : outcome'[i] = "pending"} = {i \in Requests : outcome[i] = "pending"} \cup {n}
      BY <2>1, <2>2
    <2>7. ClosedLeavesNothing'
      BY <1>0, <1>3, <2>1, <2>3, <2>6 DEF ClosedLeavesNothing
    <2>8. Once
      BY <2>2
    <2> QED
      BY <2>5, <2>7, <2>8
  <1>4. ASSUME NEW i \in Requests, NEW how \in {"result", "error", "timeout"}, IsPending(i), Settle(i, how),
               status' = status
        PROVE  Goal
    <2>1. /\ outcome'[i] = how /\ \A j \in Requests \ {i} : outcome'[j] = outcome[j]
          /\ timer' = timer \ {i} /\ subs' = subs /\ nextRequestId' = nextRequestId
          /\ \A h \in Handles : handle'[h].state = "open" => handle[h].state = "open"
      BY <1>0, <1>4, SettleFacts
    <2>2. outcome[i] = "pending"
      BY <1>4 DEF IsPending
    <2>3. {j \in Requests : outcome'[j] = "pending"} = {j \in Requests : outcome[j] = "pending"} \ {i}
      BY <2>1, <2>2
    <2>4. IdsFresh'
      BY <1>0, <2>1, <2>2 DEF IdsFresh
    <2>5. timer' = IF Timeouts THEN {j \in Requests : outcome'[j] = "pending"} ELSE {}
      BY <1>0, <2>1, <2>3 DEF ClosedLeavesNothing
    <2>6. status' # "closed"
      BY <1>0, <1>4, <2>2 DEF ClosedLeavesNothing
    <2> QED
      BY <2>1, <2>2, <2>4, <2>5, <2>6 DEF ClosedLeavesNothing
  <1>5. ASSUME UNCHANGED reqVars,
               \/ UNCHANGED <<subs, handle>> /\ (status' = status \/ status' = "connected")
               \/ status' = status /\ \E h \in Handles : Attach(h)
               \/ status' = status /\ subs' = subs /\ \E h \in Handles : handle' = Released(handle, {h})
               \/ /\ IsOpen /\ status' = status
                  /\ \E u \in Uris : handle' = Ended({u}) /\ subs' = subs \ {u}
        PROVE  Goal
    <2>1. UNCHANGED <<nextRequestId, outcome, timer>>
      BY <1>5 DEF reqVars
    <2>2. IdsFresh' /\ Once
      BY <1>0, <2>1 DEF IdsFresh
    <2>3. status' = "closed" => status = "closed" /\ subs' = subs /\
             \A h \in Handles : handle'[h].state = "open" => handle[h].state = "open"
      <3>1. CASE UNCHANGED <<subs, handle>> /\ (status' = status \/ status' = "connected")
        BY <3>1
      <3>2. CASE status' = status /\ \E h \in Handles : Attach(h)
        BY <3>2 DEF Attach, IsOpen
      <3>3. ASSUME NEW h \in Handles, status' = status, subs' = subs, handle' = Released(handle, {h})
            PROVE  \A g \in Handles : handle'[g].state = "open" => handle[g].state = "open"
        <4>1. handle \in [Handles -> HandleStates]
          BY <1>0 DEF CallsTyped
        <4> QED
          BY <3>3, <4>1, <1>0, HandleChanges
      <3>4. CASE IsOpen /\ status' = status
        BY <3>4 DEF IsOpen
      <3> QED
        BY <1>5, <3>1, <3>2, <3>3, <3>4
    <2>4. ClosedLeavesNothing'
      BY <1>0, <2>1, <2>3 DEF ClosedLeavesNothing
    <2> QED
      BY <2>2, <2>4
  <1>6. Goal
    <2> HIDE DEF Goal
    <2> QED
      BY <1>0, <1>2, <1>3, <1>4, <1>5, RequestSteps
  <1> QED
    BY <1>1, <1>6 DEF Settled

(* No request is pending, no queue is left and no subscription waits on a   *)
(* client that was closed, by whatever end of tearDown(); a timer is armed  *)
(* for exactly the pending requests (client.ts, tearDown and request).      *)
THEOREM ClosedClient == Spec => []ClosedLeavesNothing
  <1>1. Init => Settled
    BY InitSettled
  <1>2. Settled /\ [Next]_vars => Settled'
    BY StepSettled
  <1>3. Settled => ClosedLeavesNothing
    BY DEF Settled
  <1> QED
    BY <1>1, <1>2, <1>3, PTL DEF Spec

(* A request settles exactly once, whichever of its answer, its timer and a *)
(* tear-down comes first (client.ts, dispatchInbound, request, tearDown).   *)
THEOREM SettleOnce == Spec => SettlesOnce
  <1> DEFINE Once == \A i \in Requests : outcome'[i] # outcome[i] =>
                 \/ outcome[i] = "unused" /\ outcome'[i] = "pending"
                 \/ outcome[i] = "pending" /\ outcome'[i] # "unused"
  <1>1. Init => Settled
    BY InitSettled
  <1>2. Settled /\ [Next]_vars => Settled'
    BY StepSettled
  <1>3. Settled /\ [Next]_vars => [Once]_vars
    BY StepSettled
  <1> QED
    BY <1>1, <1>2, <1>3, PTL DEF Spec, SettlesOnce

-----------------------------------------------------------------------------
(* Client sequence numbers.                                                *)

LEMMA SeqSteps ==
    ASSUME Next
    PROVE  \/ UNCHANGED seqVars
           \/ \E seq \in 1..(MaxDispatches + 1) \cup {nextClientSeq} : Dispatch(seq)
  <1>1. Connect \/ Shutdown \/ ShutdownClosed \/ ShutdownReturns \/ Request \/ SetHandler => UNCHANGED seqVars
    BY DEF Connect, Shutdown, ShutdownClosed, ShutdownReturns, Request, SetHandler
  <1>2. ASSUME NEW h, AttachSubscription(h) \/ Subscribe(h) \/ CloseSubscription(h) \/ Unsubscribe(h)
        PROVE  UNCHANGED seqVars
    BY <1>2 DEF AttachSubscription, Subscribe, CloseSubscription, Unsubscribe
  <1>3. ASSUME NEW i, \/ TimeoutFires(i) \/ HandlerFinishes(i) \/ ServerSubscribes(i) \/ ServerAnswers(i)
                      \/ ServerEmits(i) \/ HandleResponse(i) \/ HandleEvent(i) \/ HandleServerRequest(i)
        PROVE  UNCHANGED seqVars
    BY <1>3 DEF TimeoutFires, HandlerFinishes, ServerSubscribes, ServerAnswers, ServerEmits, ClientUnchanged,
                HandleResponse, HandleEvent, HandleServerRequest, Received
  <1>4. SendDone \/ SendFails \/ RecvNull \/ RecvFails \/ ServerAsks \/ RemoteClose => UNCHANGED seqVars
    BY DEF SendDone, SendFails, RecvNull, RecvFails, LoopEnds, ServerAsks, RemoteClose, ClientUnchanged
  <1> QED
    BY <1>1, <1>2, <1>3, <1>4 DEF Next, HandleFrame

(* The counter stays above every clientSeq that was used, with or without   *)
(* explicit ones among them (client.ts, dispatch).                          *)
THEOREM ClientSeqFresh == Spec => []FreshClientSeq
  <1>1. Init => Typed /\ FreshClientSeq
    <2>1. Init => seqs = <<>>
      BY DEF Init
    <2>2. seqs = <<>> => FreshClientSeq
      BY DEF FreshClientSeq, ToSet
    <2> QED
      BY <2>1, <2>2, InitTyped
  <1>2. ASSUME Typed, FreshClientSeq, [Next]_vars PROVE Typed' /\ FreshClientSeq'
    <2>1. Typed' /\ LinkTyped
      BY <1>2, StepTyped, TypedParts
    <2>2. CASE UNCHANGED seqVars \/ UNCHANGED vars
      BY <1>2, <2>1, <2>2 DEF seqVars, vars, FreshClientSeq
    <2>3. ASSUME NEW seq \in 1..(MaxDispatches + 1) \cup {nextClientSeq}, Dispatch(seq)
          PROVE  FreshClientSeq'
      <3>1. seq \in Nat /\ nextClientSeq \in Nat /\ seqs \in Seq(Nat)
        BY <2>1, Bounds DEF LinkTyped
      <3>2. seqs' = Append(seqs, seq) /\ nextClientSeq' = IF seq = nextClientSeq THEN seq + 1 ELSE NextSeq(seq)
        BY <2>3 DEF Dispatch
      <3>3. seq < nextClientSeq' /\ nextClientSeq <= nextClientSeq' /\ nextClientSeq' \in Nat
        BY <3>1, <3>2 DEF NextSeq
      <3>4. \A k \in DOMAIN seqs : seqs[k] \in Nat /\ seqs[k] < nextClientSeq
        BY <1>2, <3>1 DEF FreshClientSeq, ToSet
      <3>5. \A k \in DOMAIN seqs' : (k \in DOMAIN seqs /\ seqs'[k] = seqs[k]) \/ seqs'[k] = seq
        BY <3>1, <3>2, AppendFacts
      <3>6. \A x \in Nat : x < nextClientSeq => x < nextClientSeq'
        BY <3>1, <3>3
      <3>7. \A k \in DOMAIN seqs' : seqs'[k] < nextClientSeq'
        BY ONLY <3>3, <3>4, <3>5, <3>6
      <3> QED
        BY <3>7, Zenon DEF FreshClientSeq, ToSet
    <2> QED
      BY <1>2, <2>1, <2>2, <2>3, SeqSteps
  <1> QED
    BY <1>1, <1>2, PTL DEF Spec

-----------------------------------------------------------------------------
(* The requests of the server.                                             *)

\* No frame or message about a request of the server is added by a step.
NoAsks(new) == \A k \in DOMAIN new : \/ k \in DOMAIN inbound /\ new[k] = inbound[k]
                                     \/ new[k].type # "ask"
NoAnswers(new) == \A k \in DOMAIN new : \/ k \in DOMAIN sending /\ new[k] = sending[k]
                                        \/ new[k].type # "answer"
AskVars == <<answering, srvAsked, answers>>

(* What a step does to the wires and the requests of the server.            *)
LEMMA AskSteps ==
    ASSUME Typed, [Next]_vars
    PROVE  \/ UNCHANGED AskVars /\ NoAsks(inbound') /\ NoAnswers(sending')
           \/ UNCHANGED AskVars /\ (\E f : Received(f)) /\ UNCHANGED sending
           \/ SendDone \/ (SendFails /\ UNCHANGED AskVars /\ UNCHANGED inbound)
           \/ \E f : HandleServerRequest(f)
           \/ \E i \in ServerRequests : HandlerFinishes(i)
           \/ ServerAsks
  <1> USE DEF AskVars
  <1>0. CallsTyped /\ LinkTyped
    BY TypedParts
  <1>1. ASSUME UNCHANGED inbound PROVE NoAsks(inbound')
    BY <1>1 DEF NoAsks
  <1>2. ASSUME UNCHANGED sending PROVE NoAnswers(sending')
    BY <1>2 DEF NoAnswers
  <1>3. ASSUME NEW m \in Messages, Send(m), m.type # "answer" PROVE NoAnswers(sending')
    <2>1. sending \in Seq(Messages) /\ sending' = Append(sending, m)
      BY <1>0, <1>3 DEF LinkTyped, Send
    <2>2. \A k \in DOMAIN sending' : (k \in DOMAIN sending /\ sending'[k] = sending[k]) \/ sending'[k] = m
      BY <2>1, AppendFacts
    <2> QED
      BY <1>3, <2>2 DEF NoAnswers
  <1>4. ASSUME NEW f \in Frames, Deliver(f), f.type # "ask" PROVE NoAsks(inbound')
    <2>1. inbound \in Seq(Frames) /\ inbound' = Append(inbound, f)
      BY <1>0, <1>4 DEF LinkTyped, Deliver
    <2>2. \A k \in DOMAIN inbound' : (k \in DOMAIN inbound /\ inbound'[k] = inbound[k]) \/ inbound'[k] = f
      BY <2>1, AppendFacts
    <2> QED
      BY <1>4, <2>2 DEF NoAsks
  <1>5. ASSUME NEW h, StartRequest(h) PROVE NoAnswers(sending')
    <2>1. Send([type |-> "request", id |-> nextRequestId]) /\ nextRequestId \in Nat
      BY <1>0, <1>5, Bounds DEF StartRequest, CallsTyped
    <2> QED
      BY <2>1, <1>3, MessageFacts
  <1>6. CASE \/ Connect \/ Shutdown \/ ShutdownClosed \/ ShutdownReturns \/ SetHandler \/ RecvNull \/ RecvFails
             \/ RemoteClose \/ UNCHANGED vars
    <2>1. UNCHANGED AskVars /\ UNCHANGED inbound /\ UNCHANGED sending
      BY <1>6 DEF Connect, Shutdown, ShutdownClosed, ShutdownReturns, SetHandler, RecvNull, RecvFails, LoopEnds,
                  RemoteClose, vars, callVars, wireVars, serverVars
    <2> QED
      BY <2>1, <1>1, <1>2
  <1>7. CASE Request
    BY <1>7, <1>1, <1>5 DEF Request, callVars, serverVars
  <1>8. ASSUME NEW h \in Handles, AttachSubscription(h) \/ CloseSubscription(h)
        PROVE  UNCHANGED AskVars /\ NoAsks(inbound') /\ NoAnswers(sending')
    BY <1>8, <1>1, <1>2 DEF AttachSubscription, CloseSubscription, callVars, wireVars, serverVars
  <1>9. ASSUME NEW h \in Handles, Subscribe(h) PROVE UNCHANGED AskVars /\ NoAsks(inbound') /\ NoAnswers(sending')
    BY <1>9, <1>1, <1>5 DEF Subscribe, callVars, serverVars
  <1>10. ASSUME NEW u \in Uris, Unsubscribe(u) PROVE UNCHANGED AskVars /\ NoAsks(inbound') /\ NoAnswers(sending')
    <2>1. Send([type |-> "unsubscribe", uri |-> u]) /\ UNCHANGED AskVars /\ UNCHANGED inbound
      BY <1>10 DEF Unsubscribe, callVars, serverVars
    <2> QED
      BY <2>1, <1>1, <1>3, MessageFacts
  <1>11. ASSUME NEW seq, Dispatch(seq) PROVE UNCHANGED AskVars /\ NoAsks(inbound') /\ NoAnswers(sending')
    <2>1. Send([type |-> "dispatch"]) /\ UNCHANGED AskVars /\ UNCHANGED inbound
      BY <1>11 DEF Dispatch, callVars, serverVars
    <2> QED
      BY <2>1, <1>1, <1>3, MessageFacts
  <1>12. ASSUME NEW i, TimeoutFires(i) \/ ServerSubscribes(i)
         PROVE  UNCHANGED AskVars /\ NoAsks(inbound') /\ NoAnswers(sending')
    BY <1>12, <1>1, <1>2 DEF TimeoutFires, ServerSubscribes, ClientUnchanged, callVars, wireVars, serverVars
  <1>13. CASE SendFails
    BY <1>13 DEF SendFails, callVars, serverVars
  <1>14. ASSUME NEW f, HandleResponse(f) \/ HandleEvent(f)
         PROVE  UNCHANGED AskVars /\ Received(f) /\ UNCHANGED sending
    BY <1>14 DEF HandleResponse, HandleEvent, Received, serverVars
  <1>15. ASSUME NEW i \in Requests, ServerAnswers(i)
         PROVE  UNCHANGED AskVars /\ NoAsks(inbound') /\ NoAnswers(sending')
    <2>1. PICK how \in {"result", "error"} : Deliver([type |-> how, id |-> i])
      BY <1>15 DEF ServerAnswers
    <2>2. UNCHANGED AskVars /\ UNCHANGED sending /\ i \in Nat
      BY <1>15, Bounds DEF ServerAnswers, ClientUnchanged, callVars, Requests
    <2> QED
      BY <2>1, <2>2, <1>2, <1>4, MessageFacts
  <1>16. ASSUME NEW u \in srvSubs, ServerEmits(u)
         PROVE  UNCHANGED AskVars /\ NoAsks(inbound') /\ NoAnswers(sending')
    <2>1. Deliver([type |-> "event", id |-> Len(emitted) + 1]) /\ UNCHANGED AskVars /\ UNCHANGED sending
      BY <1>16 DEF ServerEmits, ClientUnchanged, callVars
    <2>2. Len(emitted) + 1 \in Nat
      BY <1>0 DEF LinkTyped
    <2> QED
      BY <2>1, <2>2, <1>2, <1>4, MessageFacts
  <1>17. CASE HandleFrame
    BY <1>14, <1>17 DEF HandleFrame
  <1> HIDE DEF AskVars
  <1> QED
    BY <1>6, <1>7, <1>8, <1>9, <1>10, <1>11, <1>12, <1>13, <1>15, <1>16, <1>17 DEF Next

LEMMA StepAsked == Asked /\ [Next]_vars => Asked'
  <1> SUFFICES ASSUME Asked, [Next]_vars PROVE Asked'
    OBVIOUS
  <1>0. Typed /\ CallsTyped /\ LinkTyped /\ Typed'
    BY TypedParts, StepTyped DEF Asked
  <1>1. SUFFICES ASSUME NEW i \in ServerRequests PROVE AskedOnce(i)'
    BY <1>0 DEF Asked
  <1>2. AskedOnce(i)
    BY DEF Asked
  <1>3. CASE UNCHANGED AskVars /\ NoAsks(inbound') /\ NoAnswers(sending')
    <2>1. /\ \A k \in DOMAIN inbound' : IsAsk(k, i)' => k \in DOMAIN inbound /\ IsAsk(k, i)
          /\ \A k \in DOMAIN sending' : IsAnswer(k, i)' => k \in DOMAIN sending /\ IsAnswer(k, i)
      BY <1>3 DEF NoAsks, NoAnswers, IsAsk, IsAnswer
    <2> QED
      BY <1>2, <1>3, <2>1 DEF AskedOnce, AskVars
  <1>4. ASSUME NEW f, Received(f)
        PROVE  /\ \A k \in DOMAIN inbound' : IsAsk(k, i)' => k + 1 \in DOMAIN inbound /\ IsAsk(k + 1, i)
               /\ \A j, k \in DOMAIN inbound' : j + 1 = k + 1 => j = k
               /\ \A k \in DOMAIN inbound' : k + 1 # 1
               /\ 1 \in DOMAIN inbound /\ f = inbound[1]
    <2>1. inbound \in Seq(Frames) /\ inbound # <<>> /\ inbound' = Tail(inbound) /\ f = Head(inbound)
      BY <1>0, <1>4 DEF LinkTyped, Received
    <2>2. /\ 1 \in DOMAIN inbound /\ f = inbound[1]
          /\ \A k \in DOMAIN inbound' : k + 1 \in DOMAIN inbound /\ inbound'[k] = inbound[k + 1] /\ 1 < k + 1
          /\ \A j, k \in DOMAIN inbound' : j + 1 = k + 1 => j = k
      BY <2>1, TailDomain
    <2>3. \A k \in DOMAIN inbound' : k + 1 # 1
      BY ONLY <2>2
    <2> QED
      BY <2>2, <2>3 DEF IsAsk
  <1>5. ASSUME NEW f, Received(f), UNCHANGED sending, UNCHANGED AskVars PROVE AskedOnce(i)'
    <2>1. \A k \in DOMAIN sending' : IsAnswer(k, i)' => k \in DOMAIN sending /\ IsAnswer(k, i)
      BY <1>5 DEF IsAnswer
    <2> QED
      BY <1>2, <1>4, <1>5, <2>1 DEF AskedOnce, AskVars
  <1>6. ASSUME sending # <<>>, sending' = Tail(sending)
        PROVE  /\ \A k \in DOMAIN sending' : IsAnswer(k, i)' => k + 1 \in DOMAIN sending /\ IsAnswer(k + 1, i)
               /\ \A j, k \in DOMAIN sending' : j + 1 = k + 1 => j = k
               /\ \A k \in DOMAIN sending' : k + 1 # 1
               /\ 1 \in DOMAIN sending /\ Head(sending) = sending[1]
    <2>1. sending \in Seq(Messages)
      BY <1>0 DEF LinkTyped
    <2>2. /\ 1 \in DOMAIN sending /\ Head(sending) = sending[1]
          /\ \A k \in DOMAIN sending' : k + 1 \in DOMAIN sending /\ sending'[k] = sending[k + 1] /\ 1 < k + 1
          /\ \A j, k \in DOMAIN sending' : j + 1 = k + 1 => j = k
      BY <1>6, <2>1, TailDomain
    <2>3. \A k \in DOMAIN sending' : k + 1 # 1
      BY ONLY <2>2
    <2> QED
      BY <2>2, <2>3 DEF IsAnswer
  <1>7. ASSUME UNCHANGED inbound PROVE \A k \in DOMAIN inbound' : IsAsk(k, i)' => k \in DOMAIN inbound /\ IsAsk(k, i)
    BY <1>7 DEF IsAsk
  <1>8. CASE SendFails /\ UNCHANGED AskVars /\ UNCHANGED inbound
    <2>1. sending # <<>> /\ sending' = Tail(sending)
      BY <1>8 DEF SendFails
    <2> QED
      BY <1>2, <1>6, <1>7, <1>8, <2>1 DEF AskedOnce, AskVars
  <1>9. CASE SendDone
    <2>1. sending # <<>> /\ sending' = Tail(sending) /\ UNCHANGED <<inbound, answering, srvAsked>>
      BY <1>9 DEF SendDone, callVars
    <2>2. /\ \A k \in DOMAIN sending' : IsAnswer(k, i)' => k + 1 \in DOMAIN sending /\ IsAnswer(k + 1, i)
          /\ \A j, k \in DOMAIN sending' : j + 1 = k + 1 => j = k
          /\ \A k \in DOMAIN sending' : k + 1 # 1
          /\ 1 \in DOMAIN sending /\ Head(sending) = sending[1]
          /\ \A k \in DOMAIN inbound' : IsAsk(k, i)' => k \in DOMAIN inbound /\ IsAsk(k, i)
      BY <2>1, <1>6, <1>7
    <2>3. CASE transport = "open" /\ IsAnswer(1, i)
      <3>1. answers' = [answers EXCEPT ![i] = @ + 1] /\ answers \in [ServerRequests -> Nat]
        BY <1>0, <1>9, <2>2, <2>3 DEF SendDone, IsAnswer, LinkTyped
      <3>2. answers[i] = 0 /\ i \notin answering /\ ~(i > srvAsked)
        BY <1>2, <2>2, <2>3 DEF AskedOnce
      <3>3. answers'[i] = 1
        BY <3>1, <3>2
      <3>4. \A k \in DOMAIN sending' : ~IsAnswer(k, i)'
        BY <1>2, <2>2, <2>3 DEF AskedOnce
      <3>5. \A k \in DOMAIN inbound' : ~IsAsk(k, i)'
        BY <1>2, <2>2, <2>3 DEF AskedOnce
      <3> QED
        BY <2>1, <3>2, <3>3, <3>4, <3>5 DEF AskedOnce
    <2>4. CASE ~(transport = "open" /\ IsAnswer(1, i))
      <3>1. answers'[i] = answers[i]
        <4>1. CASE transport = "open" /\ Head(sending).type = "answer"
          <5> DEFINE x == Head(sending).id
          <5>1. answers' = [answers EXCEPT ![x] = @ + 1] /\ answers \in [ServerRequests -> Nat]
            BY <1>0, <1>9, <4>1 DEF SendDone, LinkTyped
          <5>2. x # i
            BY <2>2, <2>4, <4>1 DEF IsAnswer
          <5> HIDE DEF x
          <5> QED
            BY <5>1, <5>2
        <4>2. CASE ~(transport = "open" /\ Head(sending).type = "answer")
          BY <1>9, <4>2 DEF SendDone
        <4> QED
          BY <4>1, <4>2
      <3> QED
        BY <1>2, <2>1, <2>2, <3>1 DEF AskedOnce
    <2> QED
      BY <2>3, <2>4
  <1>10. ASSUME NEW x \in ServerRequests, Send([type |-> "answer", id |-> x])
         PROVE  /\ \A k \in DOMAIN sending' : \/ k \in DOMAIN sending /\ (IsAnswer(k, i)' <=> IsAnswer(k, i))
                                              \/ k = Len(sending) + 1 /\ (IsAnswer(k, i)' <=> x = i)
                /\ Len(sending) + 1 \notin DOMAIN sending
    <2> DEFINE m == [type |-> "answer", id |-> x]
    <2>0. x \in Nat
      BY Bounds DEF ServerRequests
    <2>1. m \in Messages /\ m.type = "answer" /\ m.id = x
      BY <2>0, MessageFacts
    <2>2. sending \in Seq(Messages) /\ sending' = Append(sending, m)
      BY <1>0, <1>10 DEF LinkTyped, Send
    <2> HIDE DEF m
    <2>3. /\ \A k \in DOMAIN sending' : \/ k \in DOMAIN sending /\ sending'[k] = sending[k]
                                        \/ k = Len(sending) + 1 /\ sending'[k] = m
          /\ \A k \in DOMAIN sending : k < Len(sending) + 1
          /\ Len(sending) \in Nat
      BY <2>1, <2>2, AppendFacts
    <2>4. Len(sending) + 1 \notin DOMAIN sending
      BY <2>3
    <2> QED
      BY <2>1, <2>3, <2>4 DEF IsAnswer
  <1>11. ASSUME NEW x \in ServerRequests, HandlerFinishes(x) PROVE AskedOnce(i)'
    <2>1. /\ x \in answering /\ answering' = answering \ {x} /\ Send([type |-> "answer", id |-> x])
          /\ UNCHANGED <<inbound, srvAsked, answers>>
      BY <1>11 DEF HandlerFinishes, serverVars
    <2>2. /\ \A k \in DOMAIN sending' : \/ k \in DOMAIN sending /\ (IsAnswer(k, i)' <=> IsAnswer(k, i))
                                        \/ k = Len(sending) + 1 /\ (IsAnswer(k, i)' <=> x = i)
          /\ \A k \in DOMAIN inbound' : IsAsk(k, i)' => k \in DOMAIN inbound /\ IsAsk(k, i)
      BY <2>1, <1>7, <1>10
    <2>3. CASE x = i
      BY <1>2, <2>1, <2>2, <2>3 DEF AskedOnce
    <2>4. CASE x # i
      BY <1>2, <2>1, <2>2, <2>4 DEF AskedOnce
    <2> QED
      BY <2>3, <2>4
  <1>12. ASSUME NEW f, HandleServerRequest(f) PROVE AskedOnce(i)'
    <2>1. /\ Received(f) /\ f.type = "ask" /\ UNCHANGED <<srvAsked, answers>>
          /\ \/ answering' = answering \cup {f.id} /\ UNCHANGED sending
             \/ Send([type |-> "answer", id |-> f.id]) /\ UNCHANGED answering
      BY <1>12 DEF HandleServerRequest, Received, serverVars
    <2>2. /\ \A k \in DOMAIN inbound' : IsAsk(k, i)' => k + 1 \in DOMAIN inbound /\ IsAsk(k + 1, i)
          /\ \A j, k \in DOMAIN inbound' : j + 1 = k + 1 => j = k
          /\ \A k \in DOMAIN inbound' : k + 1 # 1
          /\ 1 \in DOMAIN inbound /\ f = inbound[1]
      BY <2>1, <1>4
    <2>3. f.id \in 1..srvAsked /\ srvAsked \in 0..MaxServerRequests
      BY <2>1, <1>0, ReceivedTyped DEF LinkTyped
    <2>4. f.id \in ServerRequests /\ ~(f.id > srvAsked)
      BY <2>3, Bounds DEF ServerRequests
    <2>5. IsAsk(1, i) <=> f.id = i
      BY <2>1, <2>2 DEF IsAsk
    <2>6. CASE answering' = answering \cup {f.id} /\ UNCHANGED sending
      <3>1. \A k \in DOMAIN sending' : k \in DOMAIN sending /\ (IsAnswer(k, i)' <=> IsAnswer(k, i))
        BY <2>6 DEF IsAnswer
      <3>2. CASE f.id = i
        BY <1>2, <2>1, <2>2, <2>4, <2>5, <2>6, <3>1, <3>2 DEF AskedOnce
      <3>3. CASE f.id # i
        BY <1>2, <2>1, <2>2, <2>4, <2>5, <2>6, <3>1, <3>3 DEF AskedOnce
      <3> QED
        BY <3>2, <3>3
    <2>7. CASE Send([type |-> "answer", id |-> f.id]) /\ UNCHANGED answering
      <3>1. \A k \in DOMAIN sending' : \/ k \in DOMAIN sending /\ (IsAnswer(k, i)' <=> IsAnswer(k, i))
                                       \/ k = Len(sending) + 1 /\ (IsAnswer(k, i)' <=> f.id = i)
        BY <2>4, <2>7, <1>10
      <3>2. CASE f.id = i
        BY <1>2, <2>1, <2>2, <2>4, <2>5, <2>7, <3>1, <3>2 DEF AskedOnce
      <3>3. CASE f.id # i
        BY <1>2, <2>1, <2>2, <2>4, <2>5, <2>7, <3>1, <3>3 DEF AskedOnce
      <3> QED
        BY <3>2, <3>3
    <2> QED
      BY <2>1, <2>6, <2>7
  <1>13. CASE ServerAsks
    <2> DEFINE n == srvAsked + 1
               f == [type |-> "ask", id |-> n]
    <2>1. srvAsked' = n /\ Deliver(f) /\ UNCHANGED <<sending, answering, answers>>
      BY <1>13 DEF ServerAsks, ClientUnchanged, callVars
    <2>2. srvAsked \in Nat /\ n \in Nat /\ i \in Nat
      BY <1>0, Bounds DEF LinkTyped, ServerRequests
    <2>3. f \in Frames /\ f.type = "ask" /\ f.id = n
      BY <2>2, MessageFacts
    <2>4. inbound \in Seq(Frames) /\ inbound' = Append(inbound, f)
      BY <1>0, <2>1 DEF LinkTyped, Deliver
    <2>5. /\ i > n => i > srvAsked /\ i # n
          /\ i = n => i > srvAsked /\ ~(i > n)
          /\ n \notin 1..srvAsked
      BY <2>2
    <2> HIDE DEF n, f
    <2>6. \A k \in DOMAIN inbound' : \/ k \in DOMAIN inbound /\ inbound'[k] = inbound[k]
                                     \/ k = Len(inbound) + 1 /\ inbound'[k] = f
      BY <2>3, <2>4, AppendFacts
    <2>7. /\ \A k \in DOMAIN inbound' : \/ k \in DOMAIN inbound /\ (IsAsk(k, i)' <=> IsAsk(k, i))
                                        \/ k = Len(inbound) + 1 /\ (IsAsk(k, i)' <=> i = n)
          /\ \A k \in DOMAIN sending' : k \in DOMAIN sending /\ (IsAnswer(k, i)' <=> IsAnswer(k, i))
      BY <2>1, <2>3, <2>6 DEF IsAsk, IsAnswer
    <2>8. CASE i = n
      <3>1. \A k \in DOMAIN inbound : ~IsAsk(k, i)
        BY <1>0, <2>5, <2>8 DEF LinkTyped, WiresTyped, IsAsk
      <3> QED
        BY <1>2, <2>1, <2>5, <2>7, <2>8, <3>1 DEF AskedOnce
    <2>9. CASE i # n
      BY <1>2, <2>1, <2>5, <2>7, <2>9 DEF AskedOnce
    <2> QED
      BY <2>8, <2>9
  <1> QED
    BY <1>0, <1>3, <1>5, <1>8, <1>9, <1>11, <1>12, <1>13, AskSteps

(* Whatever handlers are set and removed while it is underway, a request of *)
(* the server is answered at most once (client.ts, handleServerRequest).    *)
THEOREM AnsweredAtMostOnce == Spec => []NeverAnsweredTwice
  <1>1. Init => Asked
    <2>1. Init => \A i \in ServerRequests : AskedOnce(i)
      BY DEF Init, AskedOnce
    <2> QED
      BY <2>1, InitTyped DEF Asked
  <1>2. Asked => NeverAnsweredTwice
    BY DEF Asked, AskedOnce, NeverAnsweredTwice
  <1> QED
    BY <1>1, <1>2, StepAsked, PTL DEF Spec

-----------------------------------------------------------------------------
(* Events.                                                                 *)

(* What a step does to events: nothing, take another frame off the wire,    *)
(* deliver an event, or emit one.                                           *)
LEMMA EventSteps ==
    ASSUME Typed, [Next]_vars
    PROVE  \/ /\ UNCHANGED <<got, emitted>>
              /\ \/ UNCHANGED inbound
                 \/ \E f \in Frames : f.type # "event" /\ inbound' = Append(inbound, f)
           \/ \E f : Received(f) /\ f.type # "event" /\ UNCHANGED <<got, emitted>>
           \/ \E f : HandleEvent(f)
           \/ \E u \in srvSubs : ServerEmits(u)
  <1> USE DEF subVars, wireVars, serverVars
  <1>0. CallsTyped /\ LinkTyped
    BY TypedParts
  <1>1. ASSUME NEW reason, TearDown(reason) PROVE UNCHANGED got
    BY <1>1 DEF TearDown
  <1>2. CASE \/ Connect \/ ShutdownClosed \/ ShutdownReturns \/ SetHandler \/ Request \/ SendDone
             \/ RemoteClose \/ UNCHANGED vars
    BY <1>2 DEF Connect, ShutdownClosed, ShutdownReturns, SetHandler, Request, SendDone, RemoteClose, vars
  <1>3. CASE Shutdown \/ SendFails \/ RecvNull \/ RecvFails
    BY <1>1, <1>3 DEF Shutdown, SendFails, RecvNull, RecvFails, LoopEnds
  <1>4. ASSUME NEW h, AttachSubscription(h) \/ Subscribe(h) \/ CloseSubscription(h) \/ Unsubscribe(h) \/ Dispatch(h)
        PROVE  UNCHANGED <<got, emitted, inbound>>
    BY <1>4 DEF AttachSubscription, Subscribe, CloseSubscription, Unsubscribe, Dispatch, Attach
  <1>5. ASSUME NEW i, TimeoutFires(i) \/ HandlerFinishes(i) \/ ServerSubscribes(i)
        PROVE  UNCHANGED <<got, emitted, inbound>>
    BY <1>5 DEF TimeoutFires, Settle, HandlerFinishes, ServerSubscribes, ClientUnchanged
  <1>6. ASSUME NEW i \in Requests, ServerAnswers(i)
        PROVE  /\ UNCHANGED <<got, emitted>>
               /\ \E f \in Frames : f.type # "event" /\ inbound' = Append(inbound, f)
    <2>1. PICK how \in {"result", "error"} : Deliver([type |-> how, id |-> i])
      BY <1>6 DEF ServerAnswers
    <2>2. UNCHANGED <<got, emitted>> /\ i \in Nat
      BY <1>6, Bounds DEF ServerAnswers, ClientUnchanged, Requests
    <2>3. [type |-> how, id |-> i] \in Frames /\ [type |-> how, id |-> i].type # "event"
      BY <2>2, MessageFacts
    <2> QED
      BY <2>1, <2>2, <2>3 DEF Deliver
  <1>7. CASE ServerAsks
    <2>1. UNCHANGED <<got, emitted>> /\ Deliver([type |-> "ask", id |-> srvAsked + 1])
      BY <1>7 DEF ServerAsks, ClientUnchanged
    <2>2. srvAsked + 1 \in Nat
      BY <1>0, Bounds DEF LinkTyped
    <2>3. [type |-> "ask", id |-> srvAsked + 1] \in Frames /\ [type |-> "ask", id |-> srvAsked + 1].type # "event"
      BY <2>2, MessageFacts
    <2> QED
      BY <2>1, <2>3 DEF Deliver
  <1>8. ASSUME NEW f, HandleResponse(f) \/ HandleServerRequest(f)
        PROVE  Received(f) /\ f.type # "event" /\ UNCHANGED <<got, emitted>>
    BY <1>8 DEF HandleResponse, HandleServerRequest, Received, Settle
  <1>9. CASE HandleFrame
    BY <1>8, <1>9 DEF HandleFrame
  <1> QED
    BY <1>2, <1>3, <1>4, <1>5, <1>6, <1>7, <1>9 DEF Next

\* Event n has been delivered to h or is on the wire.
Underway(h, n) ==
    \/ \E j \in DOMAIN got[h] : got[h][j] = n
    \/ \E k \in DOMAIN inbound : inbound[k].type = "event" /\ inbound[k].id = n

(* An event is on the wire or delivered from the moment it is emitted, and  *)
(* an open subscription with a queue loses none.                            *)
LEMMA EventsCarried ==
    ASSUME Typed, [Next]_vars
    PROVE  /\ Len(emitted) \in Nat /\ Len(emitted') \in Nat /\ Len(emitted) <= Len(emitted')
           /\ \A n \in 1..Len(emitted) : emitted'[n] = emitted[n]
           /\ \A h \in Handles, n \in 1..Len(emitted) :
                 /\ handle[h].state = "open" /\ handle[h].uri \in subs /\ emitted[n] = handle[h].uri
                 /\ Underway(h, n)
                 => Underway(h, n)'
           /\ \A h \in Handles, n \in (Len(emitted) + 1)..Len(emitted') : Underway(h, n)'
  <1> DEFINE Carried(h, n) == /\ handle[h].state = "open" /\ handle[h].uri \in subs /\ emitted[n] = handle[h].uri
                           /\ Underway(h, n)
                           => Underway(h, n)'
  <1>0. CallsTyped /\ LinkTyped /\ emitted \in Seq(Uris) /\ Len(emitted) \in Nat /\ inbound \in Seq(Frames)
    BY TypedParts DEF LinkTyped
  <1>1. ASSUME UNCHANGED emitted
        PROVE  /\ Len(emitted') = Len(emitted)
               /\ \A n \in 1..Len(emitted) : emitted'[n] = emitted[n]
               /\ \A n \in (Len(emitted) + 1)..Len(emitted') : FALSE
    BY <1>0, <1>1
  <1>2. ASSUME UNCHANGED <<got, emitted>>,
               UNCHANGED inbound \/ \E f \in Frames : f.type # "event" /\ inbound' = Append(inbound, f)
        PROVE  \A h \in Handles, n \in 1..Len(emitted) : Carried(h, n)
    <2>1. \A k \in DOMAIN inbound : k \in DOMAIN inbound' /\ inbound'[k] = inbound[k]
      BY <1>0, <1>2, AppendFacts
    <2> QED
      BY <1>2, <2>1 DEF Underway
  <1>3. ASSUME NEW f, Received(f)
        PROVE  /\ f = inbound[1] /\ UNCHANGED emitted
               /\ \A k \in DOMAIN inbound : k = 1 \/ (k - 1 \in DOMAIN inbound' /\ inbound'[k - 1] = inbound[k])
    <2>1. inbound # <<>> /\ inbound' = Tail(inbound) /\ f = Head(inbound) /\ UNCHANGED emitted
      BY <1>3 DEF Received, serverVars
    <2> QED
      BY <1>0, <2>1, TailDomain
  <1>4. ASSUME NEW f, Received(f), f.type # "event", UNCHANGED got
        PROVE  \A h \in Handles, n \in 1..Len(emitted) : Carried(h, n)
    BY <1>3, <1>4 DEF Underway
  <1>5. ASSUME NEW f, HandleEvent(f), NEW h \in Handles, NEW n \in 1..Len(emitted),
               handle[h].state = "open", handle[h].uri \in subs, emitted[n] = handle[h].uri, Underway(h, n)
        PROVE  Underway(h, n)'
    <2>1. Received(f) /\ got' = FanOut(emitted[f.id], f.id) /\ f.type = "event"
      BY <1>5 DEF HandleEvent
    <2>2. got[h] \in Seq(1..MaxEvents) /\ f.id \in 1..Len(emitted) /\ f.id \in 1..MaxEvents
      <3>1. f.id \in 1..Len(emitted) /\ Len(emitted) <= MaxEvents
        BY <1>0, <2>1, ReceivedTyped DEF LinkTyped, WiresTyped
      <3> DEFINE x == f.id
                 y == Len(emitted)
      <3>2. x \in 1..MaxEvents
        <4> HIDE DEF x, y
        <4>1. x \in 1..y /\ y <= MaxEvents /\ y \in Nat
          BY <1>0, <3>1 DEF x, y
        <4> QED
          BY <4>1, Bounds
      <3> QED
        BY <1>0, <3>1, <3>2 DEF CallsTyped
    <2>3. got'[h] = IF emitted[f.id] = handle[h].uri THEN Append(got[h], f.id) ELSE got[h]
      <3>1. got'[h] = IF emitted[f.id] \in subs /\ handle[h].uri = emitted[f.id] /\ handle[h].state = "open"
                      THEN Append(got[h], f.id) ELSE got[h]
        BY <2>1 DEF FanOut
      <3> QED
        BY <3>1, <1>5
    <2>4. /\ \A j \in DOMAIN got[h] : j \in DOMAIN Append(got[h], f.id) /\ Append(got[h], f.id)[j] = got[h][j]
          /\ Len(got[h]) + 1 \in DOMAIN Append(got[h], f.id)
          /\ Append(got[h], f.id)[Len(got[h]) + 1] = f.id
      BY <2>2, AppendFacts
    <2>5. \A j \in DOMAIN got[h] : j \in DOMAIN got'[h] /\ got'[h][j] = got[h][j]
      BY <2>3, <2>4
    <2>6. CASE \E j \in DOMAIN got[h] : got[h][j] = n
      BY <2>5, <2>6 DEF Underway
    <2>7. ASSUME NEW k \in DOMAIN inbound, inbound[k].type = "event", inbound[k].id = n PROVE Underway(h, n)'
      <3>1. CASE k = 1
        <4>1. f.id = n
          BY <1>3, <2>1, <2>7, <3>1
        <4>2. \E j \in DOMAIN got'[h] : got'[h][j] = n
          BY <1>5, <2>3, <2>4, <4>1
        <4> QED
          BY <4>2 DEF Underway
      <3>2. CASE k - 1 \in DOMAIN inbound' /\ inbound'[k - 1] = inbound[k]
        BY <2>7, <3>2 DEF Underway
      <3> QED
        BY <3>1, <3>2, <2>1, <1>3
    <2> QED
      BY <1>5, <2>6, <2>7 DEF Underway
  <1>6. ASSUME NEW u \in srvSubs, ServerEmits(u)
        PROVE  /\ Len(emitted') = Len(emitted) + 1
               /\ \A n \in 1..Len(emitted) : emitted'[n] = emitted[n]
               /\ \A h \in Handles, n \in 1..Len(emitted) : Carried(h, n)
               /\ \A h \in Handles, n \in Nat : n = Len(emitted) + 1 => Underway(h, n)'
    <2> DEFINE e == Len(emitted) + 1
               f == [type |-> "event", id |-> e]
    <2>1. emitted' = Append(emitted, u) /\ Deliver(f) /\ UNCHANGED got /\ u \in Uris
      BY <1>0, <1>6 DEF ServerEmits, ClientUnchanged, subVars, LinkTyped
    <2>2. /\ Len(emitted') = Len(emitted) + 1
          /\ \A n \in 1..Len(emitted) : emitted'[n] = emitted[n]
      BY <1>0, <2>1, AppendFacts
    <2>3. f \in Frames /\ f.type = "event" /\ f.id = e
      <3>1. e \in Nat
        BY <1>0
      <3> QED
        BY <3>1, MessageFacts
    <2>4. inbound' = Append(inbound, f)
      BY <2>1 DEF Deliver
    <2> HIDE DEF e, f
    <2>5. /\ \A k \in DOMAIN inbound : k \in DOMAIN inbound' /\ inbound'[k] = inbound[k]
          /\ Len(inbound) + 1 \in DOMAIN inbound' /\ inbound'[Len(inbound) + 1] = f
      BY <1>0, <2>3, <2>4, AppendFacts
    <2>6. \A h \in Handles, n \in 1..Len(emitted) : Carried(h, n)
      BY <2>1, <2>5 DEF Underway
    <2>7. \A h \in Handles, n \in Nat : n = e => Underway(h, n)'
      <3>1. \E k \in DOMAIN inbound' : inbound'[k].type = "event" /\ inbound'[k].id = e
        BY <2>3, <2>5
      <3> QED
        BY <3>1 DEF Underway
    <2> QED
      BY <2>2, <2>6, <2>7 DEF e
  <1>7. CASE UNCHANGED emitted
    <2>1. \A h \in Handles, n \in 1..Len(emitted) : Carried(h, n)
      <3>1. ASSUME NEW u \in srvSubs, ServerEmits(u) PROVE FALSE
        BY <1>0, <1>6, <1>7, <3>1
      <3> QED
        BY <1>2, <1>4, <1>5, <3>1, EventSteps
    <2> QED
      BY <1>0, <1>1, <1>7, <2>1
  <1>8. ASSUME NEW u \in srvSubs, ServerEmits(u)
        PROVE  /\ Len(emitted') \in Nat /\ Len(emitted) <= Len(emitted')
               /\ \A n \in (Len(emitted) + 1)..Len(emitted') : n \in Nat /\ n = Len(emitted) + 1
    BY <1>0, <1>6, <1>8
  <1>9. ASSUME NEW f, HandleEvent(f) PROVE UNCHANGED emitted
    BY <1>3, <1>9 DEF HandleEvent
  <1>10. CASE \E u \in srvSubs : ServerEmits(u)
    BY <1>0, <1>6, <1>8, <1>10
  <1> QED
    BY <1>7, <1>9, <1>10, EventSteps

(* Events are delivered in the order they were emitted.                     *)
LEMMA StepInOrder == ASSUME Typed, EventsInOrder, [Next]_vars PROVE EventsInOrder'
  <1> DEFINE Evt(q, k) == q[k].type = "event"
  <1>0. CallsTyped /\ LinkTyped /\ inbound \in Seq(Frames) /\ Len(emitted) \in Nat
    BY TypedParts DEF LinkTyped
  <1>1. /\ \A h \in Handles : got[h] \in Seq(1..MaxEvents)
        /\ \A h \in Handles : \A j \in DOMAIN got[h] : got[h][j] \in Nat
    BY <1>0, Bounds DEF CallsTyped
  <1>2. \A k \in DOMAIN inbound : Evt(inbound, k) => inbound[k].id \in 1..Len(emitted)
    BY <1>0 DEF LinkTyped, WiresTyped
  <1>3. ASSUME UNCHANGED <<got, emitted>>,
               UNCHANGED inbound \/ \E f \in Frames : f.type # "event" /\ inbound' = Append(inbound, f)
        PROVE  EventsInOrder'
    <2>1. \A k \in DOMAIN inbound' : Evt(inbound', k) => k \in DOMAIN inbound /\ inbound'[k] = inbound[k]
      BY <1>0, <1>3, AppendFacts
    <2> QED
      BY <1>3, <2>1 DEF EventsInOrder
  <1>4. ASSUME NEW f, Received(f)
        PROVE  /\ f = inbound[1] /\ 1 \in DOMAIN inbound /\ UNCHANGED emitted
               /\ \A k \in DOMAIN inbound' : k + 1 \in DOMAIN inbound /\ inbound'[k] = inbound[k + 1] /\ 1 < k + 1
               /\ \A j, k \in DOMAIN inbound' : j < k => j + 1 < k + 1
    <2>1. inbound # <<>> /\ inbound' = Tail(inbound) /\ f = Head(inbound) /\ UNCHANGED emitted
      BY <1>4 DEF Received, serverVars
    <2> QED
      BY <1>0, <2>1, TailDomain
  <1>5. ASSUME NEW f, Received(f), UNCHANGED got PROVE EventsInOrder'
    BY <1>4, <1>5 DEF EventsInOrder
  <1>6. ASSUME NEW f, HandleEvent(f) PROVE EventsInOrder'
    <2>1. Received(f) /\ f.type = "event" /\ got' = FanOut(emitted[f.id], f.id)
      BY <1>6 DEF HandleEvent
    <2>2. /\ f = inbound[1] /\ 1 \in DOMAIN inbound /\ UNCHANGED emitted
          /\ \A k \in DOMAIN inbound' : k + 1 \in DOMAIN inbound /\ inbound'[k] = inbound[k + 1] /\ 1 < k + 1
          /\ \A j, k \in DOMAIN inbound' : j < k => j + 1 < k + 1
      BY <1>4, <2>1
    <2>3. \A j, k \in DOMAIN inbound' : j < k /\ Evt(inbound', j) /\ Evt(inbound', k) => inbound'[j].id < inbound'[k].id
      BY <2>2 DEF EventsInOrder
    <2>4. \A k \in DOMAIN inbound' : Evt(inbound', k) => f.id < inbound'[k].id
      BY <2>1, <2>2 DEF EventsInOrder
    <2>5. f.id \in 1..Len(emitted) /\ f.id \in Nat /\ f.id <= Len(emitted)
      <3>1. f.id \in 1..Len(emitted)
        BY <1>2, <2>1, <2>2
      <3> DEFINE x == f.id
                 y == Len(emitted)
      <3>2. x \in 1..y /\ y \in Nat
        BY <1>0, <3>1
      <3> HIDE DEF x, y
      <3>3. x \in Nat /\ x <= y
        BY <3>2
      <3> QED
        BY <3>1, <3>3 DEF x, y
    <2>6. ASSUME NEW h \in Handles
          PROVE  /\ \A j, k \in DOMAIN got'[h] : j < k => got'[h][j] < got'[h][k]
                 /\ \A j \in DOMAIN got'[h] : got'[h][j] <= Len(emitted)
                 /\ \A j \in DOMAIN got'[h], k \in DOMAIN inbound' : Evt(inbound', k) => got'[h][j] < inbound'[k].id
      <3>1. got'[h] = got[h] \/ got'[h] = Append(got[h], f.id)
        BY <2>1 DEF FanOut
      <3>2. /\ \A j, k \in DOMAIN got[h] : j < k => got[h][j] < got[h][k]
            /\ \A j \in DOMAIN got[h] : got[h][j] <= Len(emitted)
            /\ \A j \in DOMAIN got[h], k \in DOMAIN inbound' : Evt(inbound', k) => got[h][j] < inbound'[k].id
            /\ \A j \in DOMAIN got[h] : got[h][j] < f.id
        BY <2>1, <2>2 DEF EventsInOrder
      <3>3. CASE got'[h] = got[h]
        BY <3>2, <3>3
      <3>4. CASE got'[h] = Append(got[h], f.id)
        <4> DEFINE s == got[h]
                   t == Append(s, f.id)
                   n == Len(s)
        <4>1. s \in Seq(Nat) /\ f.id \in Nat
          BY <1>1, <2>5, ElementOfSeq, IsASeq DEF s
        <4>2. /\ n \in Nat /\ DOMAIN s = 1..n /\ t[n + 1] = f.id
              /\ \A k \in DOMAIN s : t[k] = s[k] /\ k < n + 1
              /\ \A k \in DOMAIN t : k \in DOMAIN s \/ k = n + 1
          BY <4>1, AppendFacts
        <4> HIDE DEF s, t, n
        <4>3. \A k \in DOMAIN s : ~(n + 1 < k)
          BY <4>2
        <4>4. ~(n + 1 < n + 1)
          BY <4>2
        <4>5. \A j, k \in DOMAIN t : j < k => t[j] < t[k]
          BY <4>2, <4>3, <4>4, <3>2 DEF s
        <4>6. /\ \A j \in DOMAIN t : t[j] <= Len(emitted)
              /\ \A j \in DOMAIN t, k \in DOMAIN inbound' : Evt(inbound', k) => t[j] < inbound'[k].id
          BY <4>2, <3>2, <2>4, <2>5 DEF s
        <4> QED
          BY <4>5, <4>6, <3>4 DEF t, s
      <3> QED
        BY <3>1, <3>3, <3>4
    <2> QED
      BY <2>2, <2>3, <2>6 DEF EventsInOrder
  <1>7. ASSUME NEW u \in srvSubs, ServerEmits(u) PROVE EventsInOrder'
    <2> DEFINE e == Len(emitted) + 1
               f == [type |-> "event", id |-> e]
               n == Len(inbound)
    <2>1. emitted' = Append(emitted, u) /\ Deliver(f) /\ UNCHANGED got /\ u \in Uris /\ emitted \in Seq(Uris)
      BY <1>0, <1>7 DEF ServerEmits, ClientUnchanged, subVars, LinkTyped
    <2>2. Len(emitted') = e
      BY <2>1, AppendFacts
    <2>3. f \in Frames /\ f.type = "event" /\ f.id = e
      <3>1. e \in Nat
        BY <1>0
      <3> QED
        BY <3>1, MessageFacts
    <2>4. inbound' = Append(inbound, f)
      BY <2>1 DEF Deliver
    <2>5. /\ \A x \in 1..Len(emitted) : x < e
          /\ \A x \in Nat : x <= Len(emitted) => x < e /\ x <= e
      <3> DEFINE y == Len(emitted)
      <3>1. y \in Nat
        BY <1>0
      <3> HIDE DEF y
      <3>2. (\A x \in 1..y : x < y + 1) /\ (\A x \in Nat : x <= y => x < y + 1 /\ x <= y + 1)
        BY <3>1
      <3> QED
        BY <3>2 DEF y
    <2> HIDE DEF e, f
    <2>6. /\ n \in Nat /\ DOMAIN inbound = 1..n /\ inbound'[n + 1] = f
          /\ \A k \in DOMAIN inbound : inbound'[k] = inbound[k]
          /\ \A k \in DOMAIN inbound' : k \in DOMAIN inbound \/ k = n + 1
      BY <1>0, <2>3, <2>4, AppendFacts
    <2> HIDE DEF n
    <2>7. (\A k \in DOMAIN inbound : ~(n + 1 < k)) /\ ~(n + 1 < n + 1)
      BY <2>6
    <2>8. \A j, k \in DOMAIN inbound' : j < k /\ Evt(inbound', j) /\ Evt(inbound', k) => inbound'[j].id < inbound'[k].id
      BY <1>2, <2>3, <2>5, <2>6, <2>7 DEF EventsInOrder
    <2>9. ASSUME NEW h \in Handles
          PROVE  /\ \A j, k \in DOMAIN got[h] : j < k => got[h][j] < got[h][k]
                 /\ \A j \in DOMAIN got[h] : got[h][j] <= e
                 /\ \A j \in DOMAIN got[h], k \in DOMAIN inbound' : Evt(inbound', k) => got[h][j] < inbound'[k].id
      BY <1>1, <2>3, <2>5, <2>6 DEF EventsInOrder
    <2> QED
      BY <2>1, <2>2, <2>8, <2>9 DEF EventsInOrder
  <1> QED
    BY <1>3, <1>5, <1>6, <1>7, EventSteps

-----------------------------------------------------------------------------
(* Subscriptions.                                                          *)

\* Subscriptions are closed and no queue is taken from an open one.
HandlesShrink ==
    \A h \in Handles :
       /\ handle'[h].uri = handle[h].uri
       /\ handle'[h].state = "open" => handle[h].state = "open" /\ (handle[h].uri \in subs => handle[h].uri \in subs')
       /\ handle'[h].state = "none" => handle[h].state = "none"

\* A message that is no request and no unsubscribe() of an open subscription.
SendsOther ==
    \E m \in Messages :
       /\ Send(m) /\ m.type # "request"
       /\ \A h \in Handles : handle'[h].state = "open" => m # [type |-> "unsubscribe", uri |-> handle[h].uri]

\* The server's side of subscriptions, and the wire to it.
ServerSideSame == UNCHANGED <<subscribing, since, srvSubs>> /\ srvOpen' \subseteq srvOpen

WireShrinks == UNCHANGED sending \/ (sending # <<>> /\ sending' = Tail(sending))

(* What a step does to subscriptions, on both sides of the wire.            *)
LEMMA SubscriptionSteps ==
    ASSUME Typed, [Next]_vars
    PROVE  \/ HandlesShrink /\ ServerSideSame /\ (WireShrinks \/ SendsOther)
           \/ \E h \in Handles : Attach(h) /\ UNCHANGED <<subscribing, since, srvOpen, srvSubs, sending>>
           \/ \E h : /\ StartRequest(h) /\ UNCHANGED <<since, srvOpen, srvSubs>>
                     /\ (h = NoHandle /\ UNCHANGED <<subs, handle>>) \/ (h \in Handles /\ Attach(h))
           \/ SendDone
           \/ \E i \in Requests : ServerSubscribes(i)
  <1>0. CallsTyped /\ LinkTyped /\ handle \in [Handles -> HandleStates]
    BY TypedParts DEF CallsTyped
  <1>1. ASSUME UNCHANGED <<handle, subs>> PROVE HandlesShrink
    BY <1>1 DEF HandlesShrink
  <1>2. ASSUME NEW reason \in {"clientClosed", "transport"}, TearDown(reason)
        PROVE  HandlesShrink /\ UNCHANGED subscribing
    <2>1. /\ subs' = IF status = "closed" THEN subs ELSE {}
          /\ subscribing' = subscribing
          /\ \A h \in Handles : /\ handle'[h].uri = handle[h].uri
                                /\ handle'[h].state = "open" => status = "closed" /\ handle[h].state = "open"
                                /\ handle'[h].state = "none" <=> handle[h].state = "none"
      BY <1>0, <1>2, TearDownFacts
    <2> QED
      BY <2>1 DEF HandlesShrink
  <1>3. ASSUME NEW i \in Requests, NEW how \in {"result", "error", "timeout"}, IsPending(i), Settle(i, how),
               status' = status
        PROVE  HandlesShrink /\ UNCHANGED subscribing
    <2>1. /\ subs' = subs /\ subscribing' = subscribing
          /\ \A h \in Handles : /\ handle'[h].uri = handle[h].uri
                                /\ handle'[h].state = "open" => handle[h].state = "open"
                                /\ handle'[h].state = "none" <=> handle[h].state = "none"
      BY <1>0, <1>3, SettleFacts
    <2> QED
      BY <2>1 DEF HandlesShrink
  <1>4. ASSUME NEW m \in Messages, Send(m), m.type \in {"answer", "dispatch"} PROVE SendsOther
    <2>1. \A u : [type |-> "unsubscribe", uri |-> u].type = "unsubscribe"
      OBVIOUS
    <2> QED
      BY <1>4, <2>1 DEF SendsOther
  <1>5. CASE \/ Connect \/ ShutdownClosed \/ ShutdownReturns \/ SetHandler \/ RemoteClose \/ ServerAsks \/ UNCHANGED vars
    <2>1. UNCHANGED <<handle, subs, subscribing, since, srvSubs, srvOpen, sending>>
      BY <1>5 DEF Connect, ShutdownClosed, ShutdownReturns, SetHandler, RemoteClose, ServerAsks, ClientUnchanged, vars,
                  reqVars, subVars, wireVars, serverVars
    <2> QED
      BY <1>1, <2>1 DEF ServerSideSame, WireShrinks
  <1>6. CASE Shutdown
    <2>1. TearDown("clientClosed") /\ UNCHANGED <<since, srvSubs, srvOpen, sending>>
      BY <1>6 DEF Shutdown, wireVars, serverVars
    <2> QED
      BY <1>2, <2>1 DEF ServerSideSame, WireShrinks
  <1>7. CASE SendFails
    <2>1. TearDown("transport") /\ UNCHANGED <<since, srvSubs, srvOpen>> /\ sending # <<>> /\ sending' = Tail(sending)
      BY <1>7 DEF SendFails, serverVars
    <2> QED
      BY <1>2, <2>1 DEF ServerSideSame, WireShrinks
  <1>8. CASE RecvNull \/ RecvFails
    <2>1. TearDown("transport") /\ UNCHANGED <<since, srvSubs, srvOpen, sending>>
      BY <1>8 DEF RecvNull, RecvFails, LoopEnds, wireVars, serverVars
    <2> QED
      BY <1>2, <2>1 DEF ServerSideSame, WireShrinks
  <1>9. CASE Request
    BY <1>9 DEF Request, subVars, serverVars
  <1>10. ASSUME NEW h \in Handles, AttachSubscription(h)
         PROVE  Attach(h) /\ UNCHANGED <<subscribing, since, srvOpen, srvSubs, sending>>
    BY <1>10 DEF AttachSubscription, reqVars, wireVars, serverVars
  <1>11. ASSUME NEW h \in Handles, Subscribe(h) PROVE StartRequest(h) /\ UNCHANGED <<since, srvOpen, srvSubs>> /\ Attach(h)
    BY <1>11 DEF Subscribe, serverVars
  <1>12. ASSUME NEW h \in Handles, CloseSubscription(h) PROVE HandlesShrink /\ ServerSideSame /\ WireShrinks
    <2>1. handle' = Released(handle, {h}) /\ UNCHANGED <<subs, subscribing, since, srvSubs, srvOpen, sending>>
      BY <1>12 DEF CloseSubscription, reqVars, wireVars, serverVars
    <2>2. \A g \in Handles : /\ handle'[g].uri = handle[g].uri
                             /\ handle'[g].state = "open" => handle[g].state = "open"
                             /\ handle'[g].state = "none" => handle[g].state = "none"
      BY <1>0, <2>1, HandleChanges
    <2> QED
      BY <2>1, <2>2 DEF HandlesShrink, ServerSideSame, WireShrinks
  <1>13. ASSUME NEW u \in Uris, Unsubscribe(u) PROVE HandlesShrink /\ ServerSideSame /\ SendsOther
    <2>1. /\ handle' = Ended({u}) /\ subs' = subs \ {u} /\ Send([type |-> "unsubscribe", uri |-> u])
          /\ UNCHANGED <<subscribing, since, srvSubs, srvOpen>>
      BY <1>13 DEF Unsubscribe, reqVars, serverVars
    <2>2. \A g \in Handles : /\ handle'[g].uri = handle[g].uri
                             /\ handle'[g].state = "open" => handle[g].state = "open" /\ handle[g].uri # u
                             /\ handle'[g].state = "none" => handle[g].state = "none"
      BY <1>0, <2>1, HandleChanges
    <2>3. /\ [type |-> "unsubscribe", uri |-> u] \in Messages
          /\ [type |-> "unsubscribe", uri |-> u].type # "request"
          /\ \A v : v # u => [type |-> "unsubscribe", uri |-> u] # [type |-> "unsubscribe", uri |-> v]
      BY MessageFacts
    <2>4. SendsOther
      BY <2>1, <2>2, <2>3 DEF SendsOther
    <2> QED
      BY <2>1, <2>2, <2>4 DEF HandlesShrink, ServerSideSame
  <1>14. ASSUME NEW seq, Dispatch(seq) PROVE HandlesShrink /\ ServerSideSame /\ SendsOther
    <2>1. Send([type |-> "dispatch"]) /\ UNCHANGED <<handle, subs, subscribing, since, srvSubs, srvOpen>>
      BY <1>14 DEF Dispatch, reqVars, subVars, serverVars
    <2> QED
      BY <2>1, <1>1, <1>4, MessageFacts DEF ServerSideSame
  <1>15. ASSUME NEW i \in Requests, TimeoutFires(i) PROVE HandlesShrink /\ ServerSideSame /\ WireShrinks
    <2>1. IsPending(i) /\ Settle(i, "timeout") /\ UNCHANGED <<status, since, srvSubs, srvOpen, sending>>
      BY <1>15 DEF TimeoutFires, wireVars, serverVars
    <2> QED
      BY <1>3, <2>1 DEF ServerSideSame, WireShrinks
  <1>16. ASSUME NEW f, HandleResponse(f) PROVE HandlesShrink /\ ServerSideSame /\ WireShrinks
    <2>1. Received(f) /\ f.type \in {"result", "error"} /\ UNCHANGED <<since, srvSubs, srvOpen, sending>>
      BY <1>16 DEF HandleResponse, Received, serverVars
    <2>2. f.id \in Requests /\ status' = status
      BY <2>1, <1>0, ReceivedTyped
    <2>3. HandlesShrink /\ UNCHANGED subscribing
      <3>1. CASE IsPending(f.id)
        BY <1>3, <1>16, <2>1, <2>2, <3>1 DEF HandleResponse
      <3>2. CASE ~IsPending(f.id)
        BY <1>1, <1>16, <3>2 DEF HandleResponse, reqVars, subVars
      <3> QED
        BY <3>1, <3>2
    <2> QED
      BY <2>1, <2>3 DEF ServerSideSame, WireShrinks
  <1>17. ASSUME NEW f, HandleEvent(f) PROVE HandlesShrink /\ ServerSideSame /\ WireShrinks
    <2>1. UNCHANGED <<handle, subs, subscribing, since, srvSubs, srvOpen, sending>>
      BY <1>17 DEF HandleEvent, Received, reqVars, serverVars
    <2> QED
      BY <1>1, <2>1 DEF ServerSideSame, WireShrinks
  <1>18. ASSUME NEW f, HandleServerRequest(f) PROVE HandlesShrink /\ ServerSideSame /\ (WireShrinks \/ SendsOther)
    <2>1. /\ UNCHANGED <<handle, subs, subscribing, since, srvSubs, srvOpen>> /\ Received(f) /\ f.type = "ask"
          /\ UNCHANGED sending \/ Send([type |-> "answer", id |-> f.id])
      BY <1>18 DEF HandleServerRequest, Received, reqVars, subVars, serverVars
    <2>2. f.id \in Nat
      BY <2>1, <1>0, ReceivedTyped DEF Frames
    <2>3. [type |-> "answer", id |-> f.id] \in Messages /\ [type |-> "answer", id |-> f.id].type = "answer"
      BY <2>2, MessageFacts
    <2>4. WireShrinks \/ SendsOther
      BY <2>1, <2>3, <1>4 DEF WireShrinks
    <2> QED
      BY <1>1, <2>1, <2>4 DEF ServerSideSame
  <1>19. ASSUME NEW i \in ServerRequests, HandlerFinishes(i) PROVE HandlesShrink /\ ServerSideSame /\ SendsOther
    <2>1. /\ Send([type |-> "answer", id |-> i]) /\ i \in Nat
          /\ UNCHANGED <<handle, subs, subscribing, since, srvSubs, srvOpen>>
      BY <1>19, Bounds DEF HandlerFinishes, reqVars, subVars, serverVars, ServerRequests
    <2>2. [type |-> "answer", id |-> i] \in Messages /\ [type |-> "answer", id |-> i].type = "answer"
      BY <2>1, MessageFacts
    <2> QED
      BY <1>1, <1>4, <2>1, <2>2 DEF ServerSideSame
  <1>20. ASSUME NEW i, ServerAnswers(i) \/ ServerEmits(i) PROVE HandlesShrink /\ ServerSideSame /\ WireShrinks
    <2>1. UNCHANGED <<handle, subs, subscribing, since, srvSubs, sending>> /\ srvOpen' \subseteq srvOpen
      BY <1>20 DEF ServerAnswers, ServerEmits, ClientUnchanged, reqVars, subVars
    <2> QED
      BY <1>1, <2>1 DEF ServerSideSame, WireShrinks
  <1>21. CASE HandleFrame
    BY <1>16, <1>17, <1>18, <1>21 DEF HandleFrame
  <1> QED
    BY <1>5, <1>6, <1>7, <1>8, <1>9, <1>10, <1>11, <1>12, <1>13, <1>14, <1>15, <1>19, <1>20, <1>21 DEF Next

(* A subscription that stays open, and that the server keeps, misses nothing. *)
LEMMA CompleteKept ==
    ASSUME Typed, [Next]_vars, NEW h \in Handles, HandleKnown(h), Complete(h),
           handle'[h].uri = handle[h].uri, handle'[h].state = "open" => handle[h].state = "open",
           since'[h] = since[h],
           handle'[h].state = "open" /\ since[h] >= 0 /\ handle[h].uri \in srvSubs => handle[h].uri \in srvSubs'
    PROVE  Complete(h)'
  <1> SUFFICES ASSUME handle'[h].state = "open", since'[h] >= 0
               PROVE  /\ handle'[h].uri \in srvSubs'
                      /\ \A n \in (since'[h] + 1)..Len(emitted') : emitted'[n] = handle'[h].uri => Underway(h, n)'
    BY DEF Complete, Underway
  <1>1. handle[h].state = "open" /\ since[h] >= 0 /\ since[h] \in Int /\ handle[h].uri \in subs
    BY TypedParts, Bounds DEF HandleKnown, LinkTyped
  <1>2. /\ handle[h].uri \in srvSubs
        /\ \A n \in (since[h] + 1)..Len(emitted) : emitted[n] = handle[h].uri => Underway(h, n)
    BY <1>1 DEF Complete, Underway
  <1> DEFINE old == Len(emitted)
             new == Len(emitted')
             low == since[h]
  <1>3. old \in Nat /\ new \in Nat /\ old <= new
    BY EventsCarried
  <1>4. low \in Int /\ low >= 0 /\ since'[h] = low
    BY <1>1
  <1> HIDE DEF old, new, low
  <1>5. \A n \in (low + 1)..new : \/ n \in (low + 1)..old /\ n \in 1..old
                                  \/ n \in (old + 1)..new
    BY <1>3, <1>4
  <1>6. ASSUME NEW n \in (low + 1)..new, emitted'[n] = handle[h].uri PROVE Underway(h, n)'
    <2>1. CASE n \in (low + 1)..old /\ n \in 1..old
      <3>1. emitted'[n] = emitted[n]
        BY <2>1, EventsCarried DEF old
      <3>2. Underway(h, n)
        BY <1>2, <1>6, <2>1, <3>1 DEF low, old
      <3> QED
        BY <1>1, <1>6, <2>1, <3>1, <3>2, EventsCarried DEF old
    <2>2. CASE n \in (old + 1)..new
      BY <2>2, EventsCarried DEF old, new
    <2> QED
      BY <1>5, <2>1, <2>2
  <1> QED
    BY <1>1, <1>2, <1>4, <1>6 DEF low, new

(* The order of unsubscribe() and subscribe() on the wire, when the wire    *)
(* takes messages off and puts on others.                                   *)
LEMMA NotUndoneKept ==
    ASSUME Typed, NEW h \in Handles, NotUndone(h), WireShrinks \/ SendsOther, ServerSideSame,
           handle'[h].uri = handle[h].uri, handle'[h].state = "open" => handle[h].state = "open"
    PROVE  NotUndone(h)'
  <1> DEFINE u == handle[h].uri
             m0 == [type |-> "unsubscribe", uri |-> u]
             Was == since[h] >= 0 \/ \E i \in srvOpen : subscribing[i] = h
  <1>0. sending \in Seq(Messages)
    BY TypedParts DEF LinkTyped
  <1>1. SUFFICES ASSUME handle'[h].state = "open"
                 PROVE  /\ Was => \A k \in DOMAIN sending' : sending'[k] # m0
                        /\ \A j, k \in DOMAIN sending' :
                              j < k /\ sending'[j].type = "request" /\ subscribing[sending'[j].id] = h => sending'[k] # m0
    BY DEF NotUndone, ServerSideSame, Unsubscribes
  <1>2. /\ Was => \A k \in DOMAIN sending : sending[k] # m0
        /\ \A j, k \in DOMAIN sending :
              j < k /\ sending[j].type = "request" /\ subscribing[sending[j].id] = h => sending[k] # m0
    BY <1>1 DEF NotUndone, Unsubscribes
  <1> HIDE DEF m0, Was
  <1>3. CASE UNCHANGED sending
    BY <1>2, <1>3
  <1>4. CASE sending # <<>> /\ sending' = Tail(sending)
    <2>1. /\ \A k \in DOMAIN sending' : k + 1 \in DOMAIN sending /\ sending'[k] = sending[k + 1]
          /\ \A j, k \in DOMAIN sending' : j < k => j + 1 < k + 1
      BY <1>0, <1>4, TailDomain
    <2> QED
      BY ONLY <1>2, <2>1
  <1>5. ASSUME NEW m \in Messages, Send(m), m.type # "request", m # m0
        PROVE  /\ Was => \A k \in DOMAIN sending' : sending'[k] # m0
               /\ \A j, k \in DOMAIN sending' :
                     j < k /\ sending'[j].type = "request" /\ subscribing[sending'[j].id] = h => sending'[k] # m0
    <2>1. \A k \in DOMAIN sending' : (k \in DOMAIN sending /\ sending'[k] = sending[k]) \/ sending'[k] = m
      BY <1>0, <1>5, AppendFacts DEF Send
    <2> QED
      BY ONLY <1>2, <1>5, <2>1
  <1> QED
    BY <1>1, <1>3, <1>4, <1>5 DEF WireShrinks, SendsOther, m0

LEMMA StepDelivered == Delivered /\ [Next]_vars => Delivered'
  <1> SUFFICES ASSUME Delivered, [Next]_vars PROVE Delivered'
    OBVIOUS
  <1>0. /\ Settled /\ Typed /\ CallsTyped /\ LinkTyped /\ WiresTyped /\ EventsInOrder /\ RequestsMade
        /\ \A h \in Handles : HandleKnown(h) /\ NotUndone(h) /\ Complete(h)
    BY TypedParts DEF Delivered, Settled, LinkTyped
  <1>1. Settled' /\ EventsInOrder' /\ \A i \in Requests : outcome'[i] = "unused" => outcome[i] = "unused"
    BY <1>0, StepSettled, StepInOrder
  <1> DEFINE Good(h) == HandleKnown(h)' /\ NotUndone(h)' /\ Complete(h)'
             Goal == RequestsMade' /\ \A h \in Handles : Good(h)
  <1>2. /\ sending \in Seq(Messages) /\ srvOpen \subseteq Requests /\ subscribing \in [Requests -> Handles \cup {NoHandle}]
        /\ handle \in [Handles -> HandleStates]
        /\ \A k \in DOMAIN sending : sending[k].type = "request" => sending[k].id \in Requests
    BY <1>0 DEF CallsTyped, LinkTyped, WiresTyped
  <1>3. ASSUME HandlesShrink, ServerSideSame, WireShrinks \/ SendsOther PROVE Goal
    <2>1. \A k \in DOMAIN sending' : \/ k \in DOMAIN sending /\ sending'[k] = sending[k]
                                     \/ k + 1 \in DOMAIN sending /\ sending'[k] = sending[k + 1]
                                     \/ sending'[k].type # "request"
      BY <1>2, <1>3, TailDomain, AppendFacts DEF WireShrinks, SendsOther, Send
    <2>2. RequestsMade'
      BY <1>0, <1>1, <1>2, <1>3, <2>1 DEF RequestsMade, ServerSideSame
    <2>3. ASSUME NEW h \in Handles PROVE Good(h)
      <3>1. HandleKnown(h)'
        BY <1>0, <1>3 DEF HandleKnown, HandlesShrink, ServerSideSame
      <3>2. handle'[h].uri = handle[h].uri /\ (handle'[h].state = "open" => handle[h].state = "open")
        BY <1>3 DEF HandlesShrink
      <3>3. NotUndone(h)'
        BY <1>0, <1>3, <3>2, NotUndoneKept
      <3>4. Complete(h)'
        BY <1>0, <1>3, <3>2, CompleteKept DEF ServerSideSame
      <3> QED
        BY <3>1, <3>3, <3>4
    <2> QED
      BY <2>2, <2>3
  <1>4. ASSUME NEW h \in Handles, Attach(h)
        PROVE  /\ handle[h].state = "none" /\ handle'[h].state = "open" /\ handle'[h].uri = handle[h].uri
               /\ handle'[h].uri \in subs' /\ subs \subseteq subs'
               /\ \A g \in Handles \ {h} : handle'[g] = handle[g]
               /\ since[h] = -1 /\ \A i \in Requests : subscribing[i] # h
    <2>1. /\ handle' = [handle EXCEPT ![h] = [handle[h] EXCEPT !.state = "open"]]
          /\ handle[h].state = "none" /\ subs' = subs \cup {handle[h].uri}
      BY <1>4 DEF Attach
    <2>2. handle[h] \in HandleStates
      BY <1>2
    <2>3. handle'[h] = [handle[h] EXCEPT !.state = "open"] /\ \A g \in Handles \ {h} : handle'[g] = handle[g]
      BY <1>2, <2>1
    <2>4. handle'[h].state = "open" /\ handle'[h].uri = handle[h].uri
      BY <2>2, <2>3 DEF HandleStates
    <2> QED
      BY <1>0, <2>1, <2>3, <2>4 DEF HandleKnown
  <1>5. ASSUME NEW h \in Handles, Attach(h), UNCHANGED <<subscribing, since, srvOpen, srvSubs, sending>> PROVE Goal
    <2>1. RequestsMade'
      BY <1>0, <1>1, <1>2, <1>5 DEF RequestsMade
    <2>2. ASSUME NEW g \in Handles \ {h} PROVE Good(g)
      <3>1. handle'[g] = handle[g] /\ subs \subseteq subs'
        BY <1>4, <1>5
      <3>2. HandleKnown(g)'
        BY <1>0, <1>5, <3>1 DEF HandleKnown
      <3>3. NotUndone(g)'
        BY <1>0, <1>5, <3>1, NotUndoneKept DEF ServerSideSame, WireShrinks
      <3>4. Complete(g)'
        BY <1>0, <1>5, <3>1, CompleteKept
      <3> QED
        BY <3>2, <3>3, <3>4
    <2>3. Good(h)
      <3>1. HandleKnown(h)'
        BY <1>4, <1>5 DEF HandleKnown
      <3>2. since'[h] = -1 /\ ~(since'[h] >= 0) /\ \A i \in Requests : subscribing'[i] # h
        BY <1>4, <1>5
      <3>3. NotUndone(h)' /\ Complete(h)'
        BY <1>2, <1>5, <3>2 DEF NotUndone, Complete
      <3> QED
        BY <3>1, <3>3
    <2> QED
      BY <2>1, <2>2, <2>3
  <1>6. ASSUME NEW h, StartRequest(h), UNCHANGED <<since, srvOpen, srvSubs>>,
               (h = NoHandle /\ UNCHANGED <<subs, handle>>) \/ (h \in Handles /\ Attach(h))
        PROVE  Goal
    <2> DEFINE n == nextRequestId
               m == [type |-> "request", id |-> n]
               last == Len(sending) + 1
    <2>1. n \in Requests /\ n \in Nat
      BY <1>0, <1>6, Bounds DEF StartRequest, CallsTyped, Requests
    <2>2. /\ outcome'[n] = "pending" /\ outcome[n] = "unused"
          /\ subscribing'[n] = h /\ \A i \in Requests \ {n} : subscribing'[i] = subscribing[i]
      BY <1>0, <1>2, <1>6, <2>1 DEF StartRequest, CallsTyped, Settled, IdsFresh
    <2>3. m \in Messages /\ m.type = "request" /\ m.id = n /\ sending' = Append(sending, m)
      BY <1>6, <2>1, MessageFacts DEF StartRequest, Send
    <2> HIDE DEF m
    <2>4. /\ \A k \in DOMAIN sending' : \/ k \in DOMAIN sending /\ sending'[k] = sending[k]
                                        \/ k = last /\ sending'[k] = m
          /\ \A k \in DOMAIN sending : ~(last < k)
          /\ ~(last < last)
      <3>1. /\ \A k \in DOMAIN sending' : \/ k \in DOMAIN sending
                                          \/ k = last /\ sending'[k] = m
            /\ \A k \in DOMAIN sending : k < Len(sending) + 1 /\ sending'[k] = sending[k]
            /\ DOMAIN sending = 1..Len(sending) /\ Len(sending) \in Nat
        BY <1>2, <2>3, AppendFacts
      <3> QED
        BY <3>1
    <2> HIDE DEF last, n
    <2>5. RequestsMade'
      BY <1>0, <1>1, <1>2, <1>6, <2>1, <2>2, <2>3, <2>4 DEF RequestsMade
    <2>6. /\ n \notin srvOpen
          /\ \A k \in DOMAIN sending : sending[k].type = "request" => sending[k].id \in Requests \ {n}
      BY <1>0, <1>2, <2>2 DEF RequestsMade
    <2>7. ASSUME NEW g \in Handles, g # h PROVE Good(g)
      <3>1. handle'[g] = handle[g] /\ subs \subseteq subs'
        BY <1>4, <1>6, <2>7
      <3>2. \A i \in Requests : subscribing'[i] = g <=> subscribing[i] = g /\ i # n
        BY <2>1, <2>2, <2>7
      <3>3. HandleKnown(g)'
        BY <1>0, <1>6, <3>1, <3>2 DEF HandleKnown
      <3>4. NotUndone(g)'
        <4> DEFINE m0 == [type |-> "unsubscribe", uri |-> handle[g].uri]
        <4>1. m0.type = "unsubscribe"
          OBVIOUS
        <4> HIDE DEF m0
        <4>2. m # m0
          BY <2>3, <4>1
        <4>3. SUFFICES ASSUME handle[g].state = "open"
                       PROVE  /\ (since[g] >= 0 \/ \E i \in srvOpen : subscribing'[i] = g) =>
                                    \A k \in DOMAIN sending' : sending'[k] # m0
                              /\ \A j, k \in DOMAIN sending' :
                                    /\ j < k /\ sending'[j].type = "request" /\ subscribing'[sending'[j].id] = g
                                    => sending'[k] # m0
          BY <1>6, <3>1 DEF NotUndone, Unsubscribes, m0
        <4>4. /\ (since[g] >= 0 \/ \E i \in srvOpen : subscribing[i] = g) => \A k \in DOMAIN sending : sending[k] # m0
              /\ \A j, k \in DOMAIN sending :
                    j < k /\ sending[j].type = "request" /\ subscribing[sending[j].id] = g => sending[k] # m0
          BY <1>0, <4>3 DEF NotUndone, Unsubscribes, m0
        <4>5. (since[g] >= 0 \/ \E i \in srvOpen : subscribing'[i] = g) => \A k \in DOMAIN sending' : sending'[k] # m0
          BY <1>2, <2>4, <3>2, <4>2, <4>4
        <4>6. ASSUME NEW j \in DOMAIN sending', NEW k \in DOMAIN sending', j < k, sending'[j].type = "request",
                     subscribing'[sending'[j].id] = g
              PROVE  sending'[k] # m0
          <5>1. CASE k = last /\ sending'[k] = m
            BY <4>2, <5>1
          <5>2. CASE k \in DOMAIN sending /\ sending'[k] = sending[k]
            <6>1. j \in DOMAIN sending /\ sending'[j] = sending[j]
              BY <2>4, <4>6, <5>2
            <6>2. subscribing[sending[j].id] = g
              BY <2>6, <3>2, <4>6, <6>1
            <6> QED
              BY <4>4, <4>6, <5>2, <6>1, <6>2
          <5> QED
            BY <2>4, <5>1, <5>2
        <4> QED
          BY <4>5, <4>6
      <3>5. Complete(g)'
        BY <1>0, <1>6, <3>1, CompleteKept
      <3> QED
        BY <3>3, <3>4, <3>5
    <2>8. ASSUME h \in Handles, Attach(h) PROVE Good(h)
      <3>1. /\ handle'[h].state = "open" /\ handle'[h].uri \in subs' /\ since[h] = -1
            /\ \A i \in Requests : subscribing[i] # h
        BY <1>4, <2>8
      <3>2. HandleKnown(h)'
        BY <3>1 DEF HandleKnown
      <3>3. since'[h] = -1 /\ ~(since'[h] >= 0) /\ \A i \in srvOpen' : subscribing'[i] # h
        BY <1>2, <1>6, <2>2, <2>6, <3>1
      <3>4. Complete(h)'
        BY <3>3 DEF Complete
      <3>5. ASSUME NEW j \in DOMAIN sending', NEW k \in DOMAIN sending', j < k, sending'[j].type = "request",
                   subscribing'[sending'[j].id] = h
            PROVE  FALSE
        <4>1. CASE j = last
          BY <2>4, <3>5, <4>1
        <4>2. CASE j \in DOMAIN sending /\ sending'[j] = sending[j]
          BY <2>2, <2>6, <3>1, <3>5, <4>2
        <4> QED
          BY <2>4, <4>1, <4>2
      <3>6. NotUndone(h)'
        BY <3>3, <3>5 DEF NotUndone
      <3> QED
        BY <3>2, <3>4, <3>6
    <2>9. h \notin Handles => \A g \in Handles : g # h
      OBVIOUS
    <2> QED
      BY <1>6, <2>5, <2>7, <2>8, <2>9, HandleAssumption
  <1>7. ASSUME SendDone PROVE Goal
    <2> DEFINE m == Head(sending)
    <2>1. /\ sending # <<>> /\ sending' = Tail(sending) /\ UNCHANGED <<handle, subs, subscribing, since>>
          /\ srvOpen' = IF transport = "open" /\ m.type = "request" THEN srvOpen \cup {m.id} ELSE srvOpen
          /\ srvSubs' = IF transport = "open" /\ m.type = "unsubscribe" THEN srvSubs \ {m.uri} ELSE srvSubs
      BY <1>7 DEF SendDone, reqVars, subVars
    <2>2. /\ 1 \in DOMAIN sending /\ m = sending[1] /\ m \in Messages
          /\ \A k \in DOMAIN sending' : k + 1 \in DOMAIN sending /\ sending'[k] = sending[k + 1] /\ 1 < k + 1
          /\ \A j, k \in DOMAIN sending' : j < k => j + 1 < k + 1
      BY <1>2, <2>1, TailDomain
    <2> HIDE DEF m
    <2>3. RequestsMade'
      BY <1>0, <1>1, <1>2, <2>1, <2>2 DEF RequestsMade
    <2>4. ASSUME NEW h \in Handles PROVE Good(h)
      <3> DEFINE m0 == [type |-> "unsubscribe", uri |-> handle[h].uri]
      <3>1. HandleKnown(h)'
        BY <1>0, <2>1 DEF HandleKnown
      <3>2. m.type = "unsubscribe" => m = [type |-> "unsubscribe", uri |-> m.uri]
        BY <2>2, MessageFacts
      <3>3. ASSUME handle[h].state = "open"
            PROVE  /\ (since[h] >= 0 \/ \E i \in srvOpen : subscribing[i] = h) => \A k \in DOMAIN sending : sending[k] # m0
                   /\ \A j, k \in DOMAIN sending :
                         j < k /\ sending[j].type = "request" /\ subscribing[sending[j].id] = h => sending[k] # m0
        BY <1>0, <3>3 DEF NotUndone, Unsubscribes
      <3>4. Complete(h)'
        <4>1. handle[h].state = "open" /\ since[h] >= 0 /\ handle[h].uri \in srvSubs => handle[h].uri \in srvSubs'
          BY <2>1, <2>2, <3>2, <3>3
        <4> QED
          BY <1>0, <2>1, <4>1, CompleteKept
      <3>5. NotUndone(h)'
        <4> HIDE DEF m0
        <4>1. SUFFICES ASSUME handle[h].state = "open"
                       PROVE  /\ (since[h] >= 0 \/ \E i \in srvOpen' : subscribing[i] = h) =>
                                    \A k \in DOMAIN sending' : sending'[k] # m0
                              /\ \A j, k \in DOMAIN sending' :
                                    /\ j < k /\ sending'[j].type = "request" /\ subscribing[sending'[j].id] = h
                                    => sending'[k] # m0
          BY <2>1 DEF NotUndone, Unsubscribes, m0
        <4>2. \A j, k \in DOMAIN sending' : j < k /\ sending'[j].type = "request" /\ subscribing[sending'[j].id] = h
                 => sending'[k] # m0
          BY ONLY <2>2, <3>3, <4>1
        <4>3. CASE since[h] >= 0 \/ \E i \in srvOpen : subscribing[i] = h
          BY ONLY <2>2, <3>3, <4>1, <4>2, <4>3
        <4>4. CASE m.type = "request" /\ subscribing[m.id] = h
          BY ONLY <2>2, <3>3, <4>1, <4>2, <4>4
        <4> QED
          BY <2>1, <4>2, <4>3, <4>4
      <3> QED
        BY <3>1, <3>4, <3>5
    <2> QED
      BY <2>3, <2>4
  <1>8. ASSUME NEW i \in Requests, ServerSubscribes(i) PROVE Goal
    <2> DEFINE s == subscribing[i]
    <2>1. /\ i \in srvOpen /\ s # NoHandle /\ srvSubs' = srvSubs \cup {handle[s].uri}
          /\ since' = [since EXCEPT ![s] = Len(emitted)]
          /\ UNCHANGED <<handle, subs, subscribing, sending, srvOpen, outcome, emitted>>
      BY <1>8 DEF ServerSubscribes, ClientUnchanged, reqVars, subVars
    <2>2. s \in Handles
      BY <1>2, <2>1
    <2>3. since'[s] = Len(emitted) /\ \A h \in Handles \ {s} : since'[h] = since[h]
      BY <1>0, <2>1, <2>2 DEF LinkTyped
    <2>4. RequestsMade'
      BY <1>0, <2>1 DEF RequestsMade
    <2>5. ASSUME NEW h \in Handles \ {s} PROVE Good(h)
      <3>1. HandleKnown(h)' /\ NotUndone(h)'
        BY <1>0, <2>1, <2>3 DEF HandleKnown, NotUndone, Unsubscribes
      <3>2. Complete(h)'
        BY <1>0, <2>1, <2>3, CompleteKept
      <3> QED
        BY <3>1, <3>2
    <2>6. Good(s)
      <3>1. HandleKnown(s)
        BY <1>0, <2>2
      <3>2. handle[s].state # "none"
        BY <3>1 DEF HandleKnown
      <3> HIDE DEF s
      <3>3. HandleKnown(s)' /\ NotUndone(s)'
        <4>1. s' = s
          BY <2>1 DEF s
        <4>2. NotUndone(s)
          BY <1>0, <2>2
        <4> QED
          BY <2>1, <3>1, <3>2, <4>1, <4>2 DEF HandleKnown, NotUndone, Unsubscribes, s
      <3>4. Complete(s)'
        <4>1. s' = s
          BY <2>1 DEF s
        <4>2. Len(emitted) \in Nat
          BY <1>0 DEF LinkTyped
        <4>3. \A n \in (since'[s] + 1)..Len(emitted') : FALSE
          BY <2>1, <2>3, <4>2
        <4> QED
          BY <2>1, <4>1, <4>3 DEF Complete
      <3> QED
        BY <3>3, <3>4
    <2>7. s' = s
      BY <2>1
    <2> QED
      BY <2>4, <2>5, <2>6, <2>7
  <1>9. Goal
    <2> HIDE DEF Goal
    <2> QED
      BY <1>0, <1>3, <1>5, <1>6, <1>7, <1>8, SubscriptionSteps
  <1> QED
    BY <1>1, <1>9 DEF Delivered

LEMMA InitDelivered == Init => Delivered
  <1> SUFFICES ASSUME Init PROVE Delivered
    OBVIOUS
  <1>1. /\ inbound = <<>> /\ sending = <<>> /\ emitted = <<>> /\ srvOpen = {}
        /\ \A h \in Handles : got[h] = <<>> /\ since[h] = -1 /\ handle[h].state = "none"
        /\ \A i \in Requests : subscribing[i] = NoHandle
    BY DEF Init
  <1>2. EventsInOrder /\ RequestsMade
    BY <1>1 DEF EventsInOrder, RequestsMade
  <1>3. \A h \in Handles : HandleKnown(h) /\ NotUndone(h) /\ Complete(h)
    BY <1>1, HandleAssumption DEF HandleKnown, NotUndone, Complete
  <1> QED
    BY <1>2, <1>3, InitSettled DEF Delivered

(* A subscription made by subscribe() gets every event of its channel that  *)
(* the server emits after it took the subscription, in order and once, as   *)
(* long as it is open, whatever unsubscribe() and subscribe() calls of the  *)
(* same channel are on the wire (client.ts, subscribe, unsubscribe, fanOut). *)
THEOREM EventsNotMissed == Spec => []NothingMissed
  <1>1. ASSUME Delivered PROVE NothingMissed
    <2>1. Typed /\ TypeOK /\ LinkTyped /\ inbound \in Seq(Frames) /\ EventsInOrder
      BY <1>1, TypedParts DEF Delivered, Settled, Typed, LinkTyped
    <2>2. ASSUME NEW h \in Handles, handle[h].state = "open", since[h] >= 0
          PROVE  /\ handle[h].uri \in srvSubs
                 /\ \A n \in (since[h] + 1)..Len(emitted) : emitted[n] = handle[h].uri =>
                       n \in ToSet(got[h]) \/ [type |-> "event", id |-> n] \in ToSet(inbound)
      <3>1. Complete(h)
        BY <1>1 DEF Delivered
      <3>2. \A k \in DOMAIN inbound : inbound[k] = [type |-> inbound[k].type, id |-> inbound[k].id]
        <4>1. \A f \in Frames : f = [type |-> f.type, id |-> f.id]
          BY DEF Frames
        <4>2. \A k \in DOMAIN inbound : inbound[k] \in Frames
          BY <2>1
        <4> QED
          BY ONLY <4>1, <4>2
      <3> QED
        BY <2>2, <3>1, <3>2 DEF Complete, ToSet
    <2> QED
      BY <2>1, <2>2 DEF NothingMissed, EventsInOrder
  <1> QED
    BY <1>1, InitDelivered, StepDelivered, PTL DEF Spec
=============================================================================
