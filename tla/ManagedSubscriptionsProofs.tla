--------------------- MODULE ManagedSubscriptionsProofs ---------------------
(***************************************************************************)
(* What ManagedSubscriptionManager guarantees for every set of URIs and     *)
(* options and without the bounds: the map and the life of an entry agree   *)
(* (MapMatchesLifecycle), the server holds at most one subscription per     *)
(* URI, exactly those of the map once everything is handled                 *)
(* (OneWireSubscription), and a lease of an active subscription gets every  *)
(* event from the moment it is made (LeaseGetsTheRest).                     *)
(*                                                                          *)
(* The first needs that an active entry is done with its start(), so that   *)
(* a late rejection never meets one.  The second needs which subscribe      *)
(* message decides what the server will hold: the last one on the wire for  *)
(* a URI is that of the entry in the map, whose start() still waits.  The   *)
(* third rests on both: the server holds the channel from the snapshot on,  *)
(* and the entry in the map reads the queue of its channel, so each event   *)
(* is on the wire, waits in the client or was handed to the leases; and a   *)
(* lease is made within what its entry has published (LeasesJoined).        *)
(***************************************************************************)
EXTENDS ManagedSubscriptions, SubsequenceProofs, FiniteSetTheorems, TLAPS

\* The messages on the wires.
ToServer == [m : {"subscribe", "unsubscribe"}, uri : Uris, e : EntryIds \cup {None}]
ToClient == [m : {"event", "result", "error"}, uri : Uris, e : EntryIds \cup {None},
             n : 0..MaxEvents]

Typed ==
    /\ TypeOK
    /\ lastEntry \in 0..MaxEntries /\ lastHolder \in 0..MaxLeases
    /\ clientOpen \in BOOLEAN
    /\ srvSubs \subseteq Uris /\ log \in [Uris -> 0..MaxEvents]
    /\ toServer \in Seq(ToServer) /\ toClient \in Seq(ToClient)
    /\ \A i \in 1..Len(toClient) : toClient[i].m = "event" => toClient[i].n # 0

\* The map refers to entries of its URIs.
MapPoints ==
    \A u \in Uris : entries[u] # None => entries[u] \in 1..lastEntry /\ entry[entries[u]].uri = u

\* The second conjunct of MapMatchesLifecycle.
Lifecycle ==
    \A e \in 1..lastEntry :
        /\ Current(e) => /\ entry[e].status \in {"pending", "active"}
                         /\ entry[e].open /\ entry[e].holders # {}
        /\ ~Current(e) => entry[e].status \in {"failed", "closed"} /\ ~entry[e].open

\* An entry is activated by the last step of its start().
ActiveIsStarted == \A e \in EntryIds : entry[e].status = "active" => start[e] = "done"

Mapped == Typed /\ MapPoints /\ Lifecycle /\ ActiveIsStarted

\* The subscribe requests on the wire, and the answers.
Asks(i)    == i \in 1..Len(toServer) /\ toServer[i].m = "subscribe"
Answers(i) == i \in 1..Len(toClient) /\ toClient[i].m \in {"result", "error"}

\* An entry is asked for or answered once.
SentOnce ==
    \A i, j \in 1..Len(toServer) :
        Asks(i) /\ Asks(j) /\ toServer[i].e = toServer[j].e => i = j
AnsweredOnce ==
    \A i, j \in 1..Len(toClient) :
        Answers(i) /\ Answers(j) /\ toClient[i].e = toClient[j].e => i = j
SentOrAnswered ==
    \A i \in 1..Len(toServer), j \in 1..Len(toClient) :
        Asks(i) /\ Answers(j) => toServer[i].e # toClient[j].e

\* Answers are for entries that were made.
AnswersMade == \A j \in 1..Len(toClient) : Answers(j) => toClient[j].e \in 1..lastEntry

\* While a request is on the wire its start() waits or has been rejected.
AsksWait ==
    \A i \in 1..Len(toServer) : Asks(i) =>
        /\ toServer[i].e \in 1..lastEntry
        /\ \/ start[toServer[i].e] \in {"waiting", "rejected"}
           \/ start[toServer[i].e] = "done" /\ ~Current(toServer[i].e)

AskedOnce == SentOnce /\ AnsweredOnce /\ SentOrAnswered /\ AnswersMade /\ AsksWait

\* The last request for a URI that nothing follows is that of the entry in the map.
LastAsks ==
    \A i \in 1..Len(toServer) :
        (Asks(i) /\ \A k \in (i + 1)..Len(toServer) : toServer[k].uri # toServer[i].uri)
            => entries[toServer[i].uri] = toServer[i].e

\* What the server will hold is in the map.
HeldIsMapped == \A u \in Uris : HeldAfter(u, Len(toServer)) => entries[u] # None

\* What is in the map the server will hold, unless the request has failed.
MappedIsHeld ==
    \A u \in Uris : entries[u] # None =>
        \/ HeldAfter(u, Len(toServer))
        \/ start[entries[u]] = "rejected"
        \/ /\ start[entries[u]] = "waiting"
           /\ \E j \in 1..Len(toClient) : toClient[j].m = "error" /\ toClient[j].e = entries[u]

\* Nothing is asked for that the server still holds.
NoneAskedTwice ==
    \A i \in 1..Len(toServer) :
        toServer[i].m = "subscribe" => ~HeldAfter(toServer[i].uri, i - 1)

\* An entry of the map reads its queue.
MappedReads == \A u \in Uris : entries[u] # None => entries[u] \in readers[u]

Wired == clientOpen => /\ AskedOnce /\ LastAsks /\ HeldIsMapped /\ MappedIsHeld
                       /\ NoneAskedTwice /\ MappedReads

-----------------------------------------------------------------------------
(* The records of the entries.                                             *)

\* Closing the state and the queue of an entry (disposeEntry, pump).
LEMMA EndedFacts ==
    ASSUME NEW s \in Entry
    PROVE  /\ Ended(s) \in Entry /\ Ended(s).uri = s.uri /\ Ended(s).holders = s.holders
           /\ ~Ended(s).open
           /\ Ended(s).status \in {"failed", "closed"}
  BY Zenon DEF Entry, Ended, CloseState, ManagedSubscriptionStatus

\* The same, with the last holder gone (ReleaseLast).
LEMMA ReleasedFacts ==
    ASSUME NEW s \in Entry
    PROVE  LET t == [Ended(s) EXCEPT !.holders = {}] IN
           /\ t \in Entry /\ t.uri = s.uri /\ ~t.open /\ t.status \in {"failed", "closed"}
<1> DEFINE d == Ended(s)
<1>1. /\ d \in Entry /\ d.uri = s.uri /\ ~d.open /\ d.status \in {"failed", "closed"}
  BY EndedFacts
<1> HIDE DEF d
<1>2. LET t == [d EXCEPT !.holders = {}] IN
      /\ t \in Entry /\ t.uri = d.uri /\ t.open = d.open /\ t.status = d.status
  BY <1>1, Zenon DEF Entry
<1> QED BY <1>1, <1>2, Zenon DEF d

\* A pending entry whose request failed (start).
LEMMA FailedFacts ==
    ASSUME NEW s \in Entry
    PROVE  LET t == [Fail(s) EXCEPT !.open = FALSE] IN
           /\ t \in Entry /\ t.uri = s.uri /\ ~t.open
           /\ t.status \in {"failed", s.status}
           /\ s.status = "pending" => t.status = "failed"
  BY Zenon DEF Entry, Fail, ManagedSubscriptionStatus

LEMMA ActivateFacts ==
    ASSUME NEW s \in Entry
    PROVE  LET t == Activate(s, s.result) IN
           /\ t \in Entry /\ t.uri = s.uri /\ t.holders = s.holders /\ t.open = s.open
           /\ IF s.status = "pending" THEN t.status = "active" ELSE t.status = s.status
  BY Zenon DEF Entry, Activate, ManagedSubscriptionStatus

\* Changing one field of an entry.
LEMMA FieldFacts ==
    ASSUME NEW s \in Entry
    PROVE  /\ \A X \in SUBSET (1..MaxLeases) :
                LET t == [s EXCEPT !.holders = X] IN
                /\ t \in Entry /\ t.holders = X
                /\ t.uri = s.uri /\ t.open = s.open /\ t.status = s.status
           /\ \A n \in Int :
                LET t == [s EXCEPT !.result = n] IN
                /\ t \in Entry /\ t.holders = s.holders
                /\ t.uri = s.uri /\ t.open = s.open /\ t.status = s.status
           /\ \A g \in Seq(1..MaxEvents) :
                LET t == [s EXCEPT !.got = g] IN
                /\ t \in Entry /\ t.holders = s.holders
                /\ t.uri = s.uri /\ t.open = s.open /\ t.status = s.status
  BY Zenon DEF Entry

LEMMA NewEntryFacts ==
    ASSUME NEW u \in Uris, NEW o \in Options, NEW l \in 1..MaxLeases
    PROVE  LET t == NewEntry(u, o, l) IN
           /\ t \in Entry /\ t.uri = u /\ t.status = "pending" /\ t.open /\ t.holders = {l}
<1>1. -1 \in Int /\ <<>> \in Seq(1..MaxEvents) /\ {l} \in SUBSET (1..MaxLeases)
  OBVIOUS
<1> QED BY <1>1, SMT DEF Entry, NewEntry, ManagedSubscriptionStatus

LEMMA UnmadeFacts == Unmade \in Entry /\ Unmade.status = "unused"
<1> DEFINE u == CHOOSE x \in Uris : TRUE
           o == CHOOSE x \in Options : TRUE
           b == NewEntry(u, o, 0)
           Wide == [uri : Uris, options : Options, holders : {{0}},
                    status : ManagedSubscriptionStatus, result : Int, open : BOOLEAN,
                    got : Seq(1..MaxEvents)]
<1>1. u \in Uris /\ o \in Options
  BY SetAssumption
<1>2. -1 \in Int /\ <<>> \in Seq(1..MaxEvents)
  OBVIOUS
<1>3. Unmade = [b EXCEPT !.holders = {}, !.status = "unused", !.open = FALSE]
  BY Zenon DEF Unmade
<1> HIDE DEF u, o
<1>4. b \in Wide
  BY <1>1, <1>2, SMT DEF NewEntry, ManagedSubscriptionStatus
<1> HIDE DEF b
<1> QED BY <1>3, <1>4, Zenon DEF Entry

-----------------------------------------------------------------------------
(* The wires.                                                              *)

\* SetToSeq lists every element of a finite set.
LEMMA SetToSeqFacts ==
    ASSUME NEW S, IsFiniteSet(S)
    PROVE  /\ SetToSeq(S) \in Seq(S)
           /\ \A x \in S : \E i \in 1..Len(SetToSeq(S)) : SetToSeq(S)[i] = x
<1> DEFINE n == Cardinality(S)
           f == SetToSeq(S)
<1>1. n \in Nat /\ ExistsBijection(1..n, S)
  BY FS_CardinalityType
<1>2. \E g \in [1..n -> S] : IsInjective(g)
  BY <1>1, Zenon DEF ExistsBijection, Bijection, Injection
<1>3. f \in [1..n -> S] /\ IsInjective(f)
  BY <1>2, Zenon DEF SetToSeq
<1>4. f \in Injection(1..n, S)
  BY <1>3, Zenon DEF Injection
<1>5. Cardinality(1..n) = n
  BY <1>1, FS_Interval
<1>6. f \in Surjection(1..n, S)
  BY <1>4, <1>5, FS_Injection
<1>7. \A x \in S : \E i \in 1..n : f[i] = x
  BY <1>6, Zenon DEF Surjection
<1> HIDE DEF f, n
<1>8. f \in Seq(S) /\ Len(f) = n
  BY <1>1, <1>3, SMT
<1> QED BY <1>7, <1>8 DEF f

\* What unsubscribe() does for a finite set of URIs on an open client: a message
\* for each of them goes out, and nothing else.
Told(us) ==
    \E w \in Seq(ToServer) :
        /\ toServer' = toServer \o w
        /\ \A i \in 1..Len(w) : w[i].m = "unsubscribe" /\ w[i].uri \in us
        /\ \A u \in us : \E i \in 1..Len(w) : w[i].uri = u

LEMMA UnsubscribeFacts ==
    ASSUME NEW us \in SUBSET Uris, IsFiniteSet(us), Unsubscribe(us), Typed
    PROVE  /\ readers' \in [Uris -> SUBSET EntryIds]
           /\ toServer' \in Seq(ToServer)
           /\ clientOpen => Told(us) /\ \A u \in Uris \ us : readers'[u] = readers[u]
           /\ ~clientOpen => readers' = readers /\ toServer' = toServer
<1>0. readers \in [Uris -> SUBSET EntryIds] /\ toServer \in Seq(ToServer)
  BY DEF Typed, TypeOK
<1>1. CASE clientOpen
  <2> DEFINE S == {Msg("unsubscribe", u, None) : u \in us}
             f == [u \in us |-> Msg("unsubscribe", u, None)]
             w == SetToSeq(S)
  <2>1. /\ readers' = [u \in Uris |-> IF u \in us THEN {} ELSE readers[u]]
        /\ toServer' = toServer \o w
    BY <1>1, Zenon DEF Unsubscribe
  <2>2. f \in Surjection(us, S)
    BY Zenon DEF Surjection
  <2>3. IsFiniteSet(S)
    BY <2>2, FS_Surjection
  <2>4. \A x \in S : x \in ToServer /\ x.m = "unsubscribe" /\ x.uri \in us
    BY SMT DEF Msg, ToServer
  <2>5. \A u \in us : \E x \in S : x.uri = u
    <3>1. \A u \in us : Msg("unsubscribe", u, None) \in S
      BY Zenon
    <3>2. \A u \in us : Msg("unsubscribe", u, None).uri = u
      BY SMT DEF Msg
    <3> QED BY <3>1, <3>2, Zenon
  <2> HIDE DEF S, f
  <2>6. w \in Seq(S) /\ \A x \in S : \E i \in 1..Len(w) : w[i] = x
    BY <2>3, SetToSeqFacts
  <2> HIDE DEF w
  <2>7. w \in Seq(ToServer)
    <3>1. Len(w) \in Nat /\ \A i \in 1..Len(w) : w[i] \in S
      BY <2>6
    <3>2. w = [i \in 1..Len(w) |-> w[i]]
      BY <2>6
    <3> QED BY <2>4, <3>1, <3>2, IsASeq
  <2>8. Told(us)
    <3>1. \A i \in 1..Len(w) : w[i] \in S
      BY <2>6
    <3>2. \A i \in 1..Len(w) : w[i].m = "unsubscribe" /\ w[i].uri \in us
      BY <2>4, <3>1, Zenon
    <3>3. \A u \in us : \E i \in 1..Len(w) : w[i].uri = u
      BY <2>5, <2>6, Zenon
    <3> QED BY <2>1, <2>7, <3>2, <3>3, Zenon DEF Told
  <2>9. toServer' \in Seq(ToServer)
    BY <1>0, <2>1, <2>7
  <2>10. readers' \in [Uris -> SUBSET EntryIds] /\ \A u \in Uris \ us : readers'[u] = readers[u]
    BY <1>0, <2>1
  <2> QED BY <1>1, <2>8, <2>9, <2>10
<1>2. CASE ~clientOpen
  BY <1>0, <1>2, Zenon DEF Unsubscribe
<1> QED BY <1>1, <1>2

-----------------------------------------------------------------------------
(* What the steps do to the map and to the entries.                         *)

\* Entry e keeps its URI, state and queue, and a holder if the map needs one.
EntryKept(e) ==
    /\ entry'[e].uri = entry[e].uri /\ entry'[e].status = entry[e].status
    /\ entry'[e].open = entry[e].open
    /\ Current(e) /\ entry[e].holders # {} => entry'[e].holders # {}

\* A start() that is done stays so.
DoneStays == \A e \in EntryIds : start[e] = "done" => start'[e] = "done"

\* The map and the entries are left alone.
MapKept ==
    /\ entries' = entries /\ lastEntry' = lastEntry /\ DoneStays
    /\ \A e \in EntryIds : EntryKept(e)

\* The entries of the URIs us have left the map and have ended.
MapLeft(us) ==
    /\ lastEntry' = lastEntry /\ DoneStays
    /\ \A u \in Uris : entries'[u] = IF u \in us THEN None ELSE entries[u]
    /\ \A e \in EntryIds :
          IF Current(e) /\ entry[e].uri \in us
          THEN /\ entry'[e].uri = entry[e].uri /\ ~entry'[e].open
               /\ entry'[e].status \in {"failed", "closed"}
          ELSE EntryKept(e)

\* A new entry is in the map.
MapJoined(u) ==
    LET e == lastEntry + 1 IN
    /\ entries[u] = None /\ e \in EntryIds /\ lastEntry' = e
    /\ entries' = [entries EXCEPT ![u] = e]
    /\ entry'[e].uri = u /\ entry'[e].status = "pending" /\ entry'[e].open
    /\ entry'[e].holders # {}
    /\ \A d \in EntryIds \ {e} : entry'[d] = entry[d] /\ start'[d] = start[d]

\* The entry e of the map becomes active.
MapActivated(e) ==
    /\ entries' = entries /\ lastEntry' = lastEntry /\ Current(e) /\ start'[e] = "done"
    /\ entry'[e].uri = entry[e].uri /\ entry'[e].open = entry[e].open
    /\ entry'[e].holders = entry[e].holders
    /\ entry[e].status = "pending" => entry'[e].status = "active"
    /\ entry[e].status # "pending" => entry'[e].status = entry[e].status
    /\ \A d \in EntryIds \ {e} : entry'[d] = entry[d] /\ start'[d] = start[d]

\* acquire() of a URI without entry.
LEMMA AcquireFirstFacts ==
    ASSUME Typed, NEW u \in Uris, NEW o \in Options, AcquireFirst(u, o)
    PROVE  Typed' /\ MapJoined(u)
<1> DEFINE e == lastEntry + 1
           l == lastHolder + 1
           t == NewEntry(u, o, l)
<1>1. /\ lastEntry \in 0..MaxEntries /\ lastHolder \in 0..MaxLeases
      /\ MaxEntries \in Nat /\ MaxLeases \in Nat
      /\ lastEntry < MaxEntries /\ lastHolder < MaxLeases
  BY BoundAssumption, Zenon DEF Typed, AcquireFirst
<1>2. e \in EntryIds /\ e \in 0..MaxEntries /\ l \in 0..MaxLeases /\ l \in 1..MaxLeases
  BY <1>1 DEF EntryIds
<1>3. /\ entries[u] = None /\ lastEntry' = e /\ lastHolder' = l
      /\ entry' = [entry EXCEPT ![e] = t] /\ entries' = [entries EXCEPT ![u] = e]
      /\ pump' = pump /\ clientOpen' = clientOpen /\ inbox' = inbox /\ toClient' = toClient
      /\ srvSubs' = srvSubs /\ log' = log
  BY Zenon DEF AcquireFirst, serverVars
<1>4. /\ t \in Entry /\ t.uri = u /\ t.status = "pending" /\ t.open /\ t.holders = {l}
  BY <1>2, NewEntryFacts
<1>5. \/ /\ start' = [start EXCEPT ![e] = "waiting"]
         /\ readers' = [readers EXCEPT ![u] = readers[u] \cup {e}]
         /\ toServer' = Append(toServer, Msg("subscribe", u, e))
      \/ /\ start' = [start EXCEPT ![e] = "rejected"]
         /\ readers' = readers /\ toServer' = toServer
  BY Zenon DEF AcquireFirst
<1>6. Msg("subscribe", u, e) \in ToServer
  BY <1>2, SMT DEF Msg, ToServer
<1> HIDE DEF e, l, t
<1>7. /\ entries \in [Uris -> EntryIds \cup {None}] /\ entry \in [EntryIds -> Entry]
      /\ start \in [EntryIds -> {"none", "waiting", "answered", "rejected", "done"}]
      /\ readers \in [Uris -> SUBSET EntryIds] /\ toServer \in Seq(ToServer)
  BY Zenon DEF Typed, TypeOK
<1>8. entries' \in [Uris -> EntryIds \cup {None}] /\ entry' \in [EntryIds -> Entry]
  BY <1>2, <1>3, <1>4, <1>7
<1>9. /\ start' \in [EntryIds -> {"none", "waiting", "answered", "rejected", "done"}]
      /\ \A d \in EntryIds \ {e} : start'[d] = start[d]
  BY <1>2, <1>5, <1>7
<1>10. readers' \in [Uris -> SUBSET EntryIds]
  BY <1>2, <1>5, <1>7
<1>11. toServer' \in Seq(ToServer)
  BY <1>5, <1>6, <1>7
<1>12. entry'[e] = t /\ \A d \in EntryIds \ {e} : entry'[d] = entry[d]
  BY <1>2, <1>3, <1>7
<1>13. Typed'
  BY <1>2, <1>3, <1>8, <1>9, <1>10, <1>11, Zenon DEF Typed, TypeOK
<1>14. entry'[e].holders # {}
  BY <1>4, <1>12
<1>15. MapJoined(u)
  BY <1>2, <1>3, <1>4, <1>9, <1>12, <1>14, Zenon DEF MapJoined, e
<1> QED BY <1>13, <1>15

\* Entry e of the map is replaced by one that the map can keep.
LEMMA OneEntryKept ==
    ASSUME Typed, NEW e \in EntryIds, NEW t \in Entry,
           entry' = [entry EXCEPT ![e] = t],
           t.uri = entry[e].uri, t.status = entry[e].status, t.open = entry[e].open,
           Current(e) /\ entry[e].holders # {} => t.holders # {}
    PROVE  entry' \in [EntryIds -> Entry] /\ \A d \in EntryIds : EntryKept(d)
<1>1. entry \in [EntryIds -> Entry]
  BY Zenon DEF Typed, TypeOK
<1>2. /\ entry' \in [EntryIds -> Entry] /\ entry'[e] = t
      /\ \A d \in EntryIds : d # e => entry'[d] = entry[d]
  BY <1>1
<1> QED BY <1>2, Zenon DEF EntryKept

\* acquire() of a URI with an entry, and a release that leaves a holder or is
\* of an entry that has left the map.
LEMMA SharedFacts ==
    ASSUME Typed, MapPoints,
           \/ \E u \in Uris, o \in Options : AcquireShared(u, o)
           \/ \E e \in EntryIds, l \in 1..MaxLeases : ReleaseShared(e, l)
    PROVE  Typed' /\ MapKept
<1>1. entry \in [EntryIds -> Entry] /\ entries \in [Uris -> EntryIds \cup {None}]
  BY Zenon DEF Typed, TypeOK
<1>2. \E e \in EntryIds, X \in SUBSET (1..MaxLeases) :
        /\ entry' = [entry EXCEPT ![e] = [entry[e] EXCEPT !.holders = X]]
        /\ Current(e) /\ entry[e].holders # {} => X # {}
  <2>1. CASE \E u \in Uris, o \in Options : AcquireShared(u, o)
    <3> PICK u \in Uris, o \in Options : AcquireShared(u, o)
      BY <2>1
    <3> DEFINE e == entries[u]
               X == entry[e].holders \cup {lastHolder + 1}
    <3>1. e \in EntryIds
      BY <1>1, Zenon DEF AcquireShared
    <3>2. lastHolder + 1 \in 1..MaxLeases
      BY BoundAssumption DEF AcquireShared, Typed
    <3>3. entry[e].holders \in SUBSET (1..MaxLeases)
      BY <1>1, <3>1, Zenon DEF Entry
    <3>4. entry' = [entry EXCEPT ![e] = [entry[e] EXCEPT !.holders = X]]
      BY Zenon DEF AcquireShared
    <3>5. X \in SUBSET (1..MaxLeases) /\ X # {}
      BY <3>2, <3>3
    <3> HIDE DEF X, e
    <3> QED BY <3>1, <3>4, <3>5, Zenon
  <2>2. CASE \E e \in EntryIds, l \in 1..MaxLeases : ReleaseShared(e, l)
    <3> PICK e \in EntryIds, l \in 1..MaxLeases : ReleaseShared(e, l)
      BY <2>2
    <3> DEFINE H == entry[e].holders
               X == H \ {l}
    <3>1. H \in SUBSET (1..MaxLeases)
      BY <1>1, Zenon DEF Entry
    <3>2. entry' = [entry EXCEPT ![e] = [entry[e] EXCEPT !.holders = X]]
      BY Zenon DEF ReleaseShared
    <3>3. l \in H /\ (H # {l} \/ ~Current(e))
      BY Zenon DEF ReleaseShared
    <3>4. X \in SUBSET (1..MaxLeases) /\ (Current(e) => X # {})
      BY <3>1, <3>3
    <3> HIDE DEF X
    <3> QED BY <3>2, <3>4, Zenon
  <2> QED BY <2>1, <2>2, Zenon
<1>3. PICK e \in EntryIds, X \in SUBSET (1..MaxLeases) :
        /\ entry' = [entry EXCEPT ![e] = [entry[e] EXCEPT !.holders = X]]
        /\ Current(e) /\ entry[e].holders # {} => X # {}
  BY <1>2, Zenon
<1> DEFINE t == [entry[e] EXCEPT !.holders = X]
<1>4. entry[e] \in Entry
  BY <1>1
<1>5. /\ t \in Entry /\ t.holders = X
      /\ t.uri = entry[e].uri /\ t.open = entry[e].open /\ t.status = entry[e].status
  BY <1>4, FieldFacts, Zenon
<1> HIDE DEF t
<1>6. entry' = [entry EXCEPT ![e] = t]
  BY <1>3, Zenon DEF t
<1>7. entry' \in [EntryIds -> Entry] /\ \A d \in EntryIds : EntryKept(d)
  BY <1>3, <1>5, <1>6, OneEntryKept, Zenon
<1>8. lastHolder' \in 0..MaxLeases
  <2>1. lastHolder' = lastHolder \/ (lastHolder' = lastHolder + 1 /\ lastHolder < MaxLeases)
    BY Zenon DEF AcquireShared, ReleaseShared
  <2> QED BY <2>1, BoundAssumption DEF Typed
<1>9. /\ entries' = entries /\ start' = start /\ pump' = pump /\ lastEntry' = lastEntry
      /\ clientOpen' = clientOpen /\ readers' = readers /\ inbox' = inbox
      /\ toServer' = toServer /\ toClient' = toClient /\ srvSubs' = srvSubs /\ log' = log
  BY Zenon DEF AcquireShared, ReleaseShared, clientVars, serverVars
<1>10. Typed'
  BY <1>7, <1>8, <1>9, Zenon DEF Typed, TypeOK
<1> QED BY <1>7, <1>9, <1>10, Zenon DEF MapKept, DoneStays

\* One entry of the map leaves it and has ended.
LEMMA OneEntryLeft ==
    ASSUME Typed, NEW e \in EntryIds, NEW t \in Entry, Current(e),
           entry' = [entry EXCEPT ![e] = t], t.uri = entry[e].uri, ~t.open,
           t.status \in {"failed", "closed"},
           entries' = [entries EXCEPT ![entry[e].uri] = None],
           lastEntry' = lastEntry, DoneStays
    PROVE  /\ entry' \in [EntryIds -> Entry] /\ entries' \in [Uris -> EntryIds \cup {None}]
           /\ MapLeft({entry[e].uri})
<1>1. entry \in [EntryIds -> Entry] /\ entries \in [Uris -> EntryIds \cup {None}]
  BY Zenon DEF Typed, TypeOK
<1>2. entry[e].uri \in Uris
  BY <1>1, Zenon DEF Entry
<1>3. /\ entry' \in [EntryIds -> Entry] /\ entry'[e] = t
      /\ \A d \in EntryIds : d # e => entry'[d] = entry[d]
  BY <1>1
<1>4. /\ entries' \in [Uris -> EntryIds \cup {None}]
      /\ \A u \in Uris : entries'[u] = IF u = entry[e].uri THEN None ELSE entries[u]
  BY <1>1, <1>2
<1>5. ASSUME NEW d \in EntryIds, d # e
      PROVE  ~(Current(d) /\ entry[d].uri = entry[e].uri) /\ EntryKept(d)
  BY <1>3, <1>5, Zenon DEF EntryKept, Current
<1>6. ASSUME NEW d \in EntryIds
      PROVE  IF Current(d) /\ entry[d].uri \in {entry[e].uri}
             THEN /\ entry'[d].uri = entry[d].uri /\ ~entry'[d].open
                  /\ entry'[d].status \in {"failed", "closed"}
             ELSE EntryKept(d)
  <2>1. CASE d = e
    BY <1>3, <2>1, Zenon
  <2>2. CASE d # e
    BY <1>5, <2>2, Zenon
  <2> QED BY <2>1, <2>2
<1> QED BY <1>3, <1>4, <1>6, Zenon DEF MapLeft

\* The last lease is released.
LEMMA ReleaseLastFacts ==
    ASSUME Typed, NEW e \in EntryIds, NEW l \in 1..MaxLeases, ReleaseLast(e, l)
    PROVE  /\ Typed' /\ entry[e].uri \in Uris /\ MapLeft({entry[e].uri})
<1>1. /\ entry \in [EntryIds -> Entry] /\ inbox \in [EntryIds -> Seq(1..MaxEvents)]
  BY Zenon DEF Typed, TypeOK
<1> DEFINE t == [Ended(entry[e]) EXCEPT !.holders = {}]
<1>2. /\ Current(e) /\ entries' = [entries EXCEPT ![entry[e].uri] = None]
      /\ Unsubscribe({entry[e].uri}) /\ entry' = [entry EXCEPT ![e] = t]
      /\ inbox' = [inbox EXCEPT ![e] = IF pump[e] = "running" THEN <<>> ELSE inbox[e]]
      /\ start' = start /\ pump' = pump /\ lastEntry' = lastEntry /\ lastHolder' = lastHolder
      /\ clientOpen' = clientOpen /\ toClient' = toClient /\ srvSubs' = srvSubs /\ log' = log
  BY Zenon DEF ReleaseLast, serverVars
<1>3. entry[e] \in Entry
  BY <1>1
<1>4. t \in Entry /\ t.uri = entry[e].uri /\ ~t.open /\ t.status \in {"failed", "closed"}
  BY <1>3, ReleasedFacts, Zenon
<1> HIDE DEF t
<1>5. {entry[e].uri} \in SUBSET Uris /\ IsFiniteSet({entry[e].uri}) /\ entry[e].uri \in Uris
  BY <1>3, FS_Singleton, Zenon DEF Entry
<1>6. DoneStays
  BY <1>2, Zenon DEF DoneStays
<1>7. /\ entry' \in [EntryIds -> Entry] /\ entries' \in [Uris -> EntryIds \cup {None}]
      /\ MapLeft({entry[e].uri})
  BY <1>2, <1>4, <1>6, OneEntryLeft, Zenon
<1>8. readers' \in [Uris -> SUBSET EntryIds] /\ toServer' \in Seq(ToServer)
  BY <1>2, <1>5, UnsubscribeFacts, Zenon
<1>9. inbox' \in [EntryIds -> Seq(1..MaxEvents)]
  <2>1. inbox' = [inbox EXCEPT ![e] = IF pump[e] = "running" THEN <<>> ELSE inbox[e]]
    BY <1>2, Zenon
  <2>2. <<>> \in Seq(1..MaxEvents)
    OBVIOUS
  <2> QED BY <1>1, <2>1, <2>2, Zenon
<1>10. Typed'
  BY <1>2, <1>7, <1>8, <1>9, Zenon DEF Typed, TypeOK
<1> QED BY <1>5, <1>7, <1>10

\* The request of an entry in the map failed, while the entry was pending.
LEMMA StartFailsFacts ==
    ASSUME Typed, MapPoints, Lifecycle, ActiveIsStarted, NEW e \in EntryIds, StartFails(e)
    PROVE  /\ Typed' /\ entry[e].uri \in Uris /\ MapLeft({entry[e].uri})
<1>1. /\ entry \in [EntryIds -> Entry] /\ inbox \in [EntryIds -> Seq(1..MaxEvents)]
      /\ start \in [EntryIds -> {"none", "waiting", "answered", "rejected", "done"}]
  BY Zenon DEF Typed, TypeOK
<1> DEFINE t == [Fail(entry[e]) EXCEPT !.open = FALSE]
<1>2. /\ start[e] = "rejected" /\ start' = [start EXCEPT ![e] = "done"]
      /\ Current(e) /\ entries' = [entries EXCEPT ![entry[e].uri] = None]
      /\ Unsubscribe({entry[e].uri}) /\ entry' = [entry EXCEPT ![e] = t]
      /\ inbox' = [inbox EXCEPT ![e] = <<>>]
      /\ pump' = pump /\ lastEntry' = lastEntry /\ lastHolder' = lastHolder
      /\ clientOpen' = clientOpen /\ toClient' = toClient /\ srvSubs' = srvSubs /\ log' = log
  BY Zenon DEF StartFails, serverVars
<1>3. entry[e] \in Entry
  BY <1>1
<1>4. {entry[e].uri} \in SUBSET Uris /\ IsFiniteSet({entry[e].uri}) /\ entry[e].uri \in Uris
  BY <1>3, FS_Singleton, Zenon DEF Entry
<1>5. entry[e].status = "pending"
  <2>1. e \in 1..lastEntry
    <3>1. entries[entry[e].uri] = e /\ e # None
      BY <1>2, SMT DEF Current, None, EntryIds
    <3> QED BY <1>4, <3>1, Zenon DEF MapPoints
  <2>2. entry[e].status \in {"pending", "active"}
    BY <1>2, <2>1, Zenon DEF Lifecycle
  <2>3. entry[e].status # "active"
    <3>1. start[e] # "done"
      BY <1>2, Zenon
    <3> QED BY <3>1, Zenon DEF ActiveIsStarted
  <2> QED BY <2>2, <2>3
<1>6. t \in Entry /\ t.uri = entry[e].uri /\ ~t.open /\ t.status \in {"failed", "closed"}
  BY <1>3, <1>5, FailedFacts, Zenon
<1> HIDE DEF t
<1>7. DoneStays /\ start' \in [EntryIds -> {"none", "waiting", "answered", "rejected", "done"}]
  BY <1>1, <1>2 DEF DoneStays
<1>8. /\ entry' \in [EntryIds -> Entry] /\ entries' \in [Uris -> EntryIds \cup {None}]
      /\ MapLeft({entry[e].uri})
  BY <1>2, <1>6, <1>7, OneEntryLeft, Zenon
<1>9. readers' \in [Uris -> SUBSET EntryIds] /\ toServer' \in Seq(ToServer)
  BY <1>2, <1>4, UnsubscribeFacts, Zenon
<1>10. inbox' \in [EntryIds -> Seq(1..MaxEvents)]
  BY <1>1, <1>2
<1>11. Typed'
  BY <1>2, <1>7, <1>8, <1>9, <1>10, Zenon DEF Typed, TypeOK
<1> QED BY <1>4, <1>8, <1>11

\* The stream of an entry ended.
LEMMA PumpEndsFacts ==
    ASSUME Typed, NEW e \in EntryIds, PumpEnds(e)
    PROVE  /\ Typed' /\ entry[e].uri \in Uris
           /\ Current(e) => MapLeft({entry[e].uri})
           /\ ~Current(e) => MapKept
<1>1. /\ entry \in [EntryIds -> Entry] /\ pump \in [EntryIds -> {"none", "running", "done"}]
  BY Zenon DEF Typed, TypeOK
<1>2. /\ pump' = [pump EXCEPT ![e] = "done"]
      /\ start' = start /\ lastEntry' = lastEntry /\ lastHolder' = lastHolder
      /\ clientOpen' = clientOpen /\ readers' = readers /\ inbox' = inbox
      /\ toServer' = toServer /\ toClient' = toClient /\ srvSubs' = srvSubs /\ log' = log
  BY Zenon DEF PumpEnds, clientVars, serverVars
<1>3. pump' \in [EntryIds -> {"none", "running", "done"}]
  BY <1>1, <1>2
<1>4. entry[e] \in Entry /\ entry[e].uri \in Uris
  BY <1>1, Zenon DEF Entry
<1>5. DoneStays
  BY <1>2, Zenon DEF DoneStays
<1>6. CASE Current(e)
  <2> DEFINE t == Ended(entry[e])
  <2>1. /\ entries' = [entries EXCEPT ![entry[e].uri] = None]
        /\ entry' = [entry EXCEPT ![e] = t]
    BY <1>6, Zenon DEF PumpEnds
  <2>2. t \in Entry /\ t.uri = entry[e].uri /\ ~t.open /\ t.status \in {"failed", "closed"}
    BY <1>4, EndedFacts, Zenon
  <2> HIDE DEF t
  <2>3. /\ entry' \in [EntryIds -> Entry] /\ entries' \in [Uris -> EntryIds \cup {None}]
        /\ MapLeft({entry[e].uri})
    BY <1>2, <1>5, <1>6, <2>1, <2>2, OneEntryLeft, Zenon
  <2>4. Typed'
    BY <1>2, <1>3, <2>3, Zenon DEF Typed, TypeOK
  <2> QED BY <1>4, <1>6, <2>3, <2>4
<1>7. CASE ~Current(e)
  <2>1. entries' = entries /\ entry' = entry
    BY <1>7, Zenon DEF PumpEnds
  <2>2. Typed'
    BY <1>2, <1>3, <2>1, Zenon DEF Typed, TypeOK
  <2>3. MapKept
    BY <1>2, <1>5, <2>1, Zenon DEF MapKept, EntryKept
  <2> QED BY <1>4, <1>7, <2>2, <2>3
<1> QED BY <1>6, <1>7

\* close() disposes of all entries of the map.
LEMMA CloseFacts ==
    ASSUME Typed, MapPoints, Close
    PROVE  /\ Typed' /\ start' = start /\ toClient' = toClient /\ srvSubs' = srvSubs
           /\ \E us \in SUBSET Uris : IsFiniteSet(us) /\ Unsubscribe(us) /\ MapLeft(us)
<1> DEFINE es == {e \in 1..lastEntry : Current(e)}
           us == {entry[e].uri : e \in es}
           f  == [e \in es |-> entry[e].uri]
<1>1. /\ entry \in [EntryIds -> Entry] /\ inbox \in [EntryIds -> Seq(1..MaxEvents)]
      /\ entries \in [Uris -> EntryIds \cup {None}] /\ lastEntry \in 0..MaxEntries
  BY Zenon DEF Typed, TypeOK
<1>2. /\ entries' = [u \in Uris |-> None]
      /\ entry' = [e \in EntryIds |-> IF e \in es THEN Ended(entry[e]) ELSE entry[e]]
      /\ Unsubscribe(us)
      /\ inbox' = [e \in EntryIds |-> IF e \in es /\ pump[e] = "running" THEN <<>> ELSE inbox[e]]
      /\ start' = start /\ pump' = pump /\ lastEntry' = lastEntry /\ lastHolder' = lastHolder
      /\ clientOpen' = clientOpen /\ toClient' = toClient /\ srvSubs' = srvSubs /\ log' = log
  BY Zenon DEF Close, DisposeEntries, serverVars
<1>3. \A e \in 1..lastEntry : e \in EntryIds
  BY <1>1, BoundAssumption DEF EntryIds
<1>4. \A e \in EntryIds : entry[e] \in Entry
  BY <1>1
<1>5. us \in SUBSET Uris
  BY <1>3, <1>4, Zenon DEF Entry
<1>6. IsFiniteSet(us)
  <2>1. lastEntry \in Int /\ 1 \in Int
    BY <1>1, BoundAssumption
  <2>2. IsFiniteSet(1..lastEntry)
    BY <2>1, FS_Interval
  <2>3. IsFiniteSet(es)
    <3>1. es \in SUBSET (1..lastEntry)
      BY Zenon
    <3> HIDE DEF es
    <3> QED BY <2>2, <3>1, FS_Subset
  <2>4. f \in Surjection(es, us)
    BY Zenon DEF Surjection
  <2> HIDE DEF es, us, f
  <2> QED BY <2>3, <2>4, FS_Surjection
<1>7. \A u \in Uris : entries'[u] = IF u \in us THEN None ELSE entries[u]
  <2> SUFFICES ASSUME NEW u \in Uris, u \notin us PROVE entries[u] = None
    BY <1>2, Zenon
  <2> SUFFICES ASSUME entries[u] # None PROVE FALSE
    OBVIOUS
  <2>1. entries[u] \in 1..lastEntry /\ entry[entries[u]].uri = u
    BY Zenon DEF MapPoints
  <2> QED BY <2>1, Zenon DEF Current
<1>8. \A e \in EntryIds : Current(e) => e \in es
  <2> SUFFICES ASSUME NEW e \in EntryIds, Current(e) PROVE e \in 1..lastEntry
    BY Zenon
  <2>1. entries[entry[e].uri] = e /\ e # None
    BY SMT DEF Current, None, EntryIds
  <2>2. entry[e].uri \in Uris
    BY <1>4, Zenon DEF Entry
  <2> QED BY <2>1, <2>2, Zenon DEF MapPoints
<1>9. entry' \in [EntryIds -> Entry]
  <2>1. \A e \in EntryIds : Ended(entry[e]) \in Entry
    BY <1>4, EndedFacts, Zenon
  <2> HIDE DEF es
  <2> QED BY <1>2, <1>4, <2>1
<1>10. ASSUME NEW e \in EntryIds
       PROVE  IF Current(e) /\ entry[e].uri \in us
              THEN /\ entry'[e].uri = entry[e].uri /\ ~entry'[e].open
                   /\ entry'[e].status \in {"failed", "closed"}
              ELSE EntryKept(e)
  <2>1. CASE e \in es
    <3>1. entry'[e] = Ended(entry[e])
      BY <1>2, <2>1, Zenon
    <3>2. /\ Ended(entry[e]).uri = entry[e].uri /\ ~Ended(entry[e]).open
          /\ Ended(entry[e]).status \in {"failed", "closed"}
      BY <1>4, EndedFacts, Zenon
    <3>3. Current(e) /\ entry[e].uri \in us
      BY <2>1, Zenon
    <3> QED BY <3>1, <3>2, <3>3, Zenon
  <2>2. CASE e \notin es
    <3>1. entry'[e] = entry[e]
      BY <1>2, <2>2, Zenon
    <3>2. ~Current(e)
      BY <1>8, <2>2, Zenon
    <3> QED BY <3>1, <3>2, Zenon DEF EntryKept
  <2> QED BY <2>1, <2>2
<1>11. MapLeft(us)
  BY <1>2, <1>7, <1>10, Zenon DEF MapLeft, DoneStays
<1>12. inbox' \in [EntryIds -> Seq(1..MaxEvents)]
  <2>1. <<>> \in Seq(1..MaxEvents)
    OBVIOUS
  <2> HIDE DEF es
  <2> QED BY <1>1, <1>2, <2>1, Zenon
<1>13. entries' \in [Uris -> EntryIds \cup {None}]
  BY <1>2
<1>14. readers' \in [Uris -> SUBSET EntryIds] /\ toServer' \in Seq(ToServer)
  BY <1>2, <1>5, <1>6, UnsubscribeFacts, Zenon
<1> HIDE DEF us
<1>15. Typed'
  BY <1>2, <1>9, <1>12, <1>13, <1>14, Zenon DEF Typed, TypeOK
<1> QED BY <1>2, <1>5, <1>6, <1>11, <1>15, Zenon

\* start() of an entry in the map was answered.
LEMMA StartActivatesFacts ==
    ASSUME Typed, NEW e \in EntryIds, StartActivates(e)
    PROVE  Typed' /\ MapActivated(e)
<1>1. /\ entry \in [EntryIds -> Entry] /\ pump \in [EntryIds -> {"none", "running", "done"}]
      /\ start \in [EntryIds -> {"none", "waiting", "answered", "rejected", "done"}]
  BY Zenon DEF Typed, TypeOK
<1> DEFINE t == Activate(entry[e], entry[e].result)
<1>2. /\ Current(e) /\ start' = [start EXCEPT ![e] = "done"]
      /\ entry' = [entry EXCEPT ![e] = t] /\ pump' = [pump EXCEPT ![e] = "running"]
      /\ entries' = entries /\ lastEntry' = lastEntry /\ lastHolder' = lastHolder
      /\ clientOpen' = clientOpen /\ readers' = readers /\ inbox' = inbox
      /\ toServer' = toServer /\ toClient' = toClient /\ srvSubs' = srvSubs /\ log' = log
  BY Zenon DEF StartActivates, clientVars, serverVars
<1>3. entry[e] \in Entry
  BY <1>1
<1>4. /\ t \in Entry /\ t.uri = entry[e].uri /\ t.holders = entry[e].holders
      /\ t.open = entry[e].open
      /\ entry[e].status = "pending" => t.status = "active"
      /\ entry[e].status # "pending" => t.status = entry[e].status
  BY <1>3, ActivateFacts, Zenon
<1> HIDE DEF t
<1>5. /\ entry' \in [EntryIds -> Entry] /\ entry'[e] = t
      /\ \A d \in EntryIds \ {e} : entry'[d] = entry[d]
  BY <1>1, <1>2, <1>4
<1>6. /\ start' \in [EntryIds -> {"none", "waiting", "answered", "rejected", "done"}]
      /\ start'[e] = "done" /\ \A d \in EntryIds \ {e} : start'[d] = start[d]
  BY <1>1, <1>2
<1>7. pump' \in [EntryIds -> {"none", "running", "done"}]
  BY <1>1, <1>2
<1>8. Typed'
  BY <1>2, <1>5, <1>6, <1>7, Zenon DEF Typed, TypeOK
<1>9. MapActivated(e)
  BY <1>2, <1>4, <1>5, <1>6, Zenon DEF MapActivated
<1> QED BY <1>8, <1>9

\* start() of an entry that has left the map was answered or rejected.
LEMMA StartLateFacts ==
    ASSUME Typed, NEW e \in EntryIds, StartDiscards(e) \/ StartIgnored(e)
    PROVE  Typed' /\ MapKept
<1>1. /\ start \in [EntryIds -> {"none", "waiting", "answered", "rejected", "done"}]
      /\ readers \in [Uris -> SUBSET EntryIds] /\ entry \in [EntryIds -> Entry]
      /\ inbox \in [EntryIds -> Seq(1..MaxEvents)]
  BY Zenon DEF Typed, TypeOK
<1>2. /\ start' = [start EXCEPT ![e] = "done"]
      /\ readers' = [readers EXCEPT ![entry[e].uri] = readers[entry[e].uri] \ {e}]
      /\ inbox' = [inbox EXCEPT ![e] = <<>>]
      /\ entries' = entries /\ entry' = entry /\ pump' = pump /\ lastEntry' = lastEntry
      /\ lastHolder' = lastHolder /\ clientOpen' = clientOpen
      /\ toServer' = toServer /\ toClient' = toClient /\ srvSubs' = srvSubs /\ log' = log
  BY Zenon DEF StartDiscards, StartIgnored, serverVars
<1>3. DoneStays /\ start' \in [EntryIds -> {"none", "waiting", "answered", "rejected", "done"}]
  BY <1>1, <1>2 DEF DoneStays
<1>4. readers' \in [Uris -> SUBSET EntryIds]
  <2>1. entry[e].uri \in Uris
    BY <1>1, Zenon DEF Entry
  <2> QED BY <1>1, <1>2, <2>1
<1>5. inbox' \in [EntryIds -> Seq(1..MaxEvents)]
  BY <1>1, <1>2
<1>6. Typed'
  BY <1>2, <1>3, <1>4, <1>5, Zenon DEF Typed, TypeOK
<1> QED BY <1>2, <1>3, <1>6, Zenon DEF MapKept, EntryKept

\* pump() publishes one event.
LEMMA PumpPublishesFacts ==
    ASSUME Typed, NEW e \in EntryIds, PumpPublishes(e)
    PROVE  Typed' /\ MapKept
<1>1. entry \in [EntryIds -> Entry] /\ inbox \in [EntryIds -> Seq(1..MaxEvents)]
  BY Zenon DEF Typed, TypeOK
<1> DEFINE g == IF entry[e].open THEN Append(entry[e].got, Head(inbox[e])) ELSE entry[e].got
           t == [entry[e] EXCEPT !.got = g]
<1>2. /\ entry' = [entry EXCEPT ![e] = t] /\ inbox' = [inbox EXCEPT ![e] = Tail(inbox[e])]
      /\ inbox[e] # <<>>
      /\ entries' = entries /\ start' = start /\ pump' = pump /\ lastEntry' = lastEntry
      /\ lastHolder' = lastHolder /\ clientOpen' = clientOpen /\ readers' = readers
      /\ toServer' = toServer /\ toClient' = toClient /\ srvSubs' = srvSubs /\ log' = log
  BY Zenon DEF PumpPublishes, serverVars
<1>3. entry[e] \in Entry /\ inbox[e] \in Seq(1..MaxEvents)
  BY <1>1
<1>4. entry[e].got \in Seq(1..MaxEvents)
  BY <1>3, Zenon DEF Entry
<1>5. /\ Tail(inbox[e]) \in Seq(1..MaxEvents) /\ Head(inbox[e]) \in 1..MaxEvents
  BY <1>2, <1>3, HeadTailProperties
<1>6. g \in Seq(1..MaxEvents)
  <2>1. Append(entry[e].got, Head(inbox[e])) \in Seq(1..MaxEvents)
    BY <1>4, <1>5, AppendProperties
  <2> QED BY <1>4, <2>1, Zenon
<1> HIDE DEF g
<1>7. /\ t \in Entry /\ t.holders = entry[e].holders
      /\ t.uri = entry[e].uri /\ t.open = entry[e].open /\ t.status = entry[e].status
  BY <1>3, <1>6, FieldFacts, Zenon
<1> HIDE DEF t
<1>8. entry' \in [EntryIds -> Entry] /\ \A d \in EntryIds : EntryKept(d)
  BY <1>2, <1>7, OneEntryKept, Zenon
<1>9. inbox' \in [EntryIds -> Seq(1..MaxEvents)]
  BY <1>1, <1>2, <1>5
<1>10. Typed'
  BY <1>2, <1>8, <1>9, Zenon DEF Typed, TypeOK
<1> QED BY <1>2, <1>8, <1>10, Zenon DEF MapKept, DoneStays

\* The first message to the client, and what is behind it.
LEMMA ToClientTail ==
    ASSUME Typed, toClient # <<>>
    PROVE  /\ Len(toClient) \in Nat /\ 1 \in 1..Len(toClient) /\ Head(toClient) = toClient[1]
           /\ Head(toClient) \in ToClient
           /\ Head(toClient).m = "event" => Head(toClient).n \in 1..MaxEvents
           /\ Tail(toClient) \in Seq(ToClient) /\ Len(Tail(toClient)) = Len(toClient) - 1
           /\ \A i \in 1..Len(Tail(toClient)) :
                Tail(toClient)[i] = toClient[i + 1] /\ i + 1 \in 1..Len(toClient)
           /\ \A i \in 1..Len(toClient) :
                i = 1 \/ (i - 1 \in 1..Len(Tail(toClient)) /\ Tail(toClient)[i - 1] = toClient[i])
           /\ \A i \in 1..Len(Tail(toClient)) :
                Tail(toClient)[i].m = "event" => Tail(toClient)[i].n # 0
<1>1. toClient \in Seq(ToClient)
  BY Zenon DEF Typed
<1>2. /\ Len(toClient) \in Nat /\ 1 \in 1..Len(toClient) /\ Head(toClient) = toClient[1]
      /\ Tail(toClient) \in Seq(ToClient) /\ Len(Tail(toClient)) = Len(toClient) - 1
      /\ \A i \in 1..Len(Tail(toClient)) :
           Tail(toClient)[i] = toClient[i + 1] /\ i + 1 \in 1..Len(toClient)
      /\ \A i \in 1..Len(toClient) :
           i = 1 \/ (i - 1 \in 1..Len(Tail(toClient)) /\ Tail(toClient)[i - 1] = toClient[i])
  BY <1>1, TailFacts
<1>3. Head(toClient) \in ToClient
  BY <1>1, HeadTailProperties
<1>4. Head(toClient).m = "event" => Head(toClient).n # 0
  BY <1>2, Zenon DEF Typed
<1>5. Head(toClient).n \in 0..MaxEvents
  BY <1>3, Zenon DEF ToClient
<1>6. \A i \in 1..Len(Tail(toClient)) :
        Tail(toClient)[i].m = "event" => Tail(toClient)[i].n # 0
  BY <1>2, Zenon DEF Typed
<1>7. Head(toClient).m = "event" => Head(toClient).n \in 1..MaxEvents
  BY <1>4, <1>5, BoundAssumption
<1> QED BY <1>2, <1>3, <1>6, <1>7, Zenon

LEMMA ReceiveEventFacts ==
    ASSUME Typed, ReceiveEvent
    PROVE  Typed' /\ MapKept
<1>1. inbox \in [EntryIds -> Seq(1..MaxEvents)]
  BY Zenon DEF Typed, TypeOK
<1>2. /\ toClient # <<>> /\ Head(toClient).m = "event" /\ toClient' = Tail(toClient)
      /\ inbox' = [e \in EntryIds |-> IF e \in readers[Head(toClient).uri]
                                      THEN Append(inbox[e], Head(toClient).n) ELSE inbox[e]]
      /\ entries' = entries /\ entry' = entry /\ start' = start /\ pump' = pump
      /\ lastEntry' = lastEntry /\ lastHolder' = lastHolder /\ clientOpen' = clientOpen
      /\ readers' = readers /\ toServer' = toServer /\ srvSubs' = srvSubs /\ log' = log
  BY Zenon DEF ReceiveEvent, managerVars, serverVars
<1>3. /\ Head(toClient).n \in 1..MaxEvents /\ toClient' \in Seq(ToClient)
      /\ \A i \in 1..Len(toClient') : toClient'[i].m = "event" => toClient'[i].n # 0
  BY <1>2, ToClientTail, Zenon
<1>4. inbox' \in [EntryIds -> Seq(1..MaxEvents)]
  <2>1. \A e \in EntryIds : Append(inbox[e], Head(toClient).n) \in Seq(1..MaxEvents)
    BY <1>1, <1>3
  <2> QED BY <1>1, <1>2, <2>1, Zenon
<1>5. Typed'
  BY <1>2, <1>3, <1>4, Zenon DEF Typed, TypeOK
<1> QED BY <1>2, <1>5, Zenon DEF MapKept, EntryKept, DoneStays

LEMMA ReceiveAnswerFacts ==
    ASSUME Typed, ReceiveAnswer
    PROVE  Typed' /\ MapKept
<1> DEFINE e == Head(toClient).e
           n == Head(toClient).n
           s == IF Head(toClient).m = "result" THEN "answered" ELSE "rejected"
           t == [entry[e] EXCEPT !.result = n]
<1>1. /\ entry \in [EntryIds -> Entry]
      /\ start \in [EntryIds -> {"none", "waiting", "answered", "rejected", "done"}]
  BY Zenon DEF Typed, TypeOK
<1>2. /\ toClient # <<>> /\ toClient' = Tail(toClient)
      /\ entries' = entries /\ pump' = pump
      /\ lastEntry' = lastEntry /\ lastHolder' = lastHolder /\ clientOpen' = clientOpen
      /\ readers' = readers /\ inbox' = inbox /\ toServer' = toServer
      /\ srvSubs' = srvSubs /\ log' = log
  BY Zenon DEF ReceiveAnswer, clientVars, serverVars
<1>3. \/ /\ start[e] = "waiting" /\ start' = [start EXCEPT ![e] = s]
         /\ entry' = [entry EXCEPT ![e] = t]
      \/ start' = start /\ entry' = entry
  BY Zenon DEF ReceiveAnswer
<1>4. /\ Head(toClient) \in ToClient /\ toClient' \in Seq(ToClient)
      /\ \A i \in 1..Len(toClient') : toClient'[i].m = "event" => toClient'[i].n # 0
  BY <1>2, ToClientTail, Zenon
<1>5. n \in Int
  <2>1. n \in 0..MaxEvents
    BY <1>4, Zenon DEF ToClient
  <2> QED BY <2>1, BoundAssumption
<1>6. s \in {"answered", "rejected"}
  BY Zenon
<1> HIDE DEF e, n, s
<1>7. CASE e \in EntryIds /\ start[e] = "waiting" /\ start' = [start EXCEPT ![e] = s]
           /\ entry' = [entry EXCEPT ![e] = t]
  <2>1. entry[e] \in Entry
    BY <1>1, <1>7, Zenon
  <2>2. /\ t \in Entry /\ t.holders = entry[e].holders
        /\ t.uri = entry[e].uri /\ t.open = entry[e].open /\ t.status = entry[e].status
    BY <1>5, <2>1, FieldFacts, Zenon
  <2> HIDE DEF t
  <2>3. entry' \in [EntryIds -> Entry] /\ \A d \in EntryIds : EntryKept(d)
    BY <1>7, <2>2, OneEntryKept, Zenon
  <2>4. DoneStays /\ start' \in [EntryIds -> {"none", "waiting", "answered", "rejected", "done"}]
    BY <1>1, <1>6, <1>7 DEF DoneStays
  <2>5. Typed'
    BY <1>2, <1>4, <2>3, <2>4, Zenon DEF Typed, TypeOK
  <2> QED BY <1>2, <2>3, <2>4, <2>5, Zenon DEF MapKept
<1>8. CASE start' = start /\ entry' = entry
  <2>1. Typed'
    BY <1>2, <1>4, <1>8, Zenon DEF Typed, TypeOK
  <2> QED BY <1>2, <1>8, <2>1, Zenon DEF MapKept, EntryKept, DoneStays
<1>9. CASE e \notin EntryIds /\ start' = [start EXCEPT ![e] = s]
           /\ entry' = [entry EXCEPT ![e] = t]
  <2> HIDE DEF t
  <2>1. start' = start /\ entry' = entry
    BY <1>1, <1>9
  <2> QED BY <1>8, <2>1
<1> QED BY <1>3, <1>7, <1>8, <1>9, Zenon

LEMMA TimeoutFacts ==
    ASSUME Typed, \/ \E e \in EntryIds : RequestTimesOut(e)
                  \/ ClientEnds
    PROVE  Typed' /\ MapKept
<1>1. start \in [EntryIds -> {"none", "waiting", "answered", "rejected", "done"}]
  BY Zenon DEF Typed, TypeOK
<1>2. /\ entries' = entries /\ entry' = entry /\ pump' = pump
      /\ lastEntry' = lastEntry /\ lastHolder' = lastHolder /\ inbox' = inbox /\ log' = log
  BY Zenon DEF RequestTimesOut, ClientEnds, clientVars, serverVars
<1>3. DoneStays /\ start' \in [EntryIds -> {"none", "waiting", "answered", "rejected", "done"}]
  <2>1. CASE ClientEnds
    <3>1. start' = [e \in EntryIds |-> IF start[e] = "waiting" THEN "rejected" ELSE start[e]]
      BY <2>1, Zenon DEF ClientEnds
    <3> QED BY <1>1, <3>1 DEF DoneStays
  <2>2. CASE \E e \in EntryIds : RequestTimesOut(e)
    <3> PICK e \in EntryIds : RequestTimesOut(e)
      BY <2>2
    <3>1. start[e] = "waiting" /\ start' = [start EXCEPT ![e] = "rejected"]
      BY Zenon DEF RequestTimesOut
    <3> QED BY <1>1, <3>1 DEF DoneStays
  <2> QED BY <2>1, <2>2
<1>4. CASE ClientEnds
  <2>1. /\ clientOpen' = FALSE /\ readers' = [u \in Uris |-> {}]
        /\ toServer' = <<>> /\ toClient' = <<>> /\ srvSubs' = {}
    BY <1>4, Zenon DEF ClientEnds
  <2>2. /\ clientOpen' \in BOOLEAN /\ readers' \in [Uris -> SUBSET EntryIds]
        /\ toServer' \in Seq(ToServer) /\ toClient' \in Seq(ToClient) /\ srvSubs' \subseteq Uris
        /\ \A i \in 1..Len(toClient') : toClient'[i].m = "event" => toClient'[i].n # 0
    <3>1. /\ <<>> \in Seq(ToServer) /\ <<>> \in Seq(ToClient) /\ Len(<<>>) = 0
          /\ \A i \in 1..0 : FALSE
      BY EmptySeq
    <3>2. \A i \in 1..Len(toClient') : FALSE
      BY <2>1, <3>1, Zenon
    <3> QED BY <2>1, <3>1, <3>2, Zenon
  <2>3. Typed'
    BY <1>2, <1>3, <2>2, Zenon DEF Typed, TypeOK
  <2> QED BY <1>2, <1>3, <2>3, Zenon DEF MapKept, EntryKept
<1>5. CASE \E e \in EntryIds : RequestTimesOut(e)
  <2>1. /\ clientOpen' = clientOpen /\ readers' = readers
        /\ toServer' = toServer /\ toClient' = toClient /\ srvSubs' = srvSubs
    BY <1>5, Zenon DEF RequestTimesOut, clientVars, serverVars
  <2>2. Typed'
    BY <1>2, <1>3, <2>1, Zenon DEF Typed, TypeOK
  <2> QED BY <1>2, <1>3, <2>2, Zenon DEF MapKept, EntryKept
<1> QED BY <1>4, <1>5

\* The first message to the server, and what is behind it.
LEMMA ToServerTail ==
    ASSUME Typed, toServer # <<>>
    PROVE  /\ Len(toServer) \in Nat /\ 1 \in 1..Len(toServer) /\ Head(toServer) = toServer[1]
           /\ Head(toServer) \in ToServer /\ Head(toServer).uri \in Uris
           /\ Tail(toServer) \in Seq(ToServer) /\ Len(Tail(toServer)) = Len(toServer) - 1
           /\ \A i \in 1..Len(Tail(toServer)) :
                Tail(toServer)[i] = toServer[i + 1] /\ i + 1 \in 1..Len(toServer)
           /\ \A i \in 1..Len(toServer) :
                i = 1 \/ (i - 1 \in 1..Len(Tail(toServer)) /\ Tail(toServer)[i - 1] = toServer[i])
<1>1. toServer \in Seq(ToServer)
  BY Zenon DEF Typed
<1>2. /\ Len(toServer) \in Nat /\ 1 \in 1..Len(toServer) /\ Head(toServer) = toServer[1]
      /\ Tail(toServer) \in Seq(ToServer) /\ Len(Tail(toServer)) = Len(toServer) - 1
      /\ \A i \in 1..Len(Tail(toServer)) :
           Tail(toServer)[i] = toServer[i + 1] /\ i + 1 \in 1..Len(toServer)
      /\ \A i \in 1..Len(toServer) :
           i = 1 \/ (i - 1 \in 1..Len(Tail(toServer)) /\ Tail(toServer)[i - 1] = toServer[i])
  BY <1>1, TailFacts
<1>3. Head(toServer) \in ToServer
  BY <1>1, HeadTailProperties
<1>4. Head(toServer).uri \in Uris
  BY <1>3, Zenon DEF ToServer
<1> QED BY <1>2, <1>3, <1>4

\* A message is sent to the client.
LEMMA ToClientAppend ==
    ASSUME Typed, NEW x \in ToClient, toClient' = Append(toClient, x),
           x.m = "event" => x.n # 0
    PROVE  /\ toClient' \in Seq(ToClient) /\ Len(toClient') = Len(toClient) + 1
           /\ Len(toClient) \in Nat /\ Len(toClient) + 1 \in 1..Len(toClient')
           /\ toClient'[Len(toClient) + 1] = x
           /\ \A i \in 1..Len(toClient) : i \in 1..Len(toClient') /\ toClient'[i] = toClient[i]
           /\ \A i \in 1..Len(toClient') : i = Len(toClient) + 1 \/ i \in 1..Len(toClient)
           /\ \A i \in 1..Len(toClient') : toClient'[i].m = "event" => toClient'[i].n # 0
<1>1. toClient \in Seq(ToClient)
  BY Zenon DEF Typed
<1>2. /\ toClient' \in Seq(ToClient) /\ Len(toClient') = Len(toClient) + 1
      /\ toClient'[Len(toClient) + 1] = x
      /\ \A i \in 1..Len(toClient) : toClient'[i] = toClient[i]
  BY <1>1, AppendProperties
<1>3. Len(toClient) \in Nat
  BY <1>1
<1>4. /\ Len(toClient) + 1 \in 1..Len(toClient')
      /\ \A i \in 1..Len(toClient) : i \in 1..Len(toClient')
      /\ \A i \in 1..Len(toClient') : i = Len(toClient) + 1 \/ i \in 1..Len(toClient)
  BY <1>2, <1>3
<1>5. \A i \in 1..Len(toClient) : toClient[i].m = "event" => toClient[i].n # 0
  BY Zenon DEF Typed
<1>6. \A i \in 1..Len(toClient') : toClient'[i].m = "event" => toClient'[i].n # 0
  BY <1>2, <1>4, <1>5, Zenon
<1> QED BY <1>2, <1>3, <1>4, <1>6

\* The answer of the server to the request at the head of the wire.
Answer(ok) == [m |-> IF ok THEN "result" ELSE "error", uri |-> Head(toServer).uri,
               e |-> Head(toServer).e, n |-> log[Head(toServer).uri]]

LEMMA AnswerFacts ==
    ASSUME Typed, toServer # <<>>, NEW ok \in BOOLEAN
    PROVE  /\ Answer(ok) \in ToClient /\ Answer(ok).e = Head(toServer).e
           /\ Answer(ok).m \in {"result", "error"} /\ (~ok => Answer(ok).m = "error")
<1>1. Head(toServer).uri \in Uris /\ Head(toServer) \in ToServer
  BY ToServerTail
<1>2. Head(toServer).e \in EntryIds \cup {None}
  BY <1>1, Zenon DEF ToServer
<1>3. log[Head(toServer).uri] \in 0..MaxEvents
  BY <1>1 DEF Typed
<1> DEFINE u == Head(toServer).uri
           d == Head(toServer).e
           n == log[u]
<1> HIDE DEF u, d, n
<1>4. Answer(ok) = [m |-> IF ok THEN "result" ELSE "error", uri |-> u, e |-> d, n |-> n]
  BY Zenon DEF Answer, u, d, n
<1>5. u \in Uris /\ d \in EntryIds \cup {None} /\ n \in 0..MaxEvents
  BY <1>1, <1>2, <1>3 DEF u, d, n
<1>6. /\ Answer(ok) \in ToClient /\ Answer(ok).e = d
      /\ Answer(ok).m \in {"result", "error"} /\ (~ok => Answer(ok).m = "error")
  BY <1>4, <1>5, SMT DEF ToClient
<1> QED BY <1>6 DEF d

LEMMA ServerFacts ==
    ASSUME Typed, \/ \E ok \in BOOLEAN : ServerAnswers(ok)
                  \/ ServerUnsubscribes
                  \/ \E u \in Uris : ServerPublishes(u)
    PROVE  Typed' /\ MapKept
<1>1. /\ entries' = entries /\ entry' = entry /\ start' = start /\ pump' = pump
      /\ lastEntry' = lastEntry /\ lastHolder' = lastHolder
      /\ clientOpen' = clientOpen /\ readers' = readers /\ inbox' = inbox
  BY Zenon DEF ServerAnswers, ServerUnsubscribes, ServerPublishes, managerVars, clientVars
<1>2. MapKept
  BY <1>1, Zenon DEF MapKept, EntryKept, DoneStays
<1>3. srvSubs \subseteq Uris /\ log \in [Uris -> 0..MaxEvents]
  BY Zenon DEF Typed
<1>4. ASSUME NEW ok \in BOOLEAN, ServerAnswers(ok)
      PROVE  Typed'
  <2>1. /\ toServer # <<>> /\ toServer' = Tail(toServer) /\ log' = log
        /\ srvSubs' = IF ok THEN srvSubs \cup {Head(toServer).uri} ELSE srvSubs
        /\ toClient' = Append(toClient, Answer(ok))
    BY <1>4, Zenon DEF ServerAnswers, Answer
  <2>2. toServer' \in Seq(ToServer) /\ srvSubs' \subseteq Uris
    BY <1>3, <2>1, ToServerTail
  <2>3. Answer(ok) \in ToClient /\ (Answer(ok).m = "event" => Answer(ok).n # 0)
    BY <2>1, AnswerFacts
  <2>4. /\ toClient' \in Seq(ToClient)
        /\ \A i \in 1..Len(toClient') : toClient'[i].m = "event" => toClient'[i].n # 0
    BY <2>1, <2>3, ToClientAppend
  <2> QED BY <1>1, <2>1, <2>2, <2>4, Zenon DEF Typed, TypeOK
<1>5. ASSUME ServerUnsubscribes
      PROVE  Typed'
  <2>1. /\ toServer # <<>> /\ toServer' = Tail(toServer) /\ log' = log /\ toClient' = toClient
        /\ srvSubs' = srvSubs \ {Head(toServer).uri}
    BY <1>5, Zenon DEF ServerUnsubscribes
  <2>2. toServer' \in Seq(ToServer) /\ srvSubs' \subseteq Uris
    BY <1>3, <2>1, ToServerTail
  <2> QED BY <1>1, <2>1, <2>2, Zenon DEF Typed, TypeOK
<1>6. ASSUME NEW u \in Uris, ServerPublishes(u)
      PROVE  Typed'
  <2> DEFINE x == [m |-> "event", uri |-> u, e |-> None, n |-> log[u] + 1]
  <2>1. /\ log[u] < MaxEvents /\ log' = [log EXCEPT ![u] = log[u] + 1]
        /\ toServer' = toServer /\ srvSubs' = srvSubs
        /\ toClient' = Append(toClient, x) \/ toClient' = toClient
    BY <1>6, Zenon DEF ServerPublishes
  <2>2. log[u] + 1 \in 0..MaxEvents /\ log[u] + 1 # 0
    BY <1>3, <2>1, BoundAssumption
  <2>3. log' \in [Uris -> 0..MaxEvents]
    BY <1>3, <2>1, <2>2
  <2>4. x \in ToClient /\ x.n # 0
    BY <2>2, SMT DEF ToClient
  <2> HIDE DEF x
  <2>5. /\ toClient' \in Seq(ToClient)
        /\ \A i \in 1..Len(toClient') : toClient'[i].m = "event" => toClient'[i].n # 0
    <3>1. CASE toClient' = Append(toClient, x)
      BY <2>4, <3>1, ToClientAppend
    <3>2. CASE toClient' = toClient
      BY <3>2, Zenon DEF Typed
    <3> QED BY <2>1, <3>1, <3>2
  <2> QED BY <1>1, <2>1, <2>3, <2>5, Zenon DEF Typed, TypeOK
<1> QED BY <1>2, <1>4, <1>5, <1>6, Zenon

-----------------------------------------------------------------------------
(* The map and the life of its entries.                                    *)

\* Made entries are entries, and only made entries are in the map.
LEMMA MadeEntries ==
    ASSUME Typed
    PROVE  /\ lastEntry \in Nat /\ \A e \in 1..lastEntry : e \in EntryIds
           /\ \A e \in EntryIds : e # None /\ e \in Nat /\ entry[e].uri \in Uris
           /\ MapPoints => \A e \in EntryIds : Current(e) => e \in 1..lastEntry
<1>1. lastEntry \in Nat /\ \A e \in 1..lastEntry : e \in EntryIds
  BY BoundAssumption DEF Typed, EntryIds
<1>2. \A e \in EntryIds : e # None /\ e \in Nat
  BY BoundAssumption DEF EntryIds, None
<1>3. \A e \in EntryIds : entry[e].uri \in Uris
  BY Zenon DEF Typed, TypeOK, Entry
<1> QED BY <1>1, <1>2, <1>3, Zenon DEF MapPoints, Current

LEMMA KeptKeeps ==
    ASSUME Mapped, MapKept
    PROVE  MapPoints' /\ Lifecycle' /\ ActiveIsStarted'
<1>1. /\ lastEntry \in Nat /\ \A e \in 1..lastEntry : e \in EntryIds
  BY MadeEntries DEF Mapped
<1>2. /\ entries' = entries /\ lastEntry' = lastEntry
      /\ \A e \in EntryIds : /\ entry'[e].uri = entry[e].uri
                             /\ entry'[e].status = entry[e].status
                             /\ entry'[e].open = entry[e].open
                             /\ Current(e) /\ entry[e].holders # {} => entry'[e].holders # {}
                             /\ Current(e)' <=> Current(e)
  BY Zenon DEF MapKept, EntryKept, Current
<1>3. MapPoints'
  BY <1>1, <1>2, Zenon DEF Mapped, MapPoints
<1>4. Lifecycle'
  BY <1>1, <1>2, Zenon DEF Mapped, Lifecycle
<1>5. ActiveIsStarted'
  BY <1>2, Zenon DEF Mapped, ActiveIsStarted, MapKept, DoneStays
<1> QED BY <1>3, <1>4, <1>5

LEMMA LeftKeeps ==
    ASSUME Mapped, NEW us, MapLeft(us)
    PROVE  MapPoints' /\ Lifecycle' /\ ActiveIsStarted'
<1>1. /\ lastEntry \in Nat /\ \A e \in 1..lastEntry : e \in EntryIds
      /\ \A e \in EntryIds : e # None /\ entry[e].uri \in Uris
  BY MadeEntries DEF Mapped
<1>2. \A e \in EntryIds : entry'[e].uri = entry[e].uri
  BY Zenon DEF MapLeft, EntryKept
<1>3. \A u \in Uris : entries'[u] = IF u \in us THEN None ELSE entries[u]
  BY Zenon DEF MapLeft
<1>4. \A e \in EntryIds : Current(e)' <=> Current(e) /\ entry[e].uri \notin us
  BY <1>1, <1>2, <1>3, Zenon DEF Current
<1>5. lastEntry' = lastEntry
  BY Zenon DEF MapLeft
<1>6. MapPoints'
  <2> SUFFICES ASSUME NEW u \in Uris, entries'[u] # None
               PROVE  entries'[u] \in 1..lastEntry /\ entry'[entries'[u]].uri = u
    BY <1>5, Zenon DEF MapPoints
  <2>1. entries'[u] = entries[u]
    BY <1>3, Zenon
  <2>2. entries[u] \in 1..lastEntry /\ entry[entries[u]].uri = u
    BY <2>1, Zenon DEF Mapped, MapPoints
  <2> QED BY <1>1, <1>2, <2>1, <2>2, Zenon
<1>7. Lifecycle'
  <2> SUFFICES ASSUME NEW e \in 1..lastEntry
               PROVE  /\ Current(e)' => /\ entry'[e].status \in {"pending", "active"}
                                        /\ entry'[e].open /\ entry'[e].holders # {}
                      /\ ~Current(e)' => /\ entry'[e].status \in {"failed", "closed"}
                                         /\ ~entry'[e].open
    BY <1>5, Zenon DEF Lifecycle
  <2>1. e \in EntryIds
    BY <1>1
  <2>2. CASE Current(e) /\ entry[e].uri \in us
    BY <1>4, <2>1, <2>2, Zenon DEF MapLeft
  <2>3. CASE ~(Current(e) /\ entry[e].uri \in us)
    <3>1. EntryKept(e) /\ (Current(e)' <=> Current(e))
      BY <1>4, <2>1, <2>3, Zenon DEF MapLeft
    <3> QED BY <3>1, Zenon DEF EntryKept, Mapped, Lifecycle
  <2> QED BY <2>2, <2>3
<1>8. ActiveIsStarted'
  <2> SUFFICES ASSUME NEW e \in EntryIds, entry'[e].status = "active"
               PROVE  start'[e] = "done"
    BY Zenon DEF ActiveIsStarted
  <2>1. CASE Current(e) /\ entry[e].uri \in us
    <3>1. entry'[e].status \in {"failed", "closed"}
      BY <2>1, Zenon DEF MapLeft
    <3> QED BY <3>1
  <2>2. CASE ~(Current(e) /\ entry[e].uri \in us)
    <3>1. EntryKept(e)
      BY <2>2, Zenon DEF MapLeft
    <3> QED BY <3>1, Zenon DEF EntryKept, Mapped, ActiveIsStarted, MapLeft, DoneStays
  <2> QED BY <2>1, <2>2
<1> QED BY <1>6, <1>7, <1>8

LEMMA JoinedKeeps ==
    ASSUME Mapped, NEW u \in Uris, MapJoined(u)
    PROVE  MapPoints' /\ Lifecycle' /\ ActiveIsStarted'
<1> DEFINE e == lastEntry + 1
<1>1. /\ lastEntry \in Nat /\ \A d \in 1..lastEntry : d \in EntryIds
      /\ \A d \in EntryIds : d # None /\ entry[d].uri \in Uris
  BY MadeEntries DEF Mapped
<1>2. /\ entries[u] = None /\ e \in EntryIds /\ lastEntry' = e
      /\ entries' = [entries EXCEPT ![u] = e]
      /\ entry'[e].uri = u /\ entry'[e].status = "pending" /\ entry'[e].open
      /\ entry'[e].holders # {}
      /\ \A d \in EntryIds \ {e} : entry'[d] = entry[d] /\ start'[d] = start[d]
  BY Zenon DEF MapJoined
<1>3. \A d \in 1..lastEntry' : d = e \/ (d \in 1..lastEntry /\ d # e)
  BY <1>1, <1>2
<1>4. \A d \in 1..lastEntry : d \in 1..lastEntry' /\ d # e
  BY <1>1, <1>2
<1>5. e \in 1..lastEntry'
  BY <1>1, <1>2
<1> HIDE DEF e
<1>6. entries'[u] = e /\ \A v \in Uris : v # u => entries'[v] = entries[v]
  <2>1. entries \in [Uris -> EntryIds \cup {None}]
    BY Zenon DEF Mapped, Typed, TypeOK
  <2> QED BY <1>2, <2>1, Zenon
<1>7. MapPoints'
  <2> SUFFICES ASSUME NEW v \in Uris, entries'[v] # None
               PROVE  entries'[v] \in 1..lastEntry' /\ entry'[entries'[v]].uri = v
    BY Zenon DEF MapPoints
  <2>1. CASE v = u
    BY <1>2, <1>5, <1>6, <2>1, Zenon
  <2>2. CASE v # u
    <3>1. entries'[v] = entries[v]
      BY <1>6, <2>2, Zenon
    <3>2. entries[v] \in 1..lastEntry /\ entry[entries[v]].uri = v
      BY <3>1, Zenon DEF Mapped, MapPoints
    <3> QED BY <1>1, <1>2, <1>4, <3>1, <3>2, Zenon
  <2> QED BY <2>1, <2>2
<1>8. \A d \in 1..lastEntry : Current(d)' <=> Current(d)
  <2> SUFFICES ASSUME NEW d \in 1..lastEntry PROVE Current(d)' <=> Current(d)
    BY Zenon
  <2>1. d \in EntryIds /\ d # e /\ d # None /\ entry'[d] = entry[d] /\ entry[d].uri \in Uris
    BY <1>1, <1>2, <1>4, Zenon
  <2>2. CASE entry[d].uri = u
    BY <1>2, <1>6, <2>1, <2>2, Zenon DEF Current
  <2>3. CASE entry[d].uri # u
    BY <1>6, <2>1, <2>3, Zenon DEF Current
  <2> QED BY <2>2, <2>3
<1>9. Lifecycle'
  <2> SUFFICES ASSUME NEW d \in 1..lastEntry'
               PROVE  /\ Current(d)' => /\ entry'[d].status \in {"pending", "active"}
                                        /\ entry'[d].open /\ entry'[d].holders # {}
                      /\ ~Current(d)' => /\ entry'[d].status \in {"failed", "closed"}
                                         /\ ~entry'[d].open
    BY Zenon DEF Lifecycle
  <2>1. CASE d = e
    <3>1. Current(d)'
      BY <1>2, <1>6, <2>1, Zenon DEF Current
    <3> QED BY <1>2, <2>1, <3>1, Zenon
  <2>2. CASE d # e
    <3>1. d \in 1..lastEntry
      BY <1>3, <2>2, Zenon
    <3>2. entry'[d] = entry[d]
      BY <1>1, <1>2, <2>2, <3>1, Zenon
    <3> QED BY <1>8, <3>1, <3>2, Zenon DEF Mapped, Lifecycle
  <2> QED BY <2>1, <2>2
<1>10. ActiveIsStarted'
  <2> SUFFICES ASSUME NEW d \in EntryIds, entry'[d].status = "active"
               PROVE  start'[d] = "done"
    BY Zenon DEF ActiveIsStarted
  <2>1. d # e
    BY <1>2
  <2> QED BY <1>2, <2>1, Zenon DEF Mapped, ActiveIsStarted
<1> QED BY <1>7, <1>9, <1>10

LEMMA ActivatedKeeps ==
    ASSUME Mapped, NEW e \in EntryIds, MapActivated(e)
    PROVE  MapPoints' /\ Lifecycle' /\ ActiveIsStarted'
<1>1. /\ \A d \in 1..lastEntry : d \in EntryIds
      /\ \A d \in EntryIds : d # None /\ entry[d].uri \in Uris
      /\ \A d \in EntryIds : Current(d) => d \in 1..lastEntry
  BY MadeEntries, Zenon DEF Mapped
<1>2. /\ entries' = entries /\ lastEntry' = lastEntry /\ Current(e) /\ start'[e] = "done"
      /\ entry'[e].uri = entry[e].uri /\ entry'[e].open = entry[e].open
      /\ entry'[e].holders = entry[e].holders
      /\ entry[e].status = "pending" => entry'[e].status = "active"
      /\ entry[e].status # "pending" => entry'[e].status = entry[e].status
      /\ \A d \in EntryIds \ {e} : entry'[d] = entry[d] /\ start'[d] = start[d]
  BY Zenon DEF MapActivated
<1>3. \A d \in EntryIds : entry'[d].uri = entry[d].uri /\ (Current(d)' <=> Current(d))
  BY <1>2, Zenon DEF Current
<1>4. MapPoints'
  BY <1>1, <1>2, <1>3, Zenon DEF Mapped, MapPoints
<1>5. entry'[e].status \in {"pending", "active"} /\ entry'[e].open /\ entry'[e].holders # {}
  BY <1>1, <1>2, Zenon DEF Mapped, Lifecycle
<1>6. Lifecycle'
  BY <1>1, <1>2, <1>3, <1>5, Zenon DEF Mapped, Lifecycle
<1>7. ActiveIsStarted'
  BY <1>2, Zenon DEF Mapped, ActiveIsStarted
<1> QED BY <1>4, <1>6, <1>7

LEMMA MappedInit == Init => Mapped
<1> SUFFICES ASSUME Init PROVE Mapped
  OBVIOUS
<1>1. Unmade \in Entry /\ Unmade.status = "unused"
  BY UnmadeFacts
<1>2. /\ entries = [u \in Uris |-> None] /\ entry = [e \in EntryIds |-> Unmade]
      /\ start = [e \in EntryIds |-> "none"] /\ pump = [e \in EntryIds |-> "none"]
      /\ lastEntry = 0 /\ lastHolder = 0 /\ clientOpen = TRUE
      /\ readers = [u \in Uris |-> {}] /\ inbox = [e \in EntryIds |-> <<>>]
      /\ toServer = <<>> /\ toClient = <<>> /\ srvSubs = {} /\ log = [u \in Uris |-> 0]
  BY Zenon DEF Init
<1>3. TypeOK
  <2>1. <<>> \in Seq(1..MaxEvents)
    OBVIOUS
  <2> QED BY <1>1, <1>2, <2>1, Zenon DEF TypeOK
<1>4. /\ lastEntry \in 0..MaxEntries /\ lastHolder \in 0..MaxLeases /\ 0 \in 0..MaxEvents
  BY <1>2, BoundAssumption
<1>5. toServer \in Seq(ToServer) /\ toClient \in Seq(ToClient) /\ Len(toClient) = 0
  BY <1>2
<1>6. \A i \in 1..Len(toClient) : toClient[i].m = "event" => toClient[i].n # 0
  BY <1>5
<1>7. Typed
  BY <1>2, <1>3, <1>4, <1>5, <1>6, Zenon DEF Typed
<1>8. MapPoints /\ ActiveIsStarted
  BY <1>1, <1>2 DEF MapPoints, ActiveIsStarted
<1>9. Lifecycle
  BY <1>2 DEF Lifecycle
<1> QED BY <1>7, <1>8, <1>9 DEF Mapped

\* Every step keeps the map and the life of its entries in agreement.
LEMMA MappedStep == Mapped /\ [Next]_vars => Mapped'
<1> SUFFICES ASSUME Mapped, [Next]_vars PROVE Mapped'
  OBVIOUS
<1>1. Typed /\ MapPoints /\ Lifecycle /\ ActiveIsStarted
  BY DEF Mapped
<1>2. ASSUME Typed', MapKept PROVE Mapped'
  BY <1>2, KeptKeeps DEF Mapped
<1>3. ASSUME Typed', NEW us, MapLeft(us) PROVE Mapped'
  BY <1>3, LeftKeeps DEF Mapped
<1>4. ASSUME NEW u \in Uris, NEW o \in Options, AcquireFirst(u, o) PROVE Mapped'
  BY <1>1, <1>4, AcquireFirstFacts, JoinedKeeps DEF Mapped
<1>5. CASE \/ \E u \in Uris, o \in Options : AcquireShared(u, o)
           \/ \E e \in EntryIds, l \in 1..MaxLeases : ReleaseShared(e, l)
  BY <1>1, <1>2, <1>5, SharedFacts
<1>6. ASSUME NEW e \in EntryIds, NEW l \in 1..MaxLeases, ReleaseLast(e, l) PROVE Mapped'
  BY <1>1, <1>3, <1>6, ReleaseLastFacts
<1>7. CASE Close
  BY <1>1, <1>3, <1>7, CloseFacts
<1>8. ASSUME NEW e \in EntryIds, StartActivates(e) PROVE Mapped'
  BY <1>1, <1>8, StartActivatesFacts, ActivatedKeeps DEF Mapped
<1>9. ASSUME NEW e \in EntryIds, StartDiscards(e) \/ StartIgnored(e) PROVE Mapped'
  BY <1>1, <1>2, <1>9, StartLateFacts
<1>10. ASSUME NEW e \in EntryIds, StartFails(e) PROVE Mapped'
  BY <1>1, <1>3, <1>10, StartFailsFacts
<1>11. ASSUME NEW e \in EntryIds, PumpPublishes(e) PROVE Mapped'
  BY <1>1, <1>2, <1>11, PumpPublishesFacts
<1>12. ASSUME NEW e \in EntryIds, PumpEnds(e) PROVE Mapped'
  BY <1>1, <1>2, <1>3, <1>12, PumpEndsFacts
<1>13. CASE ClientEnds \/ \E e \in EntryIds : RequestTimesOut(e)
  BY <1>1, <1>2, <1>13, TimeoutFacts
<1>14. CASE ReceiveEvent
  BY <1>1, <1>2, <1>14, ReceiveEventFacts
<1>15. CASE ReceiveAnswer
  BY <1>1, <1>2, <1>15, ReceiveAnswerFacts
<1>16. CASE \/ \E ok \in BOOLEAN : ServerAnswers(ok)
            \/ ServerUnsubscribes
            \/ \E u \in Uris : ServerPublishes(u)
  BY <1>1, <1>2, <1>16, ServerFacts
<1>17. CASE UNCHANGED vars
  <2>1. /\ entries' = entries /\ entry' = entry /\ start' = start /\ pump' = pump
        /\ lastEntry' = lastEntry /\ lastHolder' = lastHolder /\ clientOpen' = clientOpen
        /\ readers' = readers /\ inbox' = inbox /\ toServer' = toServer
        /\ toClient' = toClient /\ srvSubs' = srvSubs /\ log' = log
    BY <1>17, Zenon DEF vars, managerVars, clientVars, serverVars
  <2>2. Typed'
    BY <1>1, <2>1, Zenon DEF Typed, TypeOK
  <2>3. MapKept
    BY <2>1, Zenon DEF MapKept, EntryKept, DoneStays
  <2> QED BY <1>2, <2>2, <2>3
<1> QED
  BY <1>4, <1>5, <1>6, <1>7, <1>8, <1>9, <1>10, <1>11, <1>12, <1>13, <1>14, <1>15, <1>16,
     <1>17, Zenon DEF Next

LEMMA AlwaysMapped == Spec => []Mapped
  BY MappedInit, MappedStep, PTL DEF Spec

\* An entry is in the map exactly while it is pending or active, open and held:
\* no answer, timeout, end of a pump, release or close() that comes late revives
\* an entry that has left the map or ends one that has not.
THEOREM MapAgrees == Spec => []MapMatchesLifecycle
<1>1. Mapped => MapMatchesLifecycle
  BY Zenon DEF Mapped, Typed, Lifecycle, MapMatchesLifecycle
<1> QED BY <1>1, AlwaysMapped, PTL

-----------------------------------------------------------------------------
(* What the server holds after a part of the wire.                         *)

\* HeldAfter for a wire q and a server that holds S.
Held(q, S, u, i) ==
    \/ /\ u \in S
       /\ \A k \in 1..i : q[k].uri # u
    \/ \E j \in 1..i : /\ q[j].uri = u /\ q[j].m = "subscribe"
                       /\ \A k \in (j + 1)..i : q[k].uri # u

LEMMA HeldIs == \A u, i : /\ HeldAfter(u, i) <=> Held(toServer, srvSubs, u, i)
                          /\ HeldAfter(u, i)' <=> Held(toServer', srvSubs', u, i)
  BY Zenon DEF HeldAfter, Held

\* The last message on the wire decides, unless it is of another URI.
LEMMA HeldLast ==
    ASSUME NEW q, NEW S, NEW u, NEW n \in Nat
    PROVE  Held(q, S, u, n + 1) <=>
              IF q[n + 1].uri = u THEN q[n + 1].m = "subscribe" ELSE Held(q, S, u, n)
<1>1. /\ \A k \in 1..(n + 1) : k = n + 1 \/ k \in 1..n
      /\ \A k \in 1..n : k \in 1..(n + 1) /\ k \in Nat
      /\ n + 1 \in 1..(n + 1)
  OBVIOUS
<1>2. /\ \A j \in 1..n : /\ n + 1 \in (j + 1)..(n + 1)
                         /\ \A k \in (j + 1)..(n + 1) : k = n + 1 \/ k \in (j + 1)..n
                         /\ \A k \in (j + 1)..n : k \in (j + 1)..(n + 1)
      /\ \A k \in (n + 1 + 1)..(n + 1) : FALSE
  OBVIOUS
<1>3. CASE q[n + 1].uri = u
  <2>1. ASSUME q[n + 1].m = "subscribe" PROVE Held(q, S, u, n + 1)
    BY <1>1, <1>2, <1>3, <2>1, Zenon DEF Held
  <2>2. ASSUME Held(q, S, u, n + 1) PROVE q[n + 1].m = "subscribe"
    <3>1. PICK j \in 1..(n + 1) : /\ q[j].uri = u /\ q[j].m = "subscribe"
                                  /\ \A k \in (j + 1)..(n + 1) : q[k].uri # u
      BY <1>1, <1>3, <2>2, Zenon DEF Held
    <3>2. j = n + 1
      BY <1>1, <1>2, <1>3, <3>1, Zenon
    <3> QED BY <3>1, <3>2, Zenon
  <2> QED BY <1>3, <2>1, <2>2
<1>4. CASE q[n + 1].uri # u
  <2>1. ASSUME Held(q, S, u, n) PROVE Held(q, S, u, n + 1)
    BY <1>1, <1>2, <1>4, <2>1, Zenon DEF Held
  <2>2. ASSUME Held(q, S, u, n + 1) PROVE Held(q, S, u, n)
    <3>1. CASE u \in S /\ \A k \in 1..(n + 1) : q[k].uri # u
      BY <1>1, <3>1, Zenon DEF Held
    <3>2. CASE \E j \in 1..(n + 1) : /\ q[j].uri = u /\ q[j].m = "subscribe"
                                     /\ \A k \in (j + 1)..(n + 1) : q[k].uri # u
      BY <1>1, <1>2, <1>4, <3>2, Zenon DEF Held
    <3> QED BY <2>2, <3>1, <3>2, Zenon DEF Held
  <2> QED BY <1>4, <2>1, <2>2
<1> QED BY <1>3, <1>4

\* Only the first i messages matter.
LEMMA HeldPrefix ==
    ASSUME NEW q, NEW r, NEW S, NEW u, NEW i \in Nat, \A k \in 1..i : r[k] = q[k]
    PROVE  Held(r, S, u, i) <=> Held(q, S, u, i)
<1>1. \A j \in 1..i : \A k \in (j + 1)..i : k \in 1..i
  OBVIOUS
<1>2. (\A k \in 1..i : r[k].uri # u) <=> (\A k \in 1..i : q[k].uri # u)
  BY Zenon
<1>3. ASSUME NEW j \in 1..i
      PROVE  (\A k \in (j + 1)..i : r[k].uri # u) <=> (\A k \in (j + 1)..i : q[k].uri # u)
  BY <1>1, Zenon
<1>4. ASSUME NEW j \in 1..i
      PROVE  (/\ r[j].uri = u /\ r[j].m = "subscribe"
              /\ \A k \in (j + 1)..i : r[k].uri # u)
                <=> (/\ q[j].uri = u /\ q[j].m = "subscribe"
                     /\ \A k \in (j + 1)..i : q[k].uri # u)
  BY <1>3, Zenon
<1> QED BY <1>2, <1>4, Zenon DEF Held

\* The server handles the first message: what it holds in the end is the same.
LEMMA HeldTail ==
    ASSUME NEW q, NEW r, NEW S, NEW T, NEW u, NEW i \in Nat, i > 0,
           \A k \in 1..(i - 1) : r[k] = q[k + 1],
           u \in T <=> IF q[1].uri = u THEN q[1].m = "subscribe" ELSE u \in S
    PROVE  Held(r, T, u, i - 1) <=> Held(q, S, u, i)
<1>1. /\ 1 \in 1..i /\ \A k \in 1..i : k = 1 \/ (k - 1 \in 1..(i - 1) /\ (k - 1) + 1 = k)
      /\ \A k \in 1..(i - 1) : k + 1 \in 1..i /\ k + 1 # 1
  OBVIOUS
<1>2. /\ \A j \in 1..i : \A k \in (j + 1)..i :
            k - 1 \in ((j - 1) + 1)..(i - 1) /\ k - 1 \in 1..(i - 1) /\ (k - 1) + 1 = k
      /\ \A j \in 1..(i - 1) : \A k \in (j + 1)..(i - 1) :
            k + 1 \in ((j + 1) + 1)..i /\ k \in 1..(i - 1)
      /\ \A k \in (1 + 1)..i : k \in 1..i /\ k # 1
      /\ \A k \in 1..(i - 1) : k + 1 \in (1 + 1)..i
  OBVIOUS
<1>3. ASSUME Held(r, T, u, i - 1) PROVE Held(q, S, u, i)
  <2>1. CASE u \in T /\ \A k \in 1..(i - 1) : r[k].uri # u
    <3>1. ASSUME NEW k \in 1..i, k # 1 PROVE q[k].uri # u
      <4>1. k - 1 \in 1..(i - 1) /\ (k - 1) + 1 = k
        BY <1>1, <3>1, Zenon
      <4>2. r[k - 1] = q[(k - 1) + 1] /\ r[k - 1].uri # u
        BY <2>1, <4>1, Zenon
      <4> QED BY <4>1, <4>2, Zenon
    <3>2. CASE q[1].uri = u
      <4>1. q[1].m = "subscribe" /\ \A k \in (1 + 1)..i : q[k].uri # u
        BY <1>2, <2>1, <3>1, <3>2, Zenon
      <4> QED BY <1>1, <3>2, <4>1, Zenon DEF Held
    <3>3. CASE q[1].uri # u
      BY <2>1, <3>1, <3>3, Zenon DEF Held
    <3> QED BY <3>2, <3>3
  <2>2. CASE \E j \in 1..(i - 1) : /\ r[j].uri = u /\ r[j].m = "subscribe"
                                   /\ \A k \in (j + 1)..(i - 1) : r[k].uri # u
    <3> PICK j \in 1..(i - 1) : /\ r[j].uri = u /\ r[j].m = "subscribe"
                                /\ \A k \in (j + 1)..(i - 1) : r[k].uri # u
      BY <2>2
    <3>1. j + 1 \in 1..i /\ q[j + 1].uri = u /\ q[j + 1].m = "subscribe"
      BY <1>1, Zenon
    <3>2. \A k \in ((j + 1) + 1)..i : k - 1 \in (j + 1)..(i - 1) /\ k - 1 \in 1..(i - 1)
                                      /\ (k - 1) + 1 = k
      OBVIOUS
    <3>3. \A k \in ((j + 1) + 1)..i : q[k].uri # u
      BY <3>2, Zenon
    <3> QED BY <3>1, <3>3, Zenon DEF Held
  <2> QED BY <1>3, <2>1, <2>2, Zenon DEF Held
<1>4. ASSUME Held(q, S, u, i) PROVE Held(r, T, u, i - 1)
  <2>1. CASE u \in S /\ \A k \in 1..i : q[k].uri # u
    BY <1>1, <2>1, Zenon DEF Held
  <2>2. CASE \E j \in 1..i : /\ q[j].uri = u /\ q[j].m = "subscribe"
                             /\ \A k \in (j + 1)..i : q[k].uri # u
    <3> PICK j \in 1..i : /\ q[j].uri = u /\ q[j].m = "subscribe"
                          /\ \A k \in (j + 1)..i : q[k].uri # u
      BY <2>2
    <3>1. CASE j = 1
      <4>1. u \in T
        BY <3>1, Zenon
      <4>2. \A k \in 1..(i - 1) : r[k].uri # u
        BY <1>2, <3>1, Zenon
      <4> QED BY <4>1, <4>2, Zenon DEF Held
    <3>2. CASE j # 1
      <4>1. j - 1 \in 1..(i - 1) /\ (j - 1) + 1 = j
        BY <3>2
      <4>2. r[j - 1].uri = u /\ r[j - 1].m = "subscribe"
        BY <4>1, Zenon
      <4>3. \A k \in ((j - 1) + 1)..(i - 1) : k + 1 \in (j + 1)..i /\ k \in 1..(i - 1)
        BY <4>1
      <4>4. \A k \in ((j - 1) + 1)..(i - 1) : r[k].uri # u
        BY <4>3, Zenon
      <4> QED BY <4>1, <4>2, <4>4, Zenon DEF Held
    <3> QED BY <3>1, <3>2
  <2> QED BY <1>4, <2>1, <2>2, Zenon DEF Held
<1> QED BY <1>3, <1>4

\* A URI with a message behind the first is held or not whatever happens to the
\* first.
LEMMA HeldRegardless ==
    ASSUME NEW q, NEW S, NEW T, NEW u, NEW i \in Nat,
           \E k \in 1..i : q[k].uri = u
    PROVE  Held(q, S, u, i) <=> Held(q, T, u, i)
  BY Zenon DEF Held

\* The URIs us are unsubscribed from at the end of the wire.
LEMMA HeldTold ==
    ASSUME NEW q, NEW r, NEW S, NEW us, NEW u, NEW n \in Nat, NEW N \in Nat, n <= N,
           \A k \in 1..n : r[k] = q[k],
           \A k \in (n + 1)..N : r[k].m = "unsubscribe" /\ r[k].uri \in us,
           \A v \in us : \E k \in (n + 1)..N : r[k].uri = v
    PROVE  Held(r, S, u, N) <=> u \notin us /\ Held(q, S, u, n)
<1>1. /\ \A k \in 1..N : k \in 1..n \/ k \in (n + 1)..N
      /\ \A k \in 1..n : k \in 1..N
      /\ \A k \in (n + 1)..N : k \in 1..N
  OBVIOUS
<1>2. \A j \in 1..n : /\ \A k \in (j + 1)..N : k \in (j + 1)..n \/ k \in (n + 1)..N
                      /\ \A k \in (j + 1)..n : k \in (j + 1)..N
                      /\ \A k \in (n + 1)..N : k \in (j + 1)..N
  OBVIOUS
<1>3. Held(r, S, u, n) <=> Held(q, S, u, n)
  BY HeldPrefix
<1>4. ASSUME Held(r, S, u, N) PROVE u \notin us /\ Held(r, S, u, n)
  <2>1. CASE u \in S /\ \A k \in 1..N : r[k].uri # u
    BY <1>1, <2>1, Zenon DEF Held
  <2>2. CASE \E j \in 1..N : /\ r[j].uri = u /\ r[j].m = "subscribe"
                             /\ \A k \in (j + 1)..N : r[k].uri # u
    <3> PICK j \in 1..N : /\ r[j].uri = u /\ r[j].m = "subscribe"
                          /\ \A k \in (j + 1)..N : r[k].uri # u
      BY <2>2
    <3>1. j \in 1..n
      <4>1. "subscribe" # "unsubscribe"
        OBVIOUS
      <4> QED BY <1>1, <4>1, Zenon
    <3> QED BY <1>2, <3>1, Zenon DEF Held
  <2> QED BY <1>4, <2>1, <2>2, Zenon DEF Held
<1>5. ASSUME u \notin us, Held(r, S, u, n) PROVE Held(r, S, u, N)
  <2>1. \A k \in (n + 1)..N : r[k].uri # u
    BY <1>5, Zenon
  <2>2. CASE u \in S /\ \A k \in 1..n : r[k].uri # u
    <3>1. \A k \in 1..N : r[k].uri # u
      BY <1>1, <2>1, <2>2, Zenon
    <3> QED BY <2>2, <3>1, Zenon DEF Held
  <2>3. CASE \E j \in 1..n : /\ r[j].uri = u /\ r[j].m = "subscribe"
                             /\ \A k \in (j + 1)..n : r[k].uri # u
    <3> PICK j \in 1..n : /\ r[j].uri = u /\ r[j].m = "subscribe"
                          /\ \A k \in (j + 1)..n : r[k].uri # u
      BY <2>3
    <3>1. j \in 1..N /\ \A k \in (j + 1)..N : r[k].uri # u
      BY <1>1, <1>2, <2>1, Zenon
    <3> QED BY <3>1, Zenon DEF Held
  <2> QED BY <1>5, <2>2, <2>3, Zenon DEF Held
<1> QED BY <1>3, <1>4, <1>5

-----------------------------------------------------------------------------
(* The wire and the map.                                                   *)

\* How start() moves in a step that does not receive an answer.
StartMoves ==
    \A e \in EntryIds :
        \/ start'[e] = start[e]
        \/ start[e] = "waiting" /\ start'[e] = "rejected"
        \/ start[e] = "answered" /\ start'[e] = "done"
        \/ start[e] = "rejected" /\ start'[e] = "done" /\ ~Current(e)'

\* An entry that has left the map does not come back.
NoneReturns == \A e \in 1..lastEntry : Current(e)' => Current(e)

\* The answers on their way are the same, d places further on.
AnswersKept(d) ==
    /\ \A i \in 1..Len(toClient') : toClient'[i].m # "event" =>
          i + d \in 1..Len(toClient) /\ toClient'[i] = toClient[i + d]
    /\ \A i \in 1..Len(toClient) : toClient[i].m # "event" =>
          i - d \in 1..Len(toClient') /\ toClient'[i - d] = toClient[i]

Wire == AskedOnce /\ LastAsks /\ HeldIsMapped /\ MappedIsHeld /\ NoneAskedTwice

\* The entry of a URI in the map.
LEMMA MappedEntry ==
    ASSUME Mapped, NEW u \in Uris, entries[u] # None
    PROVE  /\ entries[u] \in 1..lastEntry /\ entries[u] \in EntryIds
           /\ entry[entries[u]].uri = u /\ Current(entries[u])
<1>1. entries[u] \in 1..lastEntry /\ entry[entries[u]].uri = u
  BY Zenon DEF Mapped, MapPoints
<1>2. entries[u] \in EntryIds
  BY <1>1, MadeEntries, Zenon DEF Mapped
<1> QED BY <1>1, <1>2, Zenon DEF Current

\* A step that leaves the wire to the server, the map and the answers alone.
LEMMA WireSame ==
    ASSUME Mapped, Mapped', Wire, NEW d \in {0, 1}, AnswersKept(d), StartMoves, NoneReturns,
           entries' = entries, lastEntry' = lastEntry, toServer' = toServer, srvSubs' = srvSubs
    PROVE  Wire'
<1>1. Typed /\ lastEntry \in Nat /\ \A e \in 1..lastEntry : e \in EntryIds
  BY MadeEntries DEF Mapped
<1>2. \A i : Asks(i)' <=> Asks(i)
  BY Zenon DEF Asks
<1>3. \A u, i : HeldAfter(u, i)' <=> HeldAfter(u, i)
  BY HeldIs, Zenon
<1>4. ASSUME NEW i \in 1..Len(toServer), Asks(i)
      PROVE  /\ toServer[i].e \in 1..lastEntry
             /\ \/ start'[toServer[i].e] \in {"waiting", "rejected"}
                \/ start'[toServer[i].e] = "done" /\ ~Current(toServer[i].e)'
  <2> DEFINE e == toServer[i].e
  <2>1. /\ e \in 1..lastEntry /\ e \in EntryIds
        /\ start[e] \in {"waiting", "rejected"} \/ (start[e] = "done" /\ ~Current(e))
    BY <1>1, <1>4, Zenon DEF Wire, AskedOnce, AsksWait
  <2>2. /\ Current(e)' => Current(e)
        /\ \/ start'[e] = start[e]
           \/ start[e] = "waiting" /\ start'[e] = "rejected"
           \/ start[e] = "answered" /\ start'[e] = "done"
           \/ start[e] = "rejected" /\ start'[e] = "done" /\ ~Current(e)'
    BY <2>1, Zenon DEF NoneReturns, StartMoves
  <2> HIDE DEF e
  <2>3. \/ start'[e] \in {"waiting", "rejected"}
        \/ start'[e] = "done" /\ ~Current(e)'
    BY <2>1, <2>2
  <2> QED BY <2>1, <2>3 DEF e
<1>5. \A i \in 1..Len(toClient') : Answers(i)' =>
        i + d \in 1..Len(toClient) /\ Answers(i + d) /\ toClient'[i] = toClient[i + d]
  BY DEF Answers, AnswersKept
<1>6. Len(toClient') \in Nat
  BY DEF Mapped, Typed
<1>7. AskedOnce'
  <2>1. ASSUME NEW i \in 1..Len(toClient'), NEW j \in 1..Len(toClient'), Answers(i)',
               Answers(j)', toClient'[i].e = toClient'[j].e
        PROVE  i = j
    <3>1. i + d = j + d
      BY <1>5, <2>1, Zenon DEF Wire, AskedOnce, AnsweredOnce
    <3> QED BY <1>6, <3>1
  <2>2. AnsweredOnce'
    BY <2>1, Zenon DEF AnsweredOnce
  <2>3. ASSUME NEW i \in 1..Len(toServer), NEW j \in 1..Len(toClient'), Asks(i), Answers(j)'
        PROVE  toServer[i].e # toClient'[j].e
    <3>1. j + d \in 1..Len(toClient) /\ Answers(j + d) /\ toClient'[j] = toClient[j + d]
      BY <1>5, <2>3, Zenon
    <3> QED BY <2>3, <3>1, Zenon DEF Wire, AskedOnce, SentOrAnswered
  <2>4. SentOrAnswered'
    BY <1>2, <2>3, Zenon DEF SentOrAnswered
  <2>5. AnswersMade'
    BY <1>5, Zenon DEF Wire, AskedOnce, AnswersMade
  <2>6. SentOnce'
    BY <1>2, Zenon DEF Wire, AskedOnce, SentOnce
  <2>7. AsksWait'
    BY <1>2, <1>4, Zenon DEF AsksWait
  <2> QED BY <2>2, <2>4, <2>5, <2>6, <2>7 DEF AskedOnce
<1>8. LastAsks'
  BY <1>2, Zenon DEF Wire, LastAsks
<1>9. HeldIsMapped'
  BY <1>3, Zenon DEF Wire, HeldIsMapped
<1>10. NoneAskedTwice'
  BY <1>3, Zenon DEF Wire, NoneAskedTwice
<1>11. MappedIsHeld'
  <2> SUFFICES ASSUME NEW u \in Uris, entries[u] # None, ~HeldAfter(u, Len(toServer))
               PROVE  \/ start'[entries[u]] = "rejected"
                      \/ /\ start'[entries[u]] = "waiting"
                         /\ \E j \in 1..Len(toClient') :
                              toClient'[j].m = "error" /\ toClient'[j].e = entries[u]
    BY <1>3, Zenon DEF MappedIsHeld
  <2> DEFINE e == entries[u]
  <2>1. e \in EntryIds /\ Current(e)'
    <3>1. entries'[u] # None
      BY Zenon
    <3>2. entries'[u] \in 1..lastEntry' /\ entry'[entries'[u]].uri = u
      BY <3>1, Zenon DEF Mapped, MapPoints
    <3> QED BY <1>1, <3>2, Zenon DEF Current
  <2>2. \/ start[e] = "rejected"
        \/ /\ start[e] = "waiting"
           /\ \E j \in 1..Len(toClient) : toClient[j].m = "error" /\ toClient[j].e = e
    BY Zenon DEF Wire, MappedIsHeld
  <2>3. \/ start'[e] = start[e]
        \/ start[e] = "waiting" /\ start'[e] = "rejected"
        \/ start[e] = "answered" /\ start'[e] = "done"
    BY <2>1, Zenon DEF StartMoves
  <2>4. ASSUME NEW j \in 1..Len(toClient), toClient[j].m = "error", toClient[j].e = e
        PROVE  \E k \in 1..Len(toClient') : toClient'[k].m = "error" /\ toClient'[k].e = e
    <3>1. toClient[j].m # "event"
      BY <2>4
    <3>2. j - d \in 1..Len(toClient') /\ toClient'[j - d] = toClient[j]
      BY <3>1, Zenon DEF AnswersKept
    <3> QED BY <2>4, <3>2, Zenon
  <2> HIDE DEF e
  <2>5. CASE start[e] = "rejected"
    BY <2>3, <2>5 DEF e
  <2>6. CASE start[e] = "waiting"
    <3>1. start[e] # "rejected" /\ start[e] # "answered"
      BY <2>6
    <3> QED BY <2>2, <2>3, <2>4, <2>6, <3>1, Zenon DEF e
  <2> QED BY <2>2, <2>5, <2>6
<1> QED BY <1>7, <1>8, <1>9, <1>10, <1>11 DEF Wire

\* An answer is received: it is for the one entry that it answers.
LEMMA WireAnswered ==
    ASSUME Mapped, Mapped', Wire, ReceiveAnswer
    PROVE  Wire'
<1> DEFINE d == Head(toClient).e
<1>1. Typed /\ lastEntry \in Nat /\ (\A e \in 1..lastEntry : e \in EntryIds)
      /\ start \in [EntryIds -> {"none", "waiting", "answered", "rejected", "done"}]
  BY MadeEntries, Zenon DEF Mapped, Typed, TypeOK
<1>2. /\ toClient # <<>> /\ toClient' = Tail(toClient) /\ entries' = entries
      /\ Head(toClient).m \in {"result", "error"}
      /\ lastEntry' = lastEntry /\ toServer' = toServer /\ srvSubs' = srvSubs
  BY Zenon DEF ReceiveAnswer, serverVars
<1>3. /\ 1 \in 1..Len(toClient) /\ Head(toClient) = toClient[1]
      /\ \A i \in 1..Len(toClient') : toClient'[i] = toClient[i + 1] /\ i + 1 \in 1..Len(toClient)
      /\ \A i \in 1..Len(toClient) :
           i = 1 \/ (i - 1 \in 1..Len(toClient') /\ toClient'[i - 1] = toClient[i])
  BY <1>1, <1>2, ToClientTail, Zenon
<1>4. Answers(1) /\ d \in 1..lastEntry /\ d \in EntryIds
  BY <1>1, <1>2, <1>3, Zenon DEF Answers, Wire, AskedOnce, AnswersMade
<1>5. /\ \A e \in EntryIds : e # d \/ start[e] # "waiting" => start'[e] = start[e]
      /\ start[d] = "waiting" /\ Head(toClient).m = "error" => start'[d] = "rejected"
  <2>1. \/ /\ start[d] = "waiting"
           /\ start' = [start EXCEPT ![d] = IF Head(toClient).m = "result"
                                            THEN "answered" ELSE "rejected"]
        \/ start[d] # "waiting" /\ start' = start
    BY Zenon DEF ReceiveAnswer
  <2>2. "error" # "result"
    OBVIOUS
  <2> HIDE DEF d
  <2> QED BY <1>1, <1>4, <2>1, <2>2, Zenon
<1>6. \A e \in EntryIds : Current(e)' <=> Current(e)
  <2>1. MapKept
    BY <1>1, ReceiveAnswerFacts
  <2> QED BY <2>1, Zenon DEF MapKept, EntryKept, Current
<1> HIDE DEF d
<1>7. \A i : Asks(i)' <=> Asks(i)
  BY <1>2, Zenon DEF Asks
<1>8. \A u, i : HeldAfter(u, i)' <=> HeldAfter(u, i)
  BY <1>2, HeldIs, Zenon
<1>9. \A i \in 1..Len(toClient') : Answers(i)' =>
        i + 1 \in 1..Len(toClient) /\ Answers(i + 1) /\ toClient'[i] = toClient[i + 1]
  BY <1>3, Zenon DEF Answers
<1>10. ASSUME NEW i \in 1..Len(toServer), Asks(i) PROVE toServer[i].e # d
  <2>1. toClient[1].e = d
    BY <1>3, Zenon DEF d
  <2>2. toServer[i].e # toClient[1].e
    BY <1>3, <1>4, <1>10, Zenon DEF Wire, AskedOnce, SentOrAnswered
  <2> QED BY <2>1, <2>2, Zenon
<1>11. AskedOnce'
  <2>1. SentOnce'
    BY <1>2, <1>7, Zenon DEF Wire, AskedOnce, SentOnce
  <2>2. ASSUME NEW i \in 1..Len(toClient'), NEW j \in 1..Len(toClient'), Answers(i)',
               Answers(j)', toClient'[i].e = toClient'[j].e
        PROVE  i = j
    <3>1. i + 1 = j + 1
      BY <1>9, <2>2, Zenon DEF Wire, AskedOnce, AnsweredOnce
    <3>2. i \in Int /\ j \in Int
      OBVIOUS
    <3> QED BY <3>1, <3>2
  <2>3. AnsweredOnce'
    BY <2>2, Zenon DEF AnsweredOnce
  <2>4. ASSUME NEW i \in 1..Len(toServer), NEW j \in 1..Len(toClient'), Asks(i), Answers(j)'
        PROVE  toServer[i].e # toClient'[j].e
    <3>1. j + 1 \in 1..Len(toClient) /\ Answers(j + 1) /\ toClient'[j] = toClient[j + 1]
      BY <1>9, <2>4, Zenon
    <3> QED BY <2>4, <3>1, Zenon DEF Wire, AskedOnce, SentOrAnswered
  <2>5. SentOrAnswered'
    BY <1>2, <1>7, <2>4, Zenon DEF SentOrAnswered
  <2>6. AnswersMade'
    BY <1>2, <1>9, Zenon DEF Wire, AskedOnce, AnswersMade
  <2>7. ASSUME NEW i \in 1..Len(toServer), Asks(i)
        PROVE  /\ toServer[i].e \in 1..lastEntry
               /\ \/ start'[toServer[i].e] \in {"waiting", "rejected"}
                  \/ start'[toServer[i].e] = "done" /\ ~Current(toServer[i].e)'
    <3>1. /\ toServer[i].e \in 1..lastEntry
          /\ \/ start[toServer[i].e] \in {"waiting", "rejected"}
             \/ start[toServer[i].e] = "done" /\ ~Current(toServer[i].e)
      BY <2>7, Zenon DEF Wire, AskedOnce, AsksWait
    <3>2. toServer[i].e \in EntryIds /\ toServer[i].e # d
      BY <1>1, <1>10, <2>7, <3>1, Zenon
    <3>3. /\ start'[toServer[i].e] = start[toServer[i].e]
          /\ (Current(toServer[i].e)' <=> Current(toServer[i].e))
      BY <1>2, <1>5, <1>6, <3>2, Zenon
    <3> QED BY <3>1, <3>3, Zenon
  <2>8. AsksWait'
    BY <1>2, <1>7, <2>7, Zenon DEF AsksWait
  <2> QED BY <2>1, <2>3, <2>5, <2>6, <2>8 DEF AskedOnce
<1>12. LastAsks'
  BY <1>2, <1>7, Zenon DEF Wire, LastAsks
<1>13. HeldIsMapped'
  BY <1>2, <1>8, Zenon DEF Wire, HeldIsMapped
<1>14. NoneAskedTwice'
  BY <1>2, <1>8, Zenon DEF Wire, NoneAskedTwice
<1>15. MappedIsHeld'
  <2> SUFFICES ASSUME NEW u \in Uris, entries[u] # None, ~HeldAfter(u, Len(toServer))
               PROVE  \/ start'[entries[u]] = "rejected"
                      \/ /\ start'[entries[u]] = "waiting"
                         /\ \E j \in 1..Len(toClient') :
                              toClient'[j].m = "error" /\ toClient'[j].e = entries[u]
    BY <1>2, <1>8, Zenon DEF MappedIsHeld
  <2> DEFINE e == entries[u]
  <2>1. e \in EntryIds
    BY MappedEntry
  <2>2. \/ start[e] = "rejected"
        \/ /\ start[e] = "waiting"
           /\ \E j \in 1..Len(toClient) : toClient[j].m = "error" /\ toClient[j].e = e
    BY Zenon DEF Wire, MappedIsHeld
  <2> HIDE DEF e
  <2>3. CASE start[e] = "rejected"
    <3>1. start[e] # "waiting"
      BY <2>3
    <3> QED BY <1>5, <2>1, <2>3, <3>1, Zenon DEF e
  <2>4. CASE /\ start[e] = "waiting"
             /\ \E j \in 1..Len(toClient) : toClient[j].m = "error" /\ toClient[j].e = e
    <3> PICK j \in 1..Len(toClient) : toClient[j].m = "error" /\ toClient[j].e = e
      BY <2>4
    <3>1. CASE j = 1
      BY <1>3, <1>5, <2>4, <3>1, Zenon DEF d, e
    <3>2. CASE j # 1
      <4>1. j - 1 \in 1..Len(toClient') /\ toClient'[j - 1] = toClient[j]
        BY <1>3, <3>2, Zenon
      <4>2. e # d
        <5>1. Answers(j)
          BY Zenon DEF Answers
        <5> QED BY <1>3, <1>4, <3>2, <5>1, Zenon DEF Wire, AskedOnce, AnsweredOnce, d
      <4> QED BY <1>5, <2>1, <2>4, <4>1, <4>2, Zenon DEF e
    <3> QED BY <3>1, <3>2
  <2> QED BY <2>2, <2>3, <2>4
<1> QED BY <1>11, <1>12, <1>13, <1>14, <1>15 DEF Wire

\* Every part of the wire but the first message, one place further on.
LEMMA AsksTail ==
    ASSUME Typed, toServer # <<>>, toServer' = Tail(toServer)
    PROVE  /\ \A i \in 1..Len(toServer') :
                /\ i \in Nat /\ i + 1 \in 1..Len(toServer) /\ i + 1 # 1 /\ i \in 1..Len(toServer)
                /\ toServer'[i] = toServer[i + 1] /\ (Asks(i)' <=> Asks(i + 1))
                /\ (\A k \in (i + 1)..Len(toServer') : toServer'[k].uri # toServer'[i].uri)
                      => \A k \in ((i + 1) + 1)..Len(toServer) :
                            toServer[k].uri # toServer[i + 1].uri
           /\ Len(toServer') = Len(toServer) - 1 /\ Len(toServer) \in Nat /\ Len(toServer) > 0
<1>1. /\ Len(toServer) \in Nat /\ 1 \in 1..Len(toServer)
      /\ Len(toServer') = Len(toServer) - 1
      /\ \A i \in 1..Len(toServer') : toServer'[i] = toServer[i + 1] /\ i + 1 \in 1..Len(toServer)
      /\ \A i \in 1..Len(toServer) :
           i = 1 \/ (i - 1 \in 1..Len(toServer') /\ toServer'[i - 1] = toServer[i])
  BY ToServerTail
<1>2. Len(toServer) > 0 /\ Len(toServer') \in Nat
  BY <1>1
<1>3. ASSUME NEW i \in 1..Len(toServer')
      PROVE  /\ i \in Nat /\ i + 1 # 1 /\ i \in 1..Len(toServer)
             /\ (Asks(i)' <=> Asks(i + 1))
  <2>1. i \in Nat /\ i + 1 # 1 /\ i \in 1..Len(toServer)
    BY <1>1, <1>2
  <2>2. Asks(i)' <=> Asks(i + 1)
    BY <1>1, Zenon DEF Asks
  <2> QED BY <2>1, <2>2
<1>4. ASSUME NEW i \in 1..Len(toServer'),
             \A k \in (i + 1)..Len(toServer') : toServer'[k].uri # toServer'[i].uri,
             NEW k \in ((i + 1) + 1)..Len(toServer)
      PROVE  toServer[k].uri # toServer[i + 1].uri
  <2>1. k \in 1..Len(toServer) /\ k # 1 /\ k - 1 \in (i + 1)..Len(toServer')
    BY <1>1, <1>2
  <2>2. toServer'[k - 1] = toServer[k] /\ toServer'[i] = toServer[i + 1]
    BY <1>1, <2>1, Zenon
  <2>3. toServer'[k - 1].uri # toServer'[i].uri
    BY <1>4, <2>1, Zenon
  <2> QED BY <2>2, <2>3, Zenon
<1> QED BY <1>1, <1>2, <1>3, <1>4, Zenon

\* The server handles a message: what it accepted or gave up it holds or not.
LEMMA WireHandled ==
    ASSUME Mapped, Wire, toServer # <<>>, toServer' = Tail(toServer),
           entries' = entries, entry' = entry, start' = start, lastEntry' = lastEntry,
           \/ toClient' = toClient
           \/ \E ok \in BOOLEAN : toClient' = Append(toClient, Answer(ok)) /\ Asks(1)
    PROVE  AskedOnce' /\ LastAsks'
<1>1. Typed
  BY DEF Mapped
<1>2. /\ \A i \in 1..Len(toServer') :
           /\ i + 1 \in 1..Len(toServer) /\ i + 1 # 1 /\ i \in Nat
           /\ toServer'[i] = toServer[i + 1] /\ (Asks(i)' <=> Asks(i + 1))
           /\ (\A k \in (i + 1)..Len(toServer') : toServer'[k].uri # toServer'[i].uri)
                 => \A k \in ((i + 1) + 1)..Len(toServer) :
                       toServer[k].uri # toServer[i + 1].uri
      /\ Len(toServer) \in Nat /\ 1 \in 1..Len(toServer) /\ Head(toServer) = toServer[1]
  BY <1>1, AsksTail, ToServerTail, Zenon
<1>3. \A e : Current(e)' <=> Current(e)
  BY Zenon DEF Current
<1>4. SentOnce'
  <2> SUFFICES ASSUME NEW i \in 1..Len(toServer'), NEW j \in 1..Len(toServer'), Asks(i)',
                      Asks(j)', toServer'[i].e = toServer'[j].e
               PROVE  i = j
    BY Zenon DEF SentOnce
  <2>1. i + 1 = j + 1
    BY <1>2, Zenon DEF Wire, AskedOnce, SentOnce
  <2>2. i \in Nat /\ j \in Nat
    BY <1>2, Zenon
  <2> QED BY <2>1, <2>2
<1>5. AsksWait'
  <2> SUFFICES ASSUME NEW i \in 1..Len(toServer'), Asks(i)'
               PROVE  /\ toServer'[i].e \in 1..lastEntry
                      /\ \/ start[toServer'[i].e] \in {"waiting", "rejected"}
                         \/ start[toServer'[i].e] = "done" /\ ~Current(toServer'[i].e)
    BY <1>3, Zenon DEF AsksWait
  <2>1. i + 1 \in 1..Len(toServer) /\ Asks(i + 1) /\ toServer'[i] = toServer[i + 1]
    BY <1>2, Zenon
  <2> QED BY <2>1, Zenon DEF Wire, AskedOnce, AsksWait
<1>6. LastAsks'
  <2> SUFFICES ASSUME NEW i \in 1..Len(toServer'), Asks(i)',
                      \A k \in (i + 1)..Len(toServer') : toServer'[k].uri # toServer'[i].uri
               PROVE  entries[toServer'[i].uri] = toServer'[i].e
    BY Zenon DEF LastAsks
  <2>1. /\ i + 1 \in 1..Len(toServer) /\ Asks(i + 1) /\ toServer'[i] = toServer[i + 1]
        /\ \A k \in ((i + 1) + 1)..Len(toServer) : toServer[k].uri # toServer[i + 1].uri
    BY <1>2, Zenon
  <2> QED BY <2>1, Zenon DEF Wire, LastAsks
<1>7. ASSUME toClient' = toClient
      PROVE  AnsweredOnce' /\ SentOrAnswered' /\ AnswersMade'
  <2>1. \A j : Answers(j)' <=> Answers(j)
    BY <1>7, Zenon DEF Answers
  <2>2. AnsweredOnce'
    BY <1>7, <2>1, Zenon DEF Wire, AskedOnce, AnsweredOnce
  <2>3. AnswersMade'
    BY <1>7, <2>1, Zenon DEF Wire, AskedOnce, AnswersMade
  <2>4. SentOrAnswered'
    <3> SUFFICES ASSUME NEW i \in 1..Len(toServer'), NEW j \in 1..Len(toClient), Asks(i)',
                        Answers(j)
                 PROVE  toServer'[i].e # toClient[j].e
      BY <1>7, <2>1, Zenon DEF SentOrAnswered
    <3>1. i + 1 \in 1..Len(toServer) /\ Asks(i + 1) /\ toServer'[i] = toServer[i + 1]
      BY <1>2, Zenon
    <3> QED BY <3>1, Zenon DEF Wire, AskedOnce, SentOrAnswered
  <2> QED BY <2>2, <2>3, <2>4
<1>8. ASSUME NEW ok \in BOOLEAN, toClient' = Append(toClient, Answer(ok)), Asks(1)
      PROVE  AnsweredOnce' /\ SentOrAnswered' /\ AnswersMade'
  <2> DEFINE n == Len(toClient) + 1
             a == toServer[1].e
  <2>1. Answer(ok) \in ToClient /\ Answer(ok).e = a /\ Answer(ok).m \in {"result", "error"}
    BY <1>1, <1>2, AnswerFacts, Zenon
  <2>2. Answer(ok).m = "event" => Answer(ok).n # 0
    BY <2>1
  <2>3. /\ n \in 1..Len(toClient') /\ toClient'[n] = Answer(ok)
        /\ \A i \in 1..Len(toClient) : i \in 1..Len(toClient') /\ toClient'[i] = toClient[i]
        /\ \A i \in 1..Len(toClient') : i = n \/ i \in 1..Len(toClient)
    BY <1>1, <1>8, <2>1, <2>2, ToClientAppend, Zenon
  <2> HIDE DEF n, a
  <2>4. \A j \in 1..Len(toClient) : Answers(j)' <=> Answers(j)
    BY <2>3, Zenon DEF Answers
  <2>5. \A j \in 1..Len(toClient) : Answers(j) => toClient[j].e # a
    BY <1>2, <1>8, Zenon DEF Wire, AskedOnce, SentOrAnswered, a
  <2>6. \A i \in 1..Len(toServer') : Asks(i)' => toServer'[i].e # a
    BY <1>2, <1>8, Zenon DEF Wire, AskedOnce, SentOnce, a
  <2>7. a \in 1..lastEntry
    BY <1>2, <1>8, Zenon DEF Wire, AskedOnce, AsksWait, a
  <2>8. AnsweredOnce'
    <3> SUFFICES ASSUME NEW i \in 1..Len(toClient'), NEW j \in 1..Len(toClient'), Answers(i)',
                        Answers(j)', toClient'[i].e = toClient'[j].e
                 PROVE  i = j
      BY Zenon DEF AnsweredOnce
    <3>1. CASE i = n
      BY <2>1, <2>3, <2>4, <2>5, <3>1, Zenon
    <3>2. CASE j = n
      BY <2>1, <2>3, <2>4, <2>5, <3>2, Zenon
    <3>3. CASE i # n /\ j # n
      <4>1. /\ i \in 1..Len(toClient) /\ j \in 1..Len(toClient) /\ Answers(i) /\ Answers(j)
            /\ toClient[i].e = toClient[j].e
        BY <2>3, <2>4, <3>3, Zenon
      <4> QED BY <4>1, Zenon DEF Wire, AskedOnce, AnsweredOnce
    <3> QED BY <3>1, <3>2, <3>3
  <2>9. AnswersMade'
    <3> SUFFICES ASSUME NEW j \in 1..Len(toClient'), Answers(j)'
                 PROVE  toClient'[j].e \in 1..lastEntry
      BY Zenon DEF AnswersMade
    <3>1. CASE j = n
      BY <2>1, <2>3, <2>7, <3>1, Zenon
    <3>2. CASE j # n
      <4>1. j \in 1..Len(toClient) /\ Answers(j) /\ toClient'[j] = toClient[j]
        BY <2>3, <2>4, <3>2, Zenon
      <4> QED BY <4>1, Zenon DEF Wire, AskedOnce, AnswersMade
    <3> QED BY <3>1, <3>2
  <2>10. SentOrAnswered'
    <3> SUFFICES ASSUME NEW i \in 1..Len(toServer'), NEW j \in 1..Len(toClient'), Asks(i)',
                        Answers(j)'
                 PROVE  toServer'[i].e # toClient'[j].e
      BY Zenon DEF SentOrAnswered
    <3>1. i + 1 \in 1..Len(toServer) /\ Asks(i + 1) /\ toServer'[i] = toServer[i + 1]
      BY <1>2, Zenon
    <3>2. CASE j = n
      BY <2>1, <2>3, <2>6, <3>2, Zenon
    <3>3. CASE j # n
      <4>1. j \in 1..Len(toClient) /\ Answers(j) /\ toClient'[j] = toClient[j]
        BY <2>3, <2>4, <3>3, Zenon
      <4> QED BY <3>1, <4>1, Zenon DEF Wire, AskedOnce, SentOrAnswered
    <3> QED BY <3>2, <3>3
  <2> QED BY <2>8, <2>9, <2>10
<1>9. AnsweredOnce' /\ SentOrAnswered' /\ AnswersMade'
  BY <1>7, <1>8, Zenon
<1> QED BY <1>4, <1>5, <1>6, <1>9 DEF AskedOnce

\* A server that holds more will hold more.
LEMMA HeldFewer ==
    ASSUME NEW q, NEW S, NEW T, NEW u, NEW i, u \in S => u \in T, Held(q, S, u, i)
    PROVE  Held(q, T, u, i)
  BY Zenon DEF Held

\* HeldTail for the wire to the server.
LEMMA HeldHandled ==
    ASSUME Typed, toServer # <<>>, toServer' = Tail(toServer), NEW T, NEW u,
           u \in T <=> IF toServer[1].uri = u THEN toServer[1].m = "subscribe" ELSE u \in srvSubs
    PROVE  \A i \in 1..Len(toServer) : Held(toServer', T, u, i - 1) <=> HeldAfter(u, i)
<1> SUFFICES ASSUME NEW i \in 1..Len(toServer)
             PROVE  Held(toServer', T, u, i - 1) <=> HeldAfter(u, i)
  OBVIOUS
<1>1. Len(toServer) \in Nat /\ Len(toServer') = Len(toServer) - 1
  BY ToServerTail
<1>2. i \in Nat /\ i > 0 /\ \A k \in 1..(i - 1) : k \in 1..Len(toServer')
  BY <1>1
<1>3. \A k \in 1..(i - 1) : toServer'[k] = toServer[k + 1]
  BY <1>2, ToServerTail, Zenon
<1>4. Held(toServer', T, u, i - 1) <=> Held(toServer, srvSubs, u, i)
  BY <1>2, <1>3, HeldTail, Zenon
<1> QED BY <1>4, HeldIs, Zenon

\* The server handles a message.  A subscription that it refuses it did not hold,
\* and the entry that waits for it is told by the answer.
LEMMA WireServed ==
    ASSUME Mapped, Wire, (\E ok \in BOOLEAN : ServerAnswers(ok)) \/ ServerUnsubscribes
    PROVE  Wire'
<1> DEFINE h == toServer[1]
           T == IF h.m = "subscribe" THEN srvSubs \cup {h.uri} ELSE srvSubs \ {h.uri}
<1>1. Typed /\ lastEntry \in Nat
  BY MadeEntries DEF Mapped
<1>2. /\ toServer # <<>> /\ toServer' = Tail(toServer) /\ entries' = entries /\ entry' = entry
      /\ start' = start /\ lastEntry' = lastEntry
  BY Zenon DEF ServerAnswers, ServerUnsubscribes, managerVars
<1>3. /\ Len(toServer) \in Nat /\ 1 \in 1..Len(toServer) /\ Head(toServer) = h
      /\ h.uri \in Uris /\ Len(toServer') = Len(toServer) - 1
      /\ \A i \in 1..Len(toServer') : toServer'[i] = toServer[i + 1] /\ i + 1 \in 1..Len(toServer)
  BY <1>1, <1>2, ToServerTail, Zenon
<1>4. Len(toServer') \in Nat /\ Len(toServer) \in 1..Len(toServer)
      /\ (\A i \in 1..Len(toServer') : (i + 1) - 1 = i)
  BY <1>3
<1>5. \/ /\ h.m = "subscribe" /\ srvSubs' = T
         /\ \E ok \in BOOLEAN : toClient' = Append(toClient, Answer(ok))
      \/ /\ h.m = "subscribe" /\ srvSubs' = srvSubs
         /\ toClient' = Append(toClient, Answer(FALSE))
      \/ h.m = "unsubscribe" /\ srvSubs' = T /\ toClient' = toClient
  <2>1. ASSUME NEW ok \in BOOLEAN, ServerAnswers(ok)
        PROVE  /\ h.m = "subscribe" /\ toClient' = Append(toClient, Answer(ok))
               /\ srvSubs' = IF ok THEN T ELSE srvSubs
    <3>1. /\ Head(toServer).m = "subscribe" /\ toClient' = Append(toClient, Answer(ok))
          /\ srvSubs' = IF ok THEN srvSubs \cup {Head(toServer).uri} ELSE srvSubs
      BY <2>1, Zenon DEF ServerAnswers, Answer
    <3> QED BY <1>3, <3>1, Zenon
  <2>2. ASSUME ServerUnsubscribes
        PROVE  h.m = "unsubscribe" /\ srvSubs' = T /\ toClient' = toClient
    <3>1. /\ Head(toServer).m = "unsubscribe" /\ toClient' = toClient
          /\ srvSubs' = srvSubs \ {Head(toServer).uri}
      BY <2>2, Zenon DEF ServerUnsubscribes
    <3>2. "unsubscribe" # "subscribe"
      OBVIOUS
    <3> QED BY <1>3, <3>1, <3>2, Zenon
  <2> QED BY <2>1, <2>2, Zenon
<1>6. \A u : /\ u \in T <=> IF h.uri = u THEN h.m = "subscribe" ELSE u \in srvSubs
             /\ h.m = "subscribe" /\ u \in srvSubs => u \in T
  BY Zenon
<1> HIDE DEF T, h
<1>7. AskedOnce' /\ LastAsks'
  <2>1. Asks(1) <=> h.m = "subscribe"
    BY <1>3, Zenon DEF Asks, h
  <2> QED BY <1>2, <1>5, <2>1, WireHandled, Zenon
<1>8. \A u : \A i \in 1..Len(toServer) : Held(toServer', T, u, i - 1) <=> HeldAfter(u, i)
  BY <1>1, <1>2, <1>6, HeldHandled, Zenon DEF h
<1>9. \A u : \A i \in 1..Len(toServer) : HeldAfter(u, i - 1)' => HeldAfter(u, i)
  <2>1. \A u : u \in srvSubs' => u \in T
    BY <1>5, <1>6, Zenon
  <2>2. \A u, i : HeldAfter(u, i)' => Held(toServer', T, u, i)
    BY <2>1, HeldIs, HeldFewer, Zenon
  <2> QED BY <1>8, <2>2, Zenon
<1>10. HeldIsMapped'
  BY <1>2, <1>3, <1>4, <1>9, Zenon DEF Wire, HeldIsMapped
<1>11. NoneAskedTwice'
  <2> SUFFICES ASSUME NEW i \in 1..Len(toServer'), toServer'[i].m = "subscribe",
                      HeldAfter(toServer[i].uri, i - 1)'
               PROVE  FALSE
    BY Zenon DEF NoneAskedTwice
  <2>1. /\ toServer'[i] = toServer[i + 1] /\ i + 1 \in 1..Len(toServer)
        /\ i \in 1..Len(toServer) /\ (i + 1) - 1 = i
    BY <1>3, <1>4
  <2>2. HeldAfter(toServer[i + 1].uri, i)
    BY <1>9, <2>1, Zenon
  <2> QED BY <2>1, <2>2, Zenon DEF Wire, NoneAskedTwice
<1>12. MappedIsHeld'
  <2> SUFFICES ASSUME NEW u \in Uris, entries[u] # None, ~HeldAfter(u, Len(toServer))'
               PROVE  \/ start[entries[u]] = "rejected"
                      \/ /\ start[entries[u]] = "waiting"
                         /\ \E j \in 1..Len(toClient') :
                              toClient'[j].m = "error" /\ toClient'[j].e = entries[u]
    BY <1>2, Zenon DEF MappedIsHeld
  <2> DEFINE e == entries[u]
  <2>1. ASSUME NEW ok \in BOOLEAN, toClient' = Append(toClient, Answer(ok))
        PROVE  /\ \A i \in 1..Len(toClient) : i \in 1..Len(toClient') /\ toClient'[i] = toClient[i]
               /\ \E j \in 1..Len(toClient') : toClient'[j] = Answer(ok)
               /\ Answer(ok).e = h.e /\ (~ok => Answer(ok).m = "error")
    <3>1. /\ Answer(ok) \in ToClient /\ Answer(ok).m \in {"result", "error"}
          /\ Answer(ok).e = h.e /\ (~ok => Answer(ok).m = "error")
      BY <1>1, <1>2, <1>3, AnswerFacts, Zenon
    <3>2. Answer(ok).m = "event" => Answer(ok).n # 0
      BY <3>1
    <3> QED BY <1>1, <2>1, <3>1, <3>2, ToClientAppend, Zenon
  <2>2. \A i \in 1..Len(toClient) : i \in 1..Len(toClient') /\ toClient'[i] = toClient[i]
    BY <1>5, <2>1, Zenon
  <2>3. CASE ~HeldAfter(u, Len(toServer))
    <3>1. \/ start[entries[u]] = "rejected"
          \/ /\ start[entries[u]] = "waiting"
             /\ \E j \in 1..Len(toClient) : toClient[j].m = "error" /\ toClient[j].e = entries[u]
      BY <2>3, Zenon DEF Wire, MappedIsHeld
    <3> QED BY <2>2, <3>1, Zenon
  <2>4. CASE HeldAfter(u, Len(toServer))
    <3>1. Held(toServer', T, u, Len(toServer'))
      BY <1>3, <1>4, <1>8, <2>4, Zenon
    <3>2. ~Held(toServer', srvSubs', u, Len(toServer'))
      BY HeldIs, Zenon
    <3>3. srvSubs' # T
      BY <3>1, <3>2, Zenon
    <3>4. h.m = "subscribe" /\ srvSubs' = srvSubs /\ toClient' = Append(toClient, Answer(FALSE))
      BY <1>5, <3>3, Zenon
    <3>5. u = h.uri
      <4>1. ~(u \in T => u \in srvSubs)
        BY <3>1, <3>2, <3>4, HeldFewer, Zenon
      <4> QED BY <1>6, <4>1, Zenon
    <3>6. \A k \in 1..Len(toServer') : toServer'[k].uri # u
      BY <1>4, <3>1, <3>2, HeldRegardless, Zenon
    <3>7. \A k \in (1 + 1)..Len(toServer) : toServer[k].uri # u
      <4> SUFFICES ASSUME NEW k \in (1 + 1)..Len(toServer) PROVE toServer[k].uri # u
        OBVIOUS
      <4>1. k - 1 \in 1..Len(toServer') /\ (k - 1) + 1 = k
        BY <1>3
      <4> QED BY <1>3, <3>6, <4>1, Zenon
    <3>8. Asks(1) /\ e = h.e
      <4>1. Asks(1)
        BY <1>3, <3>4, Zenon DEF Asks, h
      <4> QED BY <1>3, <3>5, <3>7, <4>1, Zenon DEF Wire, LastAsks, h
    <3>9. start[e] \in {"waiting", "rejected"}
      <4>1. Current(e)
        BY MappedEntry
      <4> QED BY <1>3, <3>8, <4>1, Zenon DEF Wire, AskedOnce, AsksWait, h
    <3>10. \E j \in 1..Len(toClient') : toClient'[j].m = "error" /\ toClient'[j].e = e
      BY <2>1, <3>4, <3>8, Zenon
    <3> QED BY <3>9, <3>10
  <2> QED BY <2>3, <2>4
<1> QED BY <1>7, <1>10, <1>11, <1>12 DEF Wire

\* A new entry is asked for.  The server will not hold the URI by then: what it
\* would hold is in the map, and this URI is not.
LEMMA WireJoined ==
    ASSUME Mapped, Wire, MappedReads, clientOpen, NEW u \in Uris, NEW o \in Options,
           AcquireFirst(u, o)
    PROVE  Wire' /\ MappedReads'
<1> DEFINE e == lastEntry + 1
           x == Msg("subscribe", u, e)
<1>0. PICK n : n = Len(toServer)
  OBVIOUS
<1>1. /\ Typed /\ lastEntry \in Nat /\ (\A d \in 1..lastEntry : d \in EntryIds)
      /\ (\A d \in EntryIds : d # None /\ entry[d].uri \in Uris)
      /\ entries \in [Uris -> EntryIds \cup {None}] /\ toServer \in Seq(ToServer)
      /\ start \in [EntryIds -> {"none", "waiting", "answered", "rejected", "done"}]
      /\ readers \in [Uris -> SUBSET EntryIds]
  BY MadeEntries, Zenon DEF Mapped, Typed, TypeOK
<1>2. /\ entries[u] = None /\ e \in EntryIds /\ lastEntry' = e
      /\ entries' = [entries EXCEPT ![u] = e]
      /\ \A d \in EntryIds \ {e} : entry'[d] = entry[d] /\ start'[d] = start[d]
  BY <1>1, AcquireFirstFacts, Zenon DEF MapJoined
<1>3. /\ start' = [start EXCEPT ![e] = "waiting"]
      /\ readers' = [readers EXCEPT ![u] = readers[u] \cup {e}]
      /\ toServer' = Append(toServer, x) /\ toClient' = toClient /\ srvSubs' = srvSubs
  BY Zenon DEF AcquireFirst, serverVars
<1>4. x.m = "subscribe" /\ x.uri = u /\ x.e = e /\ x \in ToServer
  BY <1>2, SMT DEF Msg, ToServer
<1>5. \A d \in 1..lastEntry : d # e /\ d \in 1..e
  BY <1>1
<1>6. e \in 1..e
  BY <1>1
<1> HIDE DEF e, x
<1>7. /\ n \in Nat /\ Len(toServer') = n + 1 /\ toServer'[n + 1] = x
      /\ \A i \in 1..n : toServer'[i] = toServer[i]
  BY <1>0, <1>1, <1>3, <1>4
<1>8. /\ \A i \in 1..(n + 1) : i = n + 1 \/ i \in 1..n
      /\ \A i \in 1..n : i \in 1..(n + 1) /\ i - 1 \in Nat /\ i # n + 1 /\ i \in Nat
                         /\ n + 1 \in (i + 1)..(n + 1)
                         /\ (\A k \in (i + 1)..n : k \in (i + 1)..(n + 1) /\ k \in 1..n)
                         /\ (\A k \in 1..(i - 1) : k \in 1..n)
      /\ (n + 1) - 1 = n /\ n + 1 \in 1..(n + 1)
  BY <1>7
<1>9. /\ entries'[u] = e /\ start'[e] = "waiting"
      /\ \A v \in Uris : v # u => entries'[v] = entries[v]
      /\ \A d \in 1..lastEntry : start'[d] = start[d] /\ entry'[d] = entry[d]
  BY <1>1, <1>2, <1>3, <1>5
<1>10. /\ \A v : (HeldAfter(v, n)' <=> HeldAfter(v, n))
       /\ \A v : \A i \in 1..n : (HeldAfter(v, i - 1)' <=> HeldAfter(v, i - 1))
  <2>1. \A v : Held(toServer', srvSubs, v, n) <=> Held(toServer, srvSubs, v, n)
    BY <1>7, HeldPrefix, Zenon
  <2>2. ASSUME NEW v, NEW i \in 1..n
        PROVE  Held(toServer', srvSubs, v, i - 1) <=> Held(toServer, srvSubs, v, i - 1)
    <3>1. \A k \in 1..(i - 1) : toServer'[k] = toServer[k]
      BY <1>7, <1>8, Zenon
    <3> QED BY <1>8, <3>1, HeldPrefix, Zenon
  <2> QED BY <1>3, <2>1, <2>2, HeldIs, Zenon
<1>11. \A v : HeldAfter(v, n + 1)' <=> (v = u \/ HeldAfter(v, n))
  <2>1. \A v : Held(toServer', srvSubs', v, n + 1) <=>
                 IF x.uri = v THEN x.m = "subscribe" ELSE Held(toServer', srvSubs', v, n)
    BY <1>7, HeldLast, Zenon
  <2> QED BY <1>4, <1>10, <2>1, HeldIs, Zenon
<1>12. Asks(n + 1)' /\ \A i \in 1..n : Asks(i)' <=> Asks(i)
  BY <1>0, <1>4, <1>7, <1>8, Zenon DEF Asks
<1>13. \A i \in 1..n : Asks(i) => toServer[i].e \in 1..lastEntry /\ toServer[i].e # e
  BY <1>0, <1>5, Zenon DEF Wire, AskedOnce, AsksWait
<1>14. \A j : /\ Answers(j)' <=> Answers(j)
              /\ Answers(j) => toClient[j].e \in 1..lastEntry /\ toClient[j].e # e
  BY <1>3, <1>5, Zenon DEF Answers, Wire, AskedOnce, AnswersMade
<1>15. SentOnce'
  <2> SUFFICES ASSUME NEW i \in 1..(n + 1), NEW j \in 1..(n + 1), Asks(i)', Asks(j)',
                      toServer'[i].e = toServer'[j].e
               PROVE  i = j
    BY <1>7, Zenon DEF SentOnce
  <2>1. CASE i = n + 1
    BY <1>4, <1>7, <1>8, <1>12, <1>13, <2>1, Zenon
  <2>2. CASE j = n + 1
    BY <1>4, <1>7, <1>8, <1>12, <1>13, <2>2, Zenon
  <2>3. CASE i # n + 1 /\ j # n + 1
    <3>1. i \in 1..n /\ j \in 1..n
      BY <1>8, <2>3, Zenon
    <3>2. Asks(i) /\ Asks(j) /\ toServer[i].e = toServer[j].e
      BY <1>7, <1>12, <3>1, Zenon
    <3> QED BY <1>0, <3>1, <3>2, Zenon DEF Wire, AskedOnce, SentOnce
  <2> QED BY <2>1, <2>2, <2>3
<1>16. AnsweredOnce'
  BY <1>3, <1>14, Zenon DEF Wire, AskedOnce, AnsweredOnce
<1>17. SentOrAnswered'
  <2> SUFFICES ASSUME NEW i \in 1..(n + 1), NEW j \in 1..Len(toClient), Asks(i)', Answers(j)
               PROVE  toServer'[i].e # toClient[j].e
    BY <1>3, <1>7, <1>14, Zenon DEF SentOrAnswered
  <2>1. CASE i = n + 1
    BY <1>4, <1>7, <1>14, <2>1, Zenon
  <2>2. CASE i # n + 1
    <3>1. i \in 1..n
      BY <1>8, <2>2, Zenon
    <3> QED BY <1>0, <1>7, <1>12, <3>1, Zenon DEF Wire, AskedOnce, SentOrAnswered
  <2> QED BY <2>1, <2>2
<1>18. AnswersMade'
  BY <1>2, <1>3, <1>5, <1>14, Zenon DEF AnswersMade
<1>19. AsksWait'
  <2> SUFFICES ASSUME NEW i \in 1..(n + 1), Asks(i)'
               PROVE  /\ toServer'[i].e \in 1..e
                      /\ \/ start'[toServer'[i].e] \in {"waiting", "rejected"}
                         \/ start'[toServer'[i].e] = "done" /\ ~Current(toServer[i].e)'
    BY <1>2, <1>7, Zenon DEF AsksWait
  <2>1. CASE i = n + 1
    BY <1>4, <1>6, <1>7, <1>9, <2>1, Zenon
  <2>2. CASE i # n + 1
    <3> DEFINE d == toServer[i].e
    <3>1. i \in 1..n /\ toServer'[i].e = d
      BY <1>7, <1>8, <2>2, Zenon
    <3>2. /\ d \in 1..lastEntry
          /\ start[d] \in {"waiting", "rejected"} \/ (start[d] = "done" /\ ~Current(d))
      BY <1>0, <1>12, <3>1, Zenon DEF Wire, AskedOnce, AsksWait
    <3>3. d # e /\ d \in 1..e /\ start'[d] = start[d] /\ entry'[d] = entry[d]
          /\ entry[d].uri \in Uris
      BY <1>1, <1>5, <1>9, <3>2, Zenon
    <3> HIDE DEF d
    <3>4. ~(entries[entry[d].uri] = d) => ~(entries'[entry'[d].uri] = d)
      BY <1>9, <3>3, Zenon
    <3>5. ~Current(d) => ~Current(toServer[i].e)'
      BY <3>1, <3>4, Zenon DEF Current
    <3> QED BY <3>1, <3>2, <3>3, <3>5, Zenon
  <2> QED BY <2>1, <2>2
<1>20. LastAsks'
  <2> SUFFICES ASSUME NEW i \in 1..(n + 1), Asks(i)',
                      \A k \in (i + 1)..(n + 1) : toServer'[k].uri # toServer'[i].uri
               PROVE  entries'[toServer'[i].uri] = toServer'[i].e
    BY <1>7, Zenon DEF LastAsks
  <2>1. CASE i = n + 1
    BY <1>4, <1>7, <1>9, <2>1, Zenon
  <2>2. CASE i # n + 1
    <3>1. i \in 1..n /\ toServer'[i] = toServer[i] /\ Asks(i)
      BY <1>7, <1>8, <1>12, <2>2, Zenon
    <3>2. /\ \A k \in (i + 1)..n : toServer[k].uri # toServer[i].uri
          /\ u # toServer[i].uri
      BY <1>4, <1>7, <1>8, <3>1, Zenon
    <3>3. entries[toServer[i].uri] = toServer[i].e
      BY <1>0, <3>1, <3>2, Zenon DEF Wire, LastAsks
    <3>4. toServer[i].uri \in Uris
      <4>1. toServer[i] \in ToServer
        BY <1>0, <1>1, <3>1
      <4> QED BY <4>1, Zenon DEF ToServer
    <3> QED BY <1>9, <3>1, <3>2, <3>3, <3>4, Zenon
  <2> QED BY <2>1, <2>2
<1>21. HeldIsMapped'
  BY <1>0, <1>1, <1>2, <1>7, <1>9, <1>11, Zenon DEF Wire, HeldIsMapped
<1>22. MappedIsHeld'
  <2> SUFFICES ASSUME NEW v \in Uris, entries'[v] # None, ~HeldAfter(v, n + 1)'
               PROVE  \/ start'[entries'[v]] = "rejected"
                      \/ /\ start'[entries'[v]] = "waiting"
                         /\ \E j \in 1..Len(toClient) :
                              toClient[j].m = "error" /\ toClient[j].e = entries'[v]
    BY <1>3, <1>7, Zenon DEF MappedIsHeld
  <2>1. v # u /\ ~HeldAfter(v, n) /\ entries'[v] = entries[v]
    BY <1>9, <1>11, Zenon
  <2>2. start'[entries[v]] = start[entries[v]]
    BY <1>9, <2>1, MappedEntry, Zenon
  <2> QED BY <1>0, <2>1, <2>2, Zenon DEF Wire, MappedIsHeld
<1>23. NoneAskedTwice'
  <2> SUFFICES ASSUME NEW i \in 1..(n + 1), toServer'[i].m = "subscribe",
                      HeldAfter(toServer[i].uri, i - 1)'
               PROVE  FALSE
    BY <1>7, Zenon DEF NoneAskedTwice
  <2>1. CASE i = n + 1
    <3>1. HeldAfter(u, n)
      BY <1>4, <1>7, <1>8, <1>10, <2>1, Zenon
    <3> QED BY <1>0, <1>2, <3>1, Zenon DEF Wire, HeldIsMapped
  <2>2. CASE i # n + 1
    <3>1. i \in 1..n /\ toServer'[i] = toServer[i]
      BY <1>7, <1>8, <2>2, Zenon
    <3>2. HeldAfter(toServer[i].uri, i - 1)
      BY <1>10, <3>1, Zenon
    <3> QED BY <1>0, <3>1, <3>2, Zenon DEF Wire, NoneAskedTwice
  <2> QED BY <2>1, <2>2
<1>24. MappedReads'
  <2> SUFFICES ASSUME NEW v \in Uris, entries'[v] # None PROVE entries'[v] \in readers'[v]
    BY Zenon DEF MappedReads
  <2>1. CASE v = u
    BY <1>1, <1>3, <1>9, <2>1
  <2>2. CASE v # u
    BY <1>1, <1>3, <1>9, <2>2, Zenon DEF MappedReads
  <2> QED BY <2>1, <2>2
<1>25. AskedOnce'
  BY <1>15, <1>16, <1>17, <1>18, <1>19 DEF AskedOnce
<1> QED BY <1>20, <1>21, <1>22, <1>23, <1>24, <1>25 DEF Wire

\* Unsubscribing adds messages of the URIs us to the end of the wire.
LEMMA ToldFacts ==
    ASSUME Typed, NEW us, Told(us)
    PROVE  \E n, N \in Nat :
             /\ n = Len(toServer) /\ N = Len(toServer') /\ n <= N
             /\ \A k \in 1..n : toServer'[k] = toServer[k]
             /\ \A k \in (n + 1)..N : toServer'[k].m = "unsubscribe" /\ toServer'[k].uri \in us
             /\ \A v \in us : \E k \in (n + 1)..N : toServer'[k].uri = v
<1> DEFINE n == Len(toServer)
<1>1. toServer \in Seq(ToServer)
  BY DEF Typed
<1>2. PICK w \in Seq(ToServer) :
        /\ toServer' = toServer \o w
        /\ \A i \in 1..Len(w) : w[i].m = "unsubscribe" /\ w[i].uri \in us
        /\ \A u \in us : \E i \in 1..Len(w) : w[i].uri = u
  BY Zenon DEF Told
<1>3. /\ n \in Nat /\ Len(w) \in Nat /\ Len(toServer') = n + Len(w)
      /\ \A k \in 1..n : toServer'[k] = toServer[k]
      /\ \A k \in (n + 1)..(n + Len(w)) : toServer'[k] = w[k - n]
  BY <1>1, <1>2
<1> HIDE DEF n
<1>4. /\ Len(toServer') \in Nat /\ n <= Len(toServer')
      /\ \A k \in (n + 1)..Len(toServer') : k - n \in 1..Len(w) /\ toServer'[k] = w[k - n]
      /\ \A i \in 1..Len(w) : n + i \in (n + 1)..Len(toServer') /\ (n + i) - n = i
  BY <1>3
<1>5. \A k \in (n + 1)..Len(toServer') : toServer'[k].m = "unsubscribe" /\ toServer'[k].uri \in us
  <2> TAKE k \in (n + 1)..Len(toServer')
  <2>1. k - n \in 1..Len(w) /\ toServer'[k] = w[k - n]
    BY <1>4
  <2>2. w[k - n].m = "unsubscribe" /\ w[k - n].uri \in us
    BY <1>2, <2>1, Zenon
  <2> QED BY <2>1, <2>2
<1>6. ASSUME NEW v \in us PROVE \E k \in (n + 1)..Len(toServer') : toServer'[k].uri = v
  <2> PICK i \in 1..Len(w) : w[i].uri = v
    BY <1>2, Zenon
  <2>1. n + i \in (n + 1)..Len(toServer') /\ toServer'[n + i] = w[(n + i) - n] /\ (n + i) - n = i
    BY <1>4, Zenon
  <2> QED BY <2>1, Zenon
<1> QED BY <1>3, <1>4, <1>5, <1>6, Zenon DEF n

\* Entries that leave the map do not come back with the step that removes them.
LEMMA LeftNeverReturns ==
    ASSUME Mapped, NEW us, MapLeft(us)
    PROVE  NoneReturns
<1> SUFFICES ASSUME NEW e \in 1..lastEntry, Current(e)' PROVE Current(e)
  BY Zenon DEF NoneReturns
<1>1. e \in EntryIds /\ e # None /\ entry[e].uri \in Uris
  BY MadeEntries, Zenon DEF Mapped
<1>2. entry'[e].uri = entry[e].uri
  BY <1>1, Zenon DEF MapLeft, EntryKept
<1>3. entries'[entry[e].uri] = e
  BY <1>2, Zenon DEF Current
<1>4. entries'[entry[e].uri] = None \/ entries'[entry[e].uri] = entries[entry[e].uri]
  BY <1>1, Zenon DEF MapLeft
<1> QED BY <1>1, <1>3, <1>4, Zenon DEF Current

\* A request on the wire is for an entry that waits, was rejected, or has gone.
LEMMA AsksStillWait ==
    ASSUME Mapped, Wire, StartMoves, NoneReturns, NEW i, Asks(i), NEW e, e = toServer[i].e
    PROVE  /\ e \in 1..lastEntry
           /\ start'[e] \in {"waiting", "rejected"} \/ (start'[e] = "done" /\ ~Current(e)')
<1>1. \A d \in 1..lastEntry : d \in EntryIds
  BY MadeEntries, Zenon DEF Mapped
<1>2. /\ e \in 1..lastEntry /\ e \in EntryIds
      /\ start[e] \in {"waiting", "rejected"} \/ (start[e] = "done" /\ ~Current(e))
  BY <1>1, Zenon DEF Asks, Wire, AskedOnce, AsksWait
<1>3. /\ Current(e)' => Current(e)
      /\ \/ start'[e] = start[e]
         \/ start[e] = "waiting" /\ start'[e] = "rejected"
         \/ start[e] = "answered" /\ start'[e] = "done"
         \/ start[e] = "rejected" /\ start'[e] = "done" /\ ~Current(e)'
  BY <1>2, Zenon DEF NoneReturns, StartMoves
<1> QED BY <1>2, <1>3

\* Entries leave the map, and the server is told of their URIs.
LEMMA WireLeft ==
    ASSUME Mapped, Mapped', Wire, MappedReads, NEW us, Told(us), MapLeft(us), StartMoves,
           toClient' = toClient, srvSubs' = srvSubs,
           \A u \in Uris \ us : readers'[u] = readers[u]
    PROVE  Wire' /\ MappedReads'
<1>1. Typed
  BY DEF Mapped
<1>2. PICK n, N \in Nat :
        /\ n = Len(toServer) /\ N = Len(toServer') /\ n <= N
        /\ \A k \in 1..n : toServer'[k] = toServer[k]
        /\ \A k \in (n + 1)..N : toServer'[k].m = "unsubscribe" /\ toServer'[k].uri \in us
        /\ \A v \in us : \E k \in (n + 1)..N : toServer'[k].uri = v
  BY <1>1, ToldFacts
<1>3. /\ n \in Nat /\ \A k \in 1..N : k \in 1..n \/ k \in (n + 1)..N
      /\ \A k \in 1..n : k \in 1..N
      /\ \A i \in 1..n : /\ i - 1 \in Nat /\ (\A k \in 1..(i - 1) : k \in 1..n)
                         /\ \A k \in (n + 1)..N : k \in (i + 1)..N
                         /\ \A k \in (i + 1)..n : k \in (i + 1)..N /\ k \in 1..n
  BY <1>1, <1>2 DEF Typed
<1>4. /\ lastEntry' = lastEntry
      /\ \A u \in Uris : entries'[u] = IF u \in us THEN None ELSE entries[u]
  BY Zenon DEF MapLeft
<1>5. NoneReturns
  BY LeftNeverReturns
<1>6. \A v : HeldAfter(v, N)' <=> v \notin us /\ HeldAfter(v, n)
  <2>1. ASSUME NEW v
        PROVE  Held(toServer', srvSubs, v, N) <=> v \notin us /\ Held(toServer, srvSubs, v, n)
    <3>1. n \in Nat /\ N \in Nat /\ n <= N
      BY <1>2
    <3>2. /\ \A k \in 1..n : toServer'[k] = toServer[k]
          /\ \A k \in (n + 1)..N : toServer'[k].m = "unsubscribe" /\ toServer'[k].uri \in us
          /\ \A w \in us : \E k \in (n + 1)..N : toServer'[k].uri = w
      BY <1>2
    <3> QED BY <3>1, <3>2, HeldTold
  <2> QED BY <2>1, HeldIs, Zenon
<1>7. \A v : \A i \in 1..n : HeldAfter(v, i - 1)' <=> HeldAfter(v, i - 1)
  <2> SUFFICES ASSUME NEW v, NEW i \in 1..n
               PROVE  Held(toServer', srvSubs, v, i - 1) <=> Held(toServer, srvSubs, v, i - 1)
    BY HeldIs, Zenon
  <2>1. i - 1 \in Nat /\ \A k \in 1..(i - 1) : toServer'[k] = toServer[k]
    BY <1>2, <1>3, Zenon
  <2> QED BY <2>1, HeldPrefix, Zenon
<1>8. /\ \A i \in 1..N : Asks(i)' => i \in 1..n /\ Asks(i)
      /\ \A i \in 1..N : toServer'[i].m = "subscribe" => i \in 1..n
  <2>1. "unsubscribe" # "subscribe"
    OBVIOUS
  <2> QED BY <1>2, <1>3, <2>1, Zenon DEF Asks
<1>9. \A j : Answers(j)' <=> Answers(j)
  BY Zenon DEF Answers
<1>10. SentOnce'
  <2> SUFFICES ASSUME NEW i \in 1..N, NEW j \in 1..N, Asks(i)', Asks(j)',
                      toServer'[i].e = toServer'[j].e
               PROVE  i = j
    BY <1>2, Zenon DEF SentOnce
  <2>1. i \in 1..n /\ j \in 1..n /\ Asks(i) /\ Asks(j) /\ toServer[i].e = toServer[j].e
    BY <1>2, <1>8, Zenon
  <2> QED BY <1>2, <2>1, Zenon DEF Wire, AskedOnce, SentOnce
<1>11. AnsweredOnce' /\ AnswersMade'
  BY <1>4, <1>9, Zenon DEF Wire, AskedOnce, AnsweredOnce, AnswersMade
<1>12. SentOrAnswered'
  <2> SUFFICES ASSUME NEW i \in 1..N, NEW j \in 1..Len(toClient), Asks(i)', Answers(j)
               PROVE  toServer'[i].e # toClient[j].e
    BY <1>2, <1>9, Zenon DEF SentOrAnswered
  <2>1. i \in 1..Len(toServer) /\ Asks(i) /\ toServer'[i] = toServer[i]
    BY <1>2, <1>8, Zenon
  <2> QED BY <2>1, Zenon DEF Wire, AskedOnce, SentOrAnswered
<1>13. AsksWait'
  <2> SUFFICES ASSUME NEW i \in 1..N, Asks(i)'
               PROVE  /\ toServer'[i].e \in 1..lastEntry'
                      /\ \/ start'[toServer'[i].e] \in {"waiting", "rejected"}
                         \/ start'[toServer'[i].e] = "done" /\ ~Current(toServer[i].e)'
    BY <1>2, Zenon DEF AsksWait
  <2>1. PICK e : e = toServer'[i].e
    OBVIOUS
  <2>2. Asks(i) /\ e = toServer[i].e
    BY <1>2, <1>8, <2>1, Zenon
  <2>3. /\ e \in 1..lastEntry
        /\ start'[e] \in {"waiting", "rejected"} \/ (start'[e] = "done" /\ ~Current(e)')
    BY <1>5, <2>2, AsksStillWait, Zenon
  <2>4. Current(toServer[i].e)' <=> Current(e)'
    BY <2>1, Zenon DEF Current
  <2> QED BY <1>4, <2>1, <2>3, <2>4, Zenon
<1>14. LastAsks'
  <2> SUFFICES ASSUME NEW i \in 1..N, Asks(i)',
                      \A k \in (i + 1)..N : toServer'[k].uri # toServer'[i].uri
               PROVE  entries'[toServer'[i].uri] = toServer'[i].e
    BY <1>2, Zenon DEF LastAsks
  <2>1. i \in 1..n /\ Asks(i) /\ toServer'[i] = toServer[i]
    BY <1>2, <1>8, Zenon
  <2>2. toServer[i].uri \notin us
    BY <1>2, <1>3, <2>1, Zenon
  <2>3. \A k \in (i + 1)..n : toServer[k].uri # toServer[i].uri
    BY <1>2, <1>3, <2>1, Zenon
  <2>4. toServer[i].uri \in Uris
    <3>1. toServer[i] \in ToServer
      BY <1>1, <1>2, <2>1 DEF Typed
    <3> QED BY <3>1, Zenon DEF ToServer
  <2>5. entries[toServer[i].uri] = toServer[i].e
    BY <1>2, <2>1, <2>3, Zenon DEF Wire, LastAsks
  <2> QED BY <1>4, <2>1, <2>2, <2>4, <2>5, Zenon
<1>15. HeldIsMapped'
  BY <1>2, <1>4, <1>6, Zenon DEF Wire, HeldIsMapped
<1>16. NoneAskedTwice'
  <2> SUFFICES ASSUME NEW i \in 1..N, toServer'[i].m = "subscribe",
                      HeldAfter(toServer[i].uri, i - 1)'
               PROVE  FALSE
    BY <1>2, Zenon DEF NoneAskedTwice
  <2>1. i \in 1..n /\ toServer'[i] = toServer[i]
    BY <1>2, <1>8, Zenon
  <2>2. HeldAfter(toServer[i].uri, i - 1)
    BY <1>7, <2>1, Zenon
  <2> QED BY <1>2, <2>1, <2>2, Zenon DEF Wire, NoneAskedTwice
<1>17. MappedIsHeld'
  <2> SUFFICES ASSUME NEW u \in Uris, entries'[u] # None, ~HeldAfter(u, N)'
               PROVE  \/ start'[entries'[u]] = "rejected"
                      \/ /\ start'[entries'[u]] = "waiting"
                         /\ \E j \in 1..Len(toClient) :
                              toClient[j].m = "error" /\ toClient[j].e = entries'[u]
    BY <1>2, Zenon DEF MappedIsHeld
  <2>1. u \notin us /\ entries'[u] = entries[u] /\ ~HeldAfter(u, n)
    BY <1>4, <1>6, Zenon
  <2>2. PICK e : e = entries[u]
    OBVIOUS
  <2>3. e \in EntryIds
    BY <2>1, <2>2, MappedEntry
  <2>4. Current(e)'
    <3>1. entry'[entries'[u]].uri = u
      BY Zenon DEF Mapped, MapPoints
    <3> QED BY <2>1, <2>2, <3>1, Zenon DEF Current
  <2>5. \/ start[e] = "rejected"
        \/ /\ start[e] = "waiting"
           /\ \E j \in 1..Len(toClient) : toClient[j].m = "error" /\ toClient[j].e = e
    BY <1>2, <2>1, <2>2, Zenon DEF Wire, MappedIsHeld
  <2>6. \/ start'[e] = start[e]
        \/ start[e] = "waiting" /\ start'[e] = "rejected"
        \/ start[e] = "answered" /\ start'[e] = "done"
    BY <2>3, <2>4, Zenon DEF StartMoves
  <2>7. \/ start'[e] = "rejected"
        \/ /\ start'[e] = "waiting"
           /\ \E j \in 1..Len(toClient) : toClient[j].m = "error" /\ toClient[j].e = e
    BY <2>5, <2>6
  <2> QED BY <2>1, <2>2, <2>7, Zenon
<1>18. MappedReads'
  BY <1>4, Zenon DEF MappedReads
<1>19. AskedOnce'
  BY <1>10, <1>11, <1>12, <1>13 DEF AskedOnce
<1> QED BY <1>14, <1>15, <1>16, <1>17, <1>18, <1>19 DEF Wire

-----------------------------------------------------------------------------
(* Every step.                                                             *)

\* A step that leaves the map, the wire to the server and the answers alone.
Quiet ==
    /\ entries' = entries /\ lastEntry' = lastEntry /\ toServer' = toServer
    /\ srvSubs' = srvSubs /\ StartMoves
    /\ \E d \in {0, 1} : AnswersKept(d)
    /\ \A u \in Uris : entries[u] # None /\ entries[u] \in readers[u] => entries[u] \in readers'[u]

LEMMA AnswersStay ==
    ASSUME Typed
    PROVE  /\ toClient' = toClient => AnswersKept(0)
           /\ \A x \in ToClient : x.m = "event" /\ x.n # 0 /\ toClient' = Append(toClient, x)
                 => AnswersKept(0)
           /\ toClient # <<>> /\ Head(toClient).m = "event" /\ toClient' = Tail(toClient)
                 => AnswersKept(1)
<1>1. Len(toClient) \in Nat
  BY DEF Typed
<1>2. ASSUME toClient' = toClient PROVE AnswersKept(0)
  <2>1. \A i \in 1..Len(toClient) : i + 0 = i /\ i - 0 = i
    BY <1>1
  <2> QED BY <1>2, <2>1, Zenon DEF AnswersKept
<1>3. ASSUME NEW x \in ToClient, x.m = "event", x.n # 0, toClient' = Append(toClient, x)
      PROVE  AnswersKept(0)
  <2>1. /\ Len(toClient') = Len(toClient) + 1 /\ toClient'[Len(toClient) + 1] = x
        /\ \A i \in 1..Len(toClient) : i \in 1..Len(toClient') /\ toClient'[i] = toClient[i]
        /\ \A i \in 1..Len(toClient') : i = Len(toClient) + 1 \/ i \in 1..Len(toClient)
    BY <1>3, ToClientAppend
  <2>2. \A i \in 1..Len(toClient) : i + 0 = i /\ i - 0 = i
    BY <1>1
  <2> QED BY <1>3, <2>1, <2>2, Zenon DEF AnswersKept
<1>4. ASSUME toClient # <<>>, Head(toClient).m = "event", toClient' = Tail(toClient)
      PROVE  AnswersKept(1)
  <2>1. /\ Head(toClient) = toClient[1]
        /\ \A i \in 1..Len(toClient') : toClient'[i] = toClient[i + 1] /\ i + 1 \in 1..Len(toClient)
        /\ \A i \in 1..Len(toClient) :
             i = 1 \/ (i - 1 \in 1..Len(toClient') /\ toClient'[i - 1] = toClient[i])
    BY <1>4, ToClientTail, Zenon
  <2> QED BY <1>4, <2>1, Zenon DEF AnswersKept
<1> QED BY <1>2, <1>3, <1>4, Zenon

\* The steps of the manager that are quiet.
LEMMA QuietManager ==
    ASSUME Mapped, MappedReads,
           \/ \E u \in Uris, o \in Options : AcquireShared(u, o)
           \/ \E e \in EntryIds, l \in 1..MaxLeases : ReleaseShared(e, l)
           \/ \E e \in EntryIds : \/ StartActivates(e) \/ StartDiscards(e) \/ StartIgnored(e)
                                  \/ PumpPublishes(e) \/ PumpEnds(e) \/ RequestTimesOut(e)
    PROVE  Quiet
<1>1. Typed
  BY DEF Mapped
<1>2. /\ start \in [EntryIds -> {"none", "waiting", "answered", "rejected", "done"}]
      /\ readers \in [Uris -> SUBSET EntryIds] /\ entries \in [Uris -> EntryIds \cup {None}]
  BY <1>1, Zenon DEF Typed, TypeOK
<1>3. toClient' = toClient => \E d \in {0, 1} : AnswersKept(d)
  BY <1>1, AnswersStay, Zenon
<1>4. ASSUME start' = start PROVE StartMoves
  BY <1>4, Zenon DEF StartMoves
<1>5. CASE \/ \E u \in Uris, o \in Options : AcquireShared(u, o)
           \/ \E e \in EntryIds, l \in 1..MaxLeases : ReleaseShared(e, l)
           \/ \E e \in EntryIds : PumpPublishes(e)
  <2>1. /\ entries' = entries /\ lastEntry' = lastEntry /\ toServer' = toServer
        /\ srvSubs' = srvSubs /\ start' = start /\ toClient' = toClient /\ readers' = readers
    BY <1>5, Zenon DEF AcquireShared, ReleaseShared, PumpPublishes, clientVars, serverVars
  <2> QED BY <1>3, <1>4, <2>1, Zenon DEF Quiet
<1>6. ASSUME NEW e \in EntryIds, StartActivates(e) PROVE Quiet
  <2>1. /\ entries' = entries /\ lastEntry' = lastEntry /\ toServer' = toServer
        /\ srvSubs' = srvSubs /\ toClient' = toClient /\ readers' = readers
        /\ start[e] = "answered" /\ start' = [start EXCEPT ![e] = "done"]
    BY <1>6, Zenon DEF StartActivates, clientVars, serverVars
  <2>2. StartMoves
    BY <1>2, <2>1, Zenon DEF StartMoves
  <2> QED BY <1>3, <2>1, <2>2, Zenon DEF Quiet
<1>7. ASSUME NEW e \in EntryIds, RequestTimesOut(e) PROVE Quiet
  <2>1. /\ entries' = entries /\ lastEntry' = lastEntry /\ toServer' = toServer
        /\ srvSubs' = srvSubs /\ toClient' = toClient /\ readers' = readers
        /\ start[e] = "waiting" /\ start' = [start EXCEPT ![e] = "rejected"]
    BY <1>7, Zenon DEF RequestTimesOut, clientVars, serverVars
  <2>2. StartMoves
    BY <1>2, <2>1, Zenon DEF StartMoves
  <2> QED BY <1>3, <2>1, <2>2, Zenon DEF Quiet
<1>8. ASSUME NEW e \in EntryIds, StartDiscards(e) \/ StartIgnored(e) PROVE Quiet
  <2>1. /\ entries' = entries /\ entry' = entry /\ lastEntry' = lastEntry
        /\ toServer' = toServer /\ srvSubs' = srvSubs /\ toClient' = toClient
        /\ start[e] = "answered" \/ start[e] = "rejected"
        /\ ~Current(e) /\ start' = [start EXCEPT ![e] = "done"]
        /\ readers' = [readers EXCEPT ![entry[e].uri] = readers[entry[e].uri] \ {e}]
    BY <1>8, Zenon DEF StartDiscards, StartIgnored, serverVars
  <2>2. ~Current(e)'
    BY <2>1, Zenon DEF Current
  <2>3. StartMoves
    BY <1>2, <2>1, <2>2, Zenon DEF StartMoves
  <2>4. ASSUME NEW u \in Uris, entries[u] # None, entries[u] \in readers[u]
        PROVE  entries[u] \in readers'[u]
    <3>1. CASE u = entry[e].uri
      <4>1. readers'[u] = readers[u] \ {e}
        BY <1>2, <2>1, <3>1, Zenon
      <4>2. entries[u] # e
        BY <2>1, <3>1, Zenon DEF Current
      <4> QED BY <2>4, <4>1, <4>2, Zenon
    <3>2. CASE u # entry[e].uri
      BY <1>2, <2>1, <2>4, <3>2, Zenon
    <3> QED BY <3>1, <3>2
  <2> QED BY <1>3, <2>1, <2>3, <2>4, Zenon DEF Quiet
<1>9. ASSUME NEW e \in EntryIds, PumpEnds(e) PROVE Quiet
  <2>1. ~Current(e)
    <3>1. e \notin readers[entry[e].uri] /\ e # None /\ entry[e].uri \in Uris
      BY <1>1, <1>9, MadeEntries, Zenon DEF PumpEnds
    <3> QED BY <3>1, Zenon DEF Current, MappedReads
  <2>2. /\ entries' = entries /\ lastEntry' = lastEntry /\ toServer' = toServer
        /\ srvSubs' = srvSubs /\ start' = start /\ toClient' = toClient /\ readers' = readers
    BY <1>9, <2>1, Zenon DEF PumpEnds, clientVars, serverVars
  <2> QED BY <1>3, <1>4, <2>2, Zenon DEF Quiet
<1> QED BY <1>5, <1>6, <1>7, <1>8, <1>9, Zenon

\* The quiet steps of the client and of the server, and stuttering.
LEMMA QuietRest ==
    ASSUME Mapped, ReceiveEvent \/ (\E u \in Uris : ServerPublishes(u)) \/ UNCHANGED vars
    PROVE  Quiet
<1>1. Typed
  BY DEF Mapped
<1>2. /\ entries' = entries /\ lastEntry' = lastEntry /\ toServer' = toServer
      /\ srvSubs' = srvSubs /\ start' = start /\ readers' = readers
  BY Zenon DEF ReceiveEvent, ServerPublishes, vars, managerVars, clientVars, serverVars
<1>3. StartMoves
  BY <1>2, Zenon DEF StartMoves
<1>4. \E d \in {0, 1} : AnswersKept(d)
  <2>1. CASE ReceiveEvent
    <3>1. toClient # <<>> /\ Head(toClient).m = "event" /\ toClient' = Tail(toClient)
      BY <2>1, Zenon DEF ReceiveEvent
    <3> QED BY <1>1, <3>1, AnswersStay, Zenon
  <2>2. ASSUME NEW u \in Uris, ServerPublishes(u) PROVE \E d \in {0, 1} : AnswersKept(d)
    <3> DEFINE x == [m |-> "event", uri |-> u, e |-> None, n |-> log[u] + 1]
    <3>1. /\ log[u] < MaxEvents
          /\ toClient' = Append(toClient, x) \/ toClient' = toClient
      BY <2>2, Zenon DEF ServerPublishes
    <3>2. log[u] \in 0..MaxEvents
      BY <1>1, Zenon DEF Typed
    <3>3. log[u] + 1 \in 0..MaxEvents /\ log[u] + 1 # 0
      BY <3>1, <3>2, BoundAssumption
    <3>4. x \in ToClient /\ x.n # 0 /\ x.m = "event"
      BY <3>3, SMT DEF ToClient
    <3> HIDE DEF x
    <3> QED BY <1>1, <3>1, <3>4, AnswersStay, Zenon
  <2>3. CASE UNCHANGED vars
    <3>1. toClient' = toClient
      BY <2>3, Zenon DEF vars
    <3> QED BY <1>1, <3>1, AnswersStay, Zenon
  <2> QED BY <2>1, <2>2, <2>3, Zenon
<1> QED BY <1>2, <1>3, <1>4, Zenon DEF Quiet

\* A quiet step keeps the wire.
LEMMA WireQuiet ==
    ASSUME Mapped, Mapped', Wire, MappedReads, Quiet, NoneReturns
    PROVE  Wire' /\ MappedReads'
<1>1. Wire'
  BY WireSame, Zenon DEF Quiet
<1>2. MappedReads'
  BY Zenon DEF Quiet, MappedReads
<1> QED BY <1>1, <1>2

LEMMA KeptNeverReturns ==
    ASSUME Mapped, MapKept \/ \E d \in EntryIds : MapActivated(d)
    PROVE  NoneReturns
<1> SUFFICES ASSUME NEW e \in 1..lastEntry, Current(e)' PROVE Current(e)
  BY Zenon DEF NoneReturns
<1>1. e \in EntryIds
  BY MadeEntries, Zenon DEF Mapped
<1>2. entries' = entries /\ entry'[e].uri = entry[e].uri
  BY <1>1, Zenon DEF MapKept, EntryKept, MapActivated
<1> QED BY <1>2, Zenon DEF Current

\* The steps that take an entry out of the map and tell the server.
LEMMA WireLeaves ==
    ASSUME Mapped, Mapped', Wire, MappedReads, clientOpen,
           \/ \E e \in EntryIds, l \in 1..MaxLeases : ReleaseLast(e, l)
           \/ \E e \in EntryIds : StartFails(e)
           \/ Close
    PROVE  Wire' /\ MappedReads'
<1>1. /\ Typed /\ MapPoints /\ Lifecycle /\ ActiveIsStarted
      /\ start \in [EntryIds -> {"none", "waiting", "answered", "rejected", "done"}]
  BY Zenon DEF Mapped, Typed, TypeOK
<1>2. ASSUME NEW us \in SUBSET Uris, IsFiniteSet(us), Unsubscribe(us), MapLeft(us), StartMoves,
             toClient' = toClient, srvSubs' = srvSubs
      PROVE  Wire' /\ MappedReads'
  <2>1. Told(us) /\ \A u \in Uris \ us : readers'[u] = readers[u]
    BY <1>1, <1>2, UnsubscribeFacts
  <2> QED BY <1>2, <2>1, WireLeft
<1>3. ASSUME NEW e \in EntryIds, NEW l \in 1..MaxLeases, ReleaseLast(e, l)
      PROVE  Wire' /\ MappedReads'
  <2> DEFINE us == {entry[e].uri}
  <2>1. Unsubscribe(us) /\ start' = start /\ toClient' = toClient /\ srvSubs' = srvSubs
    BY <1>3, Zenon DEF ReleaseLast, serverVars
  <2>2. us \in SUBSET Uris /\ MapLeft(us)
    BY <1>1, <1>3, ReleaseLastFacts
  <2>3. IsFiniteSet(us)
    BY FS_Singleton
  <2>4. StartMoves
    BY <2>1, Zenon DEF StartMoves
  <2> HIDE DEF us
  <2> QED BY <1>2, <2>1, <2>2, <2>3, <2>4
<1>4. ASSUME NEW e \in EntryIds, StartFails(e) PROVE Wire' /\ MappedReads'
  <2> DEFINE us == {entry[e].uri}
  <2>1. /\ Unsubscribe(us) /\ start[e] = "rejected" /\ start' = [start EXCEPT ![e] = "done"]
        /\ toClient' = toClient /\ srvSubs' = srvSubs
    BY <1>4, Zenon DEF StartFails, serverVars
  <2>2. us \in SUBSET Uris /\ MapLeft(us) /\ entry[e].uri \in Uris
    BY <1>1, <1>4, StartFailsFacts
  <2>3. IsFiniteSet(us)
    BY FS_Singleton
  <2>4. ~Current(e)'
    <3>1. entry'[e].uri = entry[e].uri
      BY <2>2, Zenon DEF MapLeft, EntryKept
    <3>2. entries'[entry[e].uri] = None
      BY <2>2, Zenon DEF MapLeft
    <3>3. e # None
      BY <1>1, MadeEntries, Zenon
    <3> QED BY <3>1, <3>2, <3>3, Zenon DEF Current
  <2>5. StartMoves
    BY <1>1, <2>1, <2>4, Zenon DEF StartMoves
  <2> HIDE DEF us
  <2> QED BY <1>2, <2>1, <2>2, <2>3, <2>5
<1>5. CASE Close
  <2>1. /\ start' = start /\ toClient' = toClient /\ srvSubs' = srvSubs
        /\ \E us \in SUBSET Uris : IsFiniteSet(us) /\ Unsubscribe(us) /\ MapLeft(us)
    BY <1>1, <1>5, CloseFacts
  <2>2. StartMoves
    BY <2>1, Zenon DEF StartMoves
  <2> QED BY <1>2, <2>1, <2>2, Zenon
<1> QED BY <1>3, <1>4, <1>5, Zenon

\* Once the client has ended it stays so, and only its end ends it.
LEMMA OpenBefore ==
    ASSUME [Next]_vars, clientOpen'
    PROVE  clientOpen /\ ~ClientEnds
<1>1. ~ClientEnds
  BY Zenon DEF ClientEnds
<1>2. ASSUME Next PROVE clientOpen' = clientOpen
  BY <1>1, <1>2, Zenon
     DEF Next, AcquireFirst, AcquireShared, ReleaseShared, ReleaseLast, Close, StartActivates,
         StartDiscards, StartFails, StartIgnored, PumpPublishes, PumpEnds, RequestTimesOut,
         ReceiveEvent, ReceiveAnswer, ServerAnswers, ServerUnsubscribes, ServerPublishes,
         clientVars
<1>3. ASSUME UNCHANGED vars PROVE clientOpen' = clientOpen
  BY <1>3, Zenon DEF vars, clientVars
<1> QED BY <1>1, <1>2, <1>3, Zenon

LEMMA WiredInit == Init => Wired
<1> SUFFICES ASSUME Init PROVE Wired
  OBVIOUS
<1>1. /\ entries = [u \in Uris |-> None] /\ toServer = <<>> /\ toClient = <<>> /\ srvSubs = {}
  BY Zenon DEF Init
<1>2. Len(toServer) = 0 /\ Len(toClient) = 0 /\ \A i \in 1..0 : FALSE
  BY <1>1
<1>3. AskedOnce
  BY <1>2, Zenon DEF AskedOnce, SentOnce, AnsweredOnce, SentOrAnswered, AnswersMade, AsksWait
<1>4. LastAsks /\ NoneAskedTwice
  BY <1>2, Zenon DEF LastAsks, NoneAskedTwice
<1>5. HeldIsMapped
  BY <1>1, <1>2, Zenon DEF HeldIsMapped, HeldAfter
<1>6. MappedIsHeld /\ MappedReads
  BY <1>1, Zenon DEF MappedIsHeld, MappedReads
<1> QED BY <1>3, <1>4, <1>5, <1>6 DEF Wired

\* Every step keeps the wire and the map in agreement.
LEMMA WiredStep == Mapped /\ Wired /\ [Next]_vars => Wired'
<1> SUFFICES ASSUME Mapped, Wired, [Next]_vars, clientOpen' PROVE Wire' /\ MappedReads'
  BY Zenon DEF Wired, Wire
<1>1. /\ clientOpen /\ ~ClientEnds
  BY OpenBefore
<1>2. Mapped' /\ Wire /\ MappedReads /\ Typed /\ MapPoints
  BY <1>1, MappedStep, Zenon DEF Wired, Wire, Mapped
<1>3. ASSUME Quiet, MapKept \/ \E d \in EntryIds : MapActivated(d) PROVE Wire' /\ MappedReads'
  BY <1>2, <1>3, KeptNeverReturns, WireQuiet
<1>4. ASSUME NEW u \in Uris, NEW o \in Options, AcquireFirst(u, o) PROVE Wire' /\ MappedReads'
  BY <1>1, <1>2, <1>4, WireJoined
<1>5. CASE \/ \E u \in Uris, o \in Options : AcquireShared(u, o)
           \/ \E e \in EntryIds, l \in 1..MaxLeases : ReleaseShared(e, l)
  <2>1. MapKept
    BY <1>2, <1>5, SharedFacts
  <2>2. Quiet
    BY <1>2, <1>5, QuietManager, Zenon
  <2> QED BY <1>3, <2>1, <2>2
<1>6. CASE \/ \E e \in EntryIds, l \in 1..MaxLeases : ReleaseLast(e, l)
           \/ \E e \in EntryIds : StartFails(e)
           \/ Close
  BY <1>1, <1>2, <1>6, WireLeaves
<1>7. ASSUME NEW e \in EntryIds, StartActivates(e) PROVE Wire' /\ MappedReads'
  <2>1. MapActivated(e)
    BY <1>2, <1>7, StartActivatesFacts
  <2>2. Quiet
    BY <1>2, <1>7, QuietManager, Zenon
  <2> QED BY <1>3, <2>1, <2>2, Zenon
<1>8. ASSUME NEW e \in EntryIds, \/ StartDiscards(e) \/ StartIgnored(e) \/ PumpPublishes(e)
                                 \/ PumpEnds(e) \/ RequestTimesOut(e)
      PROVE  Wire' /\ MappedReads'
  <2>1. Quiet
    BY <1>2, <1>8, QuietManager, Zenon
  <2>2. CASE StartDiscards(e) \/ StartIgnored(e)
    BY <1>2, <1>3, <2>1, <2>2, StartLateFacts
  <2>3. CASE PumpPublishes(e)
    BY <1>2, <1>3, <2>1, <2>3, PumpPublishesFacts
  <2>4. CASE PumpEnds(e)
    <3>1. ~Current(e)
      <4>1. e \notin readers[entry[e].uri] /\ e # None /\ entry[e].uri \in Uris
        BY <1>2, <2>4, MadeEntries, Zenon DEF PumpEnds
      <4> QED BY <1>2, <4>1, Zenon DEF Current, MappedReads
    <3> QED BY <1>2, <1>3, <2>1, <2>4, <3>1, PumpEndsFacts
  <2>5. CASE RequestTimesOut(e)
    BY <1>2, <1>3, <2>1, <2>5, TimeoutFacts
  <2> QED BY <1>8, <2>2, <2>3, <2>4, <2>5
<1>9. CASE ReceiveAnswer
  <2>1. Wire'
    BY <1>2, <1>9, WireAnswered
  <2>2. entries' = entries /\ readers' = readers
    BY <1>9, Zenon DEF ReceiveAnswer, clientVars
  <2> QED BY <1>2, <2>1, <2>2, Zenon DEF MappedReads
<1>10. CASE (\E ok \in BOOLEAN : ServerAnswers(ok)) \/ ServerUnsubscribes
  <2>1. Wire'
    BY <1>2, <1>10, WireServed
  <2>2. entries' = entries /\ readers' = readers
    BY <1>10, Zenon DEF ServerAnswers, ServerUnsubscribes, managerVars, clientVars
  <2> QED BY <1>2, <2>1, <2>2, Zenon DEF MappedReads
<1>11. CASE ReceiveEvent \/ (\E u \in Uris : ServerPublishes(u)) \/ UNCHANGED vars
  <2>1. Quiet
    BY <1>11, QuietRest
  <2>2. MapKept
    <3>1. entries' = entries /\ entry' = entry /\ lastEntry' = lastEntry /\ start' = start
      BY <1>11, Zenon DEF ReceiveEvent, ServerPublishes, vars, managerVars
    <3> QED BY <3>1, Zenon DEF MapKept, EntryKept, DoneStays
  <2> QED BY <1>3, <2>1, <2>2
<1> QED
  BY <1>1, <1>4, <1>5, <1>6, <1>7, <1>8, <1>9, <1>10, <1>11, Zenon DEF Next

LEMMA AlwaysWired == Spec => []Wired
<1>1. Init => Mapped /\ Wired
  BY MappedInit, WiredInit
<1>2. Mapped /\ Wired /\ [Next]_vars => (Mapped /\ Wired)'
  BY MappedStep, WiredStep
<1> QED BY <1>1, <1>2, PTL DEF Spec

\* No subscribe request reaches a server that still holds the URI, and once every
\* message is handled and every start() is done the server holds exactly the URIs
\* of the map, however acquires, releases, refusals, timeouts and close() overlap.
THEOREM OneSubscription == Spec => []OneWireSubscription
<1>1. Mapped /\ Wired => OneWireSubscription
  <2> SUFFICES ASSUME Mapped, Wired, clientOpen
               PROVE  /\ NoneAskedTwice
                      /\ (/\ toServer = <<>> /\ toClient = <<>>
                          /\ \A e \in EntryIds : start[e] \notin {"waiting", "answered", "rejected"})
                            => srvSubs = {u \in Uris : entries[u] # None}
    BY Zenon DEF OneWireSubscription, NoneAskedTwice
  <2>1. NoneAskedTwice
    BY Zenon DEF Wired
  <2>2. ASSUME toServer = <<>>, toClient = <<>>,
               \A e \in EntryIds : start[e] \notin {"waiting", "answered", "rejected"}
        PROVE  srvSubs = {u \in Uris : entries[u] # None}
    <3>1. Len(toServer) = 0 /\ \A k \in 1..0 : FALSE
      BY <2>2
    <3>2. \A u : HeldAfter(u, Len(toServer)) <=> u \in srvSubs
      BY <3>1, Zenon DEF HeldAfter
    <3>3. srvSubs \subseteq Uris
      BY Zenon DEF Mapped, Typed
    <3>4. \A u \in srvSubs : entries[u] # None
      BY <3>2, <3>3, Zenon DEF Wired, HeldIsMapped
    <3>5. ASSUME NEW u \in Uris, entries[u] # None PROVE u \in srvSubs
      <4>1. start[entries[u]] \notin {"waiting", "answered", "rejected"}
        BY <2>2, <3>5, MappedEntry
      <4>2. \/ HeldAfter(u, Len(toServer)) \/ start[entries[u]] \in {"waiting", "rejected"}
        BY <3>5, Zenon DEF Wired, MappedIsHeld
      <4> QED BY <3>2, <4>1, <4>2
    <3> QED BY <3>3, <3>4, <3>5, Zenon
  <2> QED BY <2>1, <2>2
<1> QED BY <1>1, AlwaysMapped, AlwaysWired, PTL

-----------------------------------------------------------------------------
(* What the leases get.                                                    *)

\* Queues are read by made entries of their URI.
ReadersMade == \A u \in Uris : \A e \in readers[u] : e \in 1..lastEntry /\ entry[e].uri = u

\* A request is for the URI of its entry.
AsksForItsUri ==
    \A i \in 1..Len(toServer) :
        toServer[i].m = "subscribe" => toServer[i].uri = entry[toServer[i].e].uri

\* Nothing waits for an entry that was not made yet.
FreshInboxes == \A e \in EntryIds : e \in 1..lastEntry \/ inbox[e] = <<>>

Known == ReadersMade /\ AsksForItsUri /\ FreshInboxes

IsEvent(k, u) == k \in 1..Len(toClient) /\ toClient[k].m = "event" /\ toClient[k].uri = u

\* The events of a channel are on the wire in their order.
WireInOrder ==
    \A u \in Uris :
        /\ \A j, k \in 1..Len(toClient) :
              IsEvent(j, u) /\ IsEvent(k, u) /\ j < k => toClient[j].n < toClient[k].n
        /\ \A k \in 1..Len(toClient) : IsEvent(k, u) => toClient[k].n <= log[u]

\* What the leases of an entry have or will be given of what has arrived.
Stream(e) == entry[e].got \o inbox[e]

StreamInOrder(e) ==
    /\ \A i, j \in 1..Len(Stream(e)) : i < j => Stream(e)[i] < Stream(e)[j]
    /\ \A i \in 1..Len(Stream(e)) : Stream(e)[i] <= log[entry[e].uri]
    /\ \A i \in 1..Len(Stream(e)), k \in 1..Len(toClient) :
          IsEvent(k, entry[e].uri) => Stream(e)[i] < toClient[k].n

Answered(e) == start[e] = "answered" \/ entry[e].status = "active"

\* The snapshot of an entry covers the first n events: it has been received, or
\* is on its way to a start() that waits for it.
Snapshot(e, n) ==
    \/ Answered(e) /\ entry[e].result = n
    \/ /\ start[e] = "waiting"
       /\ \E j \in 1..Len(toClient) :
             toClient[j].m = "result" /\ toClient[j].e = e /\ toClient[j].n = n

Arrives(e, m) ==
    \/ \E i \in 1..Len(Stream(e)) : Stream(e)[i] = m
    \/ \E k \in 1..Len(toClient) : IsEvent(k, entry[e].uri) /\ toClient[k].n = m

\* Every event beyond the snapshot arrives.
Complete(e) ==
    \A n \in Int : Snapshot(e, n) =>
        /\ n \in 0..log[entry[e].uri]
        /\ \A m \in (n + 1)..log[entry[e].uri] : Arrives(e, m)

Followed == \A e \in 1..lastEntry : Current(e) => StreamInOrder(e) /\ Complete(e)

Streamed == clientOpen => Known /\ WireInOrder /\ Followed

-----------------------------------------------------------------------------
(* What is known of readers, requests and inboxes.                         *)

\* A step of the manager leaves the URI of a made entry alone.
UrisStay ==
    /\ \A e \in 1..lastEntry : e \in 1..lastEntry' /\ entry'[e].uri = entry[e].uri

LEMMA UrisNeverChange ==
    ASSUME Mapped, \/ MapKept
                   \/ \E us \in SUBSET Uris : MapLeft(us)
                   \/ \E u \in Uris : MapJoined(u)
                   \/ \E e \in EntryIds : MapActivated(e)
    PROVE  UrisStay
<1> SUFFICES ASSUME NEW e \in 1..lastEntry
             PROVE  e \in 1..lastEntry' /\ entry'[e].uri = entry[e].uri
  BY Zenon DEF UrisStay
<1>1. e \in EntryIds /\ lastEntry \in Nat
  BY MadeEntries, Zenon DEF Mapped
<1>2. CASE MapKept
  BY <1>1, <1>2, Zenon DEF MapKept, EntryKept
<1>3. CASE \E us \in SUBSET Uris : MapLeft(us)
  <2> PICK us \in SUBSET Uris : MapLeft(us)
    BY <1>3
  <2>1. lastEntry' = lastEntry
    BY Zenon DEF MapLeft
  <2>2. entry'[e].uri = entry[e].uri
    BY <1>1, Zenon DEF MapLeft, EntryKept
  <2> QED BY <2>1, <2>2, Zenon
<1>4. CASE \E u \in Uris : MapJoined(u)
  <2> PICK u \in Uris : MapJoined(u)
    BY <1>4
  <2>1. lastEntry' = lastEntry + 1 /\ e # lastEntry + 1 /\ e \in 1..(lastEntry + 1)
    BY <1>1 DEF MapJoined
  <2>2. entry'[e] = entry[e]
    BY <1>1, <2>1, Zenon DEF MapJoined
  <2> QED BY <2>1, <2>2, Zenon
<1>5. CASE \E d \in EntryIds : MapActivated(d)
  <2> PICK d \in EntryIds : MapActivated(d)
    BY <1>5
  <2> QED BY <1>1, Zenon DEF MapActivated
<1> QED BY <1>2, <1>3, <1>4, <1>5

\* No reader comes, no request goes out, and what waits is for a made entry.
NothingNew ==
    /\ \A u \in Uris : readers'[u] \subseteq readers[u]
    /\ \A e \in EntryIds : e \in 1..lastEntry \/ inbox'[e] \in {inbox[e], <<>>}
    /\ \A i \in 1..Len(toServer') : toServer'[i].m = "subscribe" =>
          \E j \in 1..Len(toServer) : toServer'[i] = toServer[j]

LEMMA KnownKept ==
    ASSUME Mapped, AsksWait, Known, UrisStay, NothingNew
    PROVE  Known'
<1>1. ReadersMade'
  BY Zenon DEF Known, ReadersMade, UrisStay, NothingNew
<1>2. AsksForItsUri'
  <2> SUFFICES ASSUME NEW i \in 1..Len(toServer'), toServer'[i].m = "subscribe"
               PROVE  toServer'[i].uri = entry'[toServer'[i].e].uri
    BY Zenon DEF AsksForItsUri
  <2>1. PICK j \in 1..Len(toServer) : toServer'[i] = toServer[j]
    BY Zenon DEF NothingNew
  <2>2. toServer[j].e \in 1..lastEntry
    BY <2>1, Zenon DEF AsksWait, Asks
  <2>3. toServer[j].uri = entry[toServer[j].e].uri
    BY <2>1, Zenon DEF Known, AsksForItsUri
  <2> QED BY <2>1, <2>2, <2>3, Zenon DEF UrisStay
<1>3. FreshInboxes'
  BY Zenon DEF Known, FreshInboxes, UrisStay, NothingNew
<1> QED BY <1>1, <1>2, <1>3, Zenon DEF Known

\* The first message to the server is taken.
LEMMA TakenIsNotNew ==
    ASSUME Mapped, toServer # <<>>, toServer' = Tail(toServer), readers' = readers, inbox' = inbox
    PROVE  NothingNew
<1>1. \A i \in 1..Len(toServer') : toServer'[i] = toServer[i + 1] /\ i + 1 \in 1..Len(toServer)
  BY ToServerTail, Zenon DEF Mapped
<1> QED BY <1>1, Zenon DEF NothingNew

\* unsubscribe() of an open client.
LEMMA ToldIsNotNew ==
    ASSUME Mapped, NEW us \in SUBSET Uris, IsFiniteSet(us), clientOpen, Unsubscribe(us),
           \A e \in EntryIds : inbox'[e] \in {inbox[e], <<>>}
    PROVE  NothingNew
<1>1. Typed /\ toServer \in Seq(ToServer) /\ readers \in [Uris -> SUBSET EntryIds]
  BY Zenon DEF Mapped, Typed, TypeOK
<1>2. readers' = [u \in Uris |-> IF u \in us THEN {} ELSE readers[u]]
  BY Zenon DEF Unsubscribe
<1>3. \A u \in Uris : readers'[u] \subseteq readers[u]
  BY <1>2, Zenon
<1>4. PICK w \in Seq(ToServer) : /\ toServer' = toServer \o w
                                 /\ \A i \in 1..Len(w) : w[i].m = "unsubscribe"
  BY <1>1, UnsubscribeFacts, Zenon DEF Told
<1>5. ASSUME NEW i \in 1..Len(toServer'), toServer'[i].m = "subscribe"
      PROVE  \E j \in 1..Len(toServer) : toServer'[i] = toServer[j]
  <2>1. i \in 1..Len(toServer) \/ i - Len(toServer) \in 1..Len(w)
    BY <1>1, <1>4, <1>5, ConcatFacts
  <2>2. ASSUME i \in 1..Len(toServer) PROVE toServer'[i] = toServer[i]
    BY <1>1, <1>4, <2>2, ConcatFacts
  <2>3. ASSUME i - Len(toServer) \in 1..Len(w) PROVE FALSE
    <3>1. Len(toServer) + (i - Len(toServer)) = i
      BY <1>1
    <3>2. toServer'[i] = w[i - Len(toServer)]
      BY <1>1, <1>4, <2>3, <3>1, ConcatFacts
    <3> QED BY <1>4, <1>5, <2>3, <3>2
  <2> QED BY <2>1, <2>2, <2>3
<1> QED BY <1>3, <1>5, Zenon DEF NothingNew

LEMMA NotNew ==
    ASSUME Mapped, Known, clientOpen,
           \/ \E u \in Uris, o \in Options : AcquireShared(u, o)
           \/ \E e \in EntryIds, l \in 1..MaxLeases : ReleaseShared(e, l) \/ ReleaseLast(e, l)
           \/ Close
           \/ \E e \in EntryIds : \/ StartActivates(e) \/ StartDiscards(e) \/ StartFails(e)
                                  \/ StartIgnored(e) \/ PumpPublishes(e) \/ PumpEnds(e)
                                  \/ RequestTimesOut(e)
           \/ ReceiveEvent \/ ReceiveAnswer
           \/ \E ok \in BOOLEAN : ServerAnswers(ok)
           \/ ServerUnsubscribes
           \/ \E u \in Uris : ServerPublishes(u)
           \/ UNCHANGED vars
    PROVE  NothingNew
<1>1. /\ Typed /\ MapPoints /\ inbox \in [EntryIds -> Seq(1..MaxEvents)]
      /\ readers \in [Uris -> SUBSET EntryIds] /\ entry \in [EntryIds -> Entry]
  BY Zenon DEF Mapped, Typed, TypeOK
<1>2. ASSUME readers' = readers, toServer' = toServer, inbox' = inbox PROVE NothingNew
  BY <1>2, Zenon DEF NothingNew
<1>3. CASE \/ \E u \in Uris, o \in Options : AcquireShared(u, o)
           \/ \E e \in EntryIds, l \in 1..MaxLeases : ReleaseShared(e, l)
           \/ \E e \in EntryIds : StartActivates(e) \/ PumpEnds(e) \/ RequestTimesOut(e)
           \/ ReceiveAnswer
           \/ \E u \in Uris : ServerPublishes(u)
           \/ UNCHANGED vars
  <2>1. readers' = readers /\ toServer' = toServer /\ inbox' = inbox
    BY <1>3, Zenon DEF AcquireShared, ReleaseShared, StartActivates, PumpEnds, RequestTimesOut,
         ReceiveAnswer, ServerPublishes, vars, clientVars
  <2> QED BY <1>2, <2>1
<1>4. CASE (\E ok \in BOOLEAN : ServerAnswers(ok)) \/ ServerUnsubscribes
  <2>1. toServer # <<>> /\ toServer' = Tail(toServer) /\ readers' = readers /\ inbox' = inbox
    BY <1>4, Zenon DEF ServerAnswers, ServerUnsubscribes, clientVars
  <2> QED BY <2>1, TakenIsNotNew
<1>5. ASSUME NEW e \in EntryIds, NEW l \in 1..MaxLeases, ReleaseLast(e, l) PROVE NothingNew
  <2>1. /\ Unsubscribe({entry[e].uri})
        /\ inbox' = [inbox EXCEPT ![e] = IF pump[e] = "running" THEN <<>> ELSE inbox[e]]
    BY <1>5, Zenon DEF ReleaseLast
  <2>2. \A d \in EntryIds : inbox'[d] \in {inbox[d], <<>>}
    BY <1>1, <2>1, Zenon
  <2>3. {entry[e].uri} \in SUBSET Uris /\ IsFiniteSet({entry[e].uri})
    BY <1>1, MadeEntries, FS_Singleton, Zenon
  <2> QED BY <2>1, <2>2, <2>3, ToldIsNotNew
<1>6. ASSUME NEW e \in EntryIds, StartFails(e) PROVE NothingNew
  <2>1. Unsubscribe({entry[e].uri}) /\ inbox' = [inbox EXCEPT ![e] = <<>>]
    BY <1>6, Zenon DEF StartFails
  <2>2. \A d \in EntryIds : inbox'[d] \in {inbox[d], <<>>}
    BY <1>1, <2>1, Zenon
  <2>3. {entry[e].uri} \in SUBSET Uris /\ IsFiniteSet({entry[e].uri})
    BY <1>1, MadeEntries, FS_Singleton, Zenon
  <2> QED BY <2>1, <2>2, <2>3, ToldIsNotNew
<1>7. CASE Close
  <2>1. PICK us \in SUBSET Uris : IsFiniteSet(us) /\ Unsubscribe(us)
    BY <1>1, <1>7, CloseFacts, Zenon
  <2>2. \A d \in EntryIds : inbox'[d] \in {inbox[d], <<>>}
    BY <1>7, Zenon DEF Close, DisposeEntries
  <2> QED BY <2>1, <2>2, ToldIsNotNew
<1>8. ASSUME NEW e \in EntryIds, StartDiscards(e) \/ StartIgnored(e) PROVE NothingNew
  <2>1. /\ readers' = [readers EXCEPT ![entry[e].uri] = readers[entry[e].uri] \ {e}]
        /\ inbox' = [inbox EXCEPT ![e] = <<>>] /\ toServer' = toServer
    BY <1>8, Zenon DEF StartDiscards, StartIgnored
  <2>2. \A d \in EntryIds : inbox'[d] \in {inbox[d], <<>>}
    BY <1>1, <2>1, Zenon
  <2>3. \A u \in Uris : readers'[u] \subseteq readers[u]
    BY <1>1, <2>1
  <2> QED BY <2>1, <2>2, <2>3, Zenon DEF NothingNew
<1>9. ASSUME NEW e \in EntryIds, PumpPublishes(e) PROVE NothingNew
  <2>1. /\ inbox[e] # <<>> /\ inbox' = [inbox EXCEPT ![e] = Tail(inbox[e])]
        /\ readers' = readers /\ toServer' = toServer
    BY <1>9, Zenon DEF PumpPublishes
  <2>2. e \in 1..lastEntry
    BY <2>1, Zenon DEF Known, FreshInboxes
  <2>3. \A d \in EntryIds : d \in 1..lastEntry \/ inbox'[d] \in {inbox[d], <<>>}
    BY <1>1, <2>1, <2>2, Zenon
  <2> QED BY <2>1, <2>3, Zenon DEF NothingNew
<1>10. CASE ReceiveEvent
  <2>1. /\ toClient # <<>> /\ readers' = readers /\ toServer' = toServer
        /\ inbox' = [e \in EntryIds |-> IF e \in readers[Head(toClient).uri]
                                        THEN Append(inbox[e], Head(toClient).n) ELSE inbox[e]]
    BY <1>10, Zenon DEF ReceiveEvent
  <2>2. Head(toClient).uri \in Uris
    BY <1>1, <2>1, ToClientTail, Zenon DEF ToClient
  <2>3. \A e \in EntryIds : e \in 1..lastEntry \/ inbox'[e] = inbox[e]
    BY <2>1, <2>2, Zenon DEF Known, ReadersMade
  <2> QED BY <2>1, <2>3, Zenon DEF NothingNew
<1> QED BY <1>3, <1>4, <1>5, <1>6, <1>7, <1>8, <1>9, <1>10, Zenon

LEMMA KnownJoined ==
    ASSUME Mapped, Mapped', AsksWait, Known, clientOpen, NEW u \in Uris, NEW o \in Options,
           AcquireFirst(u, o)
    PROVE  Known'
<1> DEFINE e == lastEntry + 1
           x == Msg("subscribe", u, e)
<1>1. /\ Typed /\ readers \in [Uris -> SUBSET EntryIds] /\ toServer \in Seq(ToServer)
  BY Zenon DEF Mapped, Typed, TypeOK
<1>2. /\ readers' = [readers EXCEPT ![u] = readers[u] \cup {e}]
      /\ toServer' = Append(toServer, x) /\ inbox' = inbox /\ lastEntry' = e
  BY Zenon DEF AcquireFirst
<1>3. MapJoined(u)
  BY <1>1, AcquireFirstFacts
<1>4. UrisStay
  BY <1>3, UrisNeverChange
<1>5. lastEntry \in Nat /\ e \in 1..lastEntry' /\ entry'[e].uri = u
  BY <1>1, <1>2, <1>3, MadeEntries DEF MapJoined
<1>6. x.uri = u /\ x.e = e /\ x \in ToServer
  BY <1>3, SMT DEF Msg, ToServer, MapJoined
<1>7. /\ Len(toServer') = Len(toServer) + 1 /\ Len(toServer) \in Nat
      /\ toServer'[Len(toServer) + 1] = x
      /\ \A i \in 1..Len(toServer) : toServer'[i] = toServer[i]
  BY <1>1, <1>2, <1>6, AppendProperties
<1> HIDE DEF e, x
<1>8. ReadersMade'
  <2> SUFFICES ASSUME NEW v \in Uris, NEW d \in readers'[v]
               PROVE  d \in 1..lastEntry' /\ entry'[d].uri = v
    BY Zenon DEF ReadersMade
  <2>1. CASE d \in readers[v]
    BY <2>1, <1>4, Zenon DEF Known, ReadersMade, UrisStay
  <2>2. CASE d \notin readers[v]
    <3>1. d = e /\ v = u
      BY <1>1, <1>2, <2>2
    <3> QED BY <1>5, <3>1, Zenon
  <2> QED BY <2>1, <2>2
<1>9. AsksForItsUri'
  <2> SUFFICES ASSUME NEW i \in 1..Len(toServer'), toServer'[i].m = "subscribe"
               PROVE  toServer'[i].uri = entry'[toServer'[i].e].uri
    BY Zenon DEF AsksForItsUri
  <2>1. CASE i \in 1..Len(toServer)
    <3>1. toServer'[i] = toServer[i]
      BY <1>7, <2>1
    <3>2. toServer[i].e \in 1..lastEntry
      BY <2>1, <3>1, Zenon DEF AsksWait, Asks
    <3>3. toServer[i].uri = entry[toServer[i].e].uri
      BY <2>1, <3>1, Zenon DEF Known, AsksForItsUri
    <3> QED BY <1>4, <3>1, <3>2, <3>3, Zenon DEF UrisStay
  <2>2. CASE i \notin 1..Len(toServer)
    <3>1. i = Len(toServer) + 1
      BY <1>7, <2>2
    <3> QED BY <1>5, <1>6, <1>7, <3>1, Zenon
  <2> QED BY <2>1, <2>2
<1>10. FreshInboxes'
  BY <1>2, <1>4, Zenon DEF Known, FreshInboxes, UrisStay
<1> QED BY <1>8, <1>9, <1>10, Zenon DEF Known

-----------------------------------------------------------------------------
(* Streams and wire.                                                       *)

\* A step that leaves the wire to the client and what its leases see alone.
StreamsKept ==
    /\ toClient' = toClient /\ log' = log
    /\ \A e \in 1..lastEntry : Current(e)' =>
          /\ Current(e) /\ entry'[e].uri = entry[e].uri /\ Stream(e)' = Stream(e)
          /\ entry'[e].result = entry[e].result /\ (Answered(e)' => Answered(e))
          /\ start'[e] = "waiting" => start[e] = "waiting"

LEMMA FollowedKept ==
    ASSUME WireInOrder, Followed, StreamsKept
    PROVE  /\ WireInOrder'
           /\ \A e \in 1..lastEntry : Current(e)' => StreamInOrder(e)' /\ Complete(e)'
<1>1. toClient' = toClient /\ log' = log
  BY Zenon DEF StreamsKept
<1>2. WireInOrder'
  BY <1>1, Zenon DEF WireInOrder, IsEvent
<1>3. ASSUME NEW e \in 1..lastEntry, Current(e)' PROVE StreamInOrder(e)' /\ Complete(e)'
  <2>1. /\ entry'[e].uri = entry[e].uri /\ Stream(e)' = Stream(e)
        /\ entry'[e].result = entry[e].result /\ (Answered(e)' => Answered(e))
        /\ start'[e] = "waiting" => start[e] = "waiting"
        /\ StreamInOrder(e) /\ Complete(e)
    BY <1>3, Zenon DEF StreamsKept, Followed
  <2>2. StreamInOrder(e)'
    BY <1>1, <2>1, Zenon DEF StreamInOrder, IsEvent
  <2>3. \A n \in Int : Snapshot(e, n)' => Snapshot(e, n)
    BY <1>1, <2>1, Zenon DEF Snapshot
  <2>4. \A m : Arrives(e, m) => Arrives(e, m)'
    BY <1>1, <2>1, Zenon DEF Arrives, IsEvent
  <2>5. Complete(e)'
    BY <1>1, <2>1, <2>3, <2>4, Zenon DEF Complete
  <2> QED BY <2>2, <2>5
<1> QED BY <1>2, <1>3

\* The entries that the step leaves in the map are as they were.
Untouched ==
    /\ toClient' = toClient /\ log' = log
    /\ \A e \in 1..lastEntry : Current(e)' =>
          /\ Current(e) /\ entry'[e] = entry[e] /\ inbox'[e] = inbox[e]
          /\ start'[e] = start[e] \/ (start[e] = "waiting" /\ start'[e] = "rejected")

LEMMA UntouchedKept == Untouched => StreamsKept
<1> SUFFICES ASSUME Untouched PROVE StreamsKept
  OBVIOUS
<1>1. ASSUME NEW e \in 1..lastEntry, Current(e)'
      PROVE  /\ Current(e) /\ entry'[e].uri = entry[e].uri /\ Stream(e)' = Stream(e)
             /\ entry'[e].result = entry[e].result /\ (Answered(e)' => Answered(e))
             /\ start'[e] = "waiting" => start[e] = "waiting"
  <2>1. /\ Current(e) /\ entry'[e] = entry[e] /\ inbox'[e] = inbox[e]
        /\ start'[e] = start[e] \/ (start[e] = "waiting" /\ start'[e] = "rejected")
    BY <1>1, Zenon DEF Untouched
  <2>2. Stream(e)' = Stream(e)
    BY <2>1, Zenon DEF Stream
  <2>3. Answered(e)' => Answered(e)
    BY <2>1 DEF Answered
  <2> QED BY <2>1, <2>2, <2>3
<1> QED BY <1>1, Zenon DEF Untouched, StreamsKept

\* Steps after which an entry of the map is as it was.
LEMMA UntouchedManager ==
    ASSUME Mapped, MappedReads,
           \/ \E u \in Uris, o \in Options : AcquireFirst(u, o)
           \/ \E e \in EntryIds, l \in 1..MaxLeases : ReleaseLast(e, l)
           \/ Close
           \/ \E e \in EntryIds : \/ StartDiscards(e) \/ StartFails(e) \/ StartIgnored(e)
                                  \/ PumpEnds(e) \/ RequestTimesOut(e)
           \/ ServerUnsubscribes
           \/ UNCHANGED vars
    PROVE  Untouched
<1>1. /\ Typed /\ MapPoints /\ Lifecycle /\ ActiveIsStarted
      /\ inbox \in [EntryIds -> Seq(1..MaxEvents)]
      /\ entry \in [EntryIds -> Entry] /\ entries \in [Uris -> EntryIds \cup {None}]
      /\ start \in [EntryIds -> {"none", "waiting", "answered", "rejected", "done"}]
      /\ lastEntry \in Nat
      /\ \A e \in 1..lastEntry : e \in EntryIds /\ e # None /\ entry[e].uri \in Uris
      /\ \A e \in EntryIds : e # None /\ entry[e].uri \in Uris
  BY MadeEntries, Zenon DEF Mapped, Typed, TypeOK
<1>2. ASSUME NEW d \in EntryIds, NoneReturns, ~Current(d)', toClient' = toClient, log' = log,
             \A e \in EntryIds : e # d =>
                entry'[e] = entry[e] /\ inbox'[e] = inbox[e] /\ start'[e] = start[e]
      PROVE  Untouched
  BY <1>1, <1>2, Zenon DEF Untouched, NoneReturns
<1>3. ASSUME toClient' = toClient, log' = log, entries' = entries, entry' = entry,
             inbox' = inbox, start' = start
      PROVE  Untouched
  BY <1>3, Zenon DEF Untouched, Current
<1>4. ASSUME NEW d \in EntryIds, MapLeft({entry[d].uri}), Current(d) PROVE ~Current(d)'
  <2>1. entry'[d].uri = entry[d].uri /\ entries'[entry[d].uri] = None
    BY <1>1, <1>4, Zenon DEF MapLeft, EntryKept
  <2> QED BY <1>1, <2>1, Zenon DEF Current
<1>5. ASSUME NEW u \in Uris, NEW o \in Options, AcquireFirst(u, o) PROVE Untouched
  <2> DEFINE n == lastEntry + 1
  <2>1. /\ toClient' = toClient /\ log' = log /\ inbox' = inbox
    BY <1>5, Zenon DEF AcquireFirst, serverVars
  <2>2. /\ entries[u] = None /\ n \in EntryIds
        /\ entries' = [entries EXCEPT ![u] = n]
        /\ \A d \in EntryIds \ {n} : entry'[d] = entry[d] /\ start'[d] = start[d]
    BY <1>1, <1>5, AcquireFirstFacts, Zenon DEF MapJoined
  <2>3. \A e \in 1..lastEntry : e # n
    BY <1>1
  <2> HIDE DEF n
  <2>4. ASSUME NEW e \in 1..lastEntry, Current(e)' PROVE Current(e)
    <3>1. entries'[entry[e].uri] = e
      BY <1>1, <2>2, <2>3, <2>4, Zenon DEF Current
    <3>2. entry[e].uri # u
      BY <1>1, <2>2, <2>3, <3>1, Zenon
    <3> QED BY <1>1, <2>2, <3>1, <3>2, Zenon DEF Current
  <2> QED BY <1>1, <2>1, <2>2, <2>3, <2>4, Zenon DEF Untouched
<1>6. ASSUME NEW d \in EntryIds, NEW l \in 1..MaxLeases, ReleaseLast(d, l) PROVE Untouched
  <2>1. /\ toClient' = toClient /\ log' = log /\ start' = start /\ Current(d)
        /\ entry' = [entry EXCEPT ![d] = [Ended(entry[d]) EXCEPT !.holders = {}]]
        /\ inbox' = [inbox EXCEPT ![d] = IF pump[d] = "running" THEN <<>> ELSE inbox[d]]
    BY <1>6, Zenon DEF ReleaseLast, serverVars
  <2>2. MapLeft({entry[d].uri})
    BY <1>1, <1>6, ReleaseLastFacts
  <2>3. NoneReturns
    BY <2>2, LeftNeverReturns
  <2> QED BY <1>1, <1>2, <1>4, <2>1, <2>2, <2>3, Zenon
<1>7. ASSUME NEW d \in EntryIds, StartFails(d) PROVE Untouched
  <2>1. /\ toClient' = toClient /\ log' = log /\ start' = [start EXCEPT ![d] = "done"]
        /\ Current(d) /\ entry' = [entry EXCEPT ![d] = [Fail(entry[d]) EXCEPT !.open = FALSE]]
        /\ inbox' = [inbox EXCEPT ![d] = <<>>]
    BY <1>7, Zenon DEF StartFails, serverVars
  <2>2. MapLeft({entry[d].uri})
    BY <1>1, <1>7, StartFailsFacts
  <2>3. NoneReturns
    BY <2>2, LeftNeverReturns
  <2> QED BY <1>1, <1>2, <1>4, <2>1, <2>2, <2>3, Zenon
<1>8. CASE Close
  <2>1. toClient' = toClient /\ log' = log /\ entries' = [u \in Uris |-> None]
    BY <1>8, Zenon DEF Close, serverVars
  <2>2. PICK us \in SUBSET Uris : MapLeft(us)
    BY <1>1, <1>8, CloseFacts, Zenon
  <2>3. \A e \in 1..lastEntry : entry'[e].uri = entry[e].uri
    BY <1>1, <2>2, Zenon DEF MapLeft, EntryKept
  <2>4. \A e \in 1..lastEntry : ~Current(e)'
    BY <1>1, <2>1, <2>3, Zenon DEF Current
  <2> QED BY <2>1, <2>4, Zenon DEF Untouched
<1>9. ASSUME NEW d \in EntryIds, StartDiscards(d) \/ StartIgnored(d) PROVE Untouched
  <2>1. /\ toClient' = toClient /\ log' = log /\ start' = [start EXCEPT ![d] = "done"]
        /\ ~Current(d) /\ entry' = entry /\ entries' = entries
        /\ inbox' = [inbox EXCEPT ![d] = <<>>]
    BY <1>9, Zenon DEF StartDiscards, StartIgnored, serverVars
  <2>2. NoneReturns /\ ~Current(d)'
    BY <2>1, Zenon DEF NoneReturns, Current
  <2> QED BY <1>1, <1>2, <2>1, <2>2, Zenon
<1>10. ASSUME NEW d \in EntryIds, PumpEnds(d) PROVE Untouched
  <2>1. ~Current(d)
    <3>1. d \notin readers[entry[d].uri]
      BY <1>10, Zenon DEF PumpEnds
    <3> QED BY <1>1, <3>1, Zenon DEF Current, MappedReads
  <2> QED BY <1>3, <1>10, <2>1, Zenon DEF PumpEnds, clientVars, serverVars
<1>11. ASSUME NEW d \in EntryIds, RequestTimesOut(d) PROVE Untouched
  <2>1. /\ toClient' = toClient /\ log' = log /\ entries' = entries /\ entry' = entry
        /\ inbox' = inbox /\ start[d] = "waiting" /\ start' = [start EXCEPT ![d] = "rejected"]
    BY <1>11, Zenon DEF RequestTimesOut, clientVars, serverVars
  <2>2. \A e \in EntryIds :
           start'[e] = start[e] \/ (start[e] = "waiting" /\ start'[e] = "rejected")
    BY <1>1, <2>1, Zenon
  <2> QED BY <1>1, <2>1, <2>2, Zenon DEF Untouched, Current
<1>12. CASE ServerUnsubscribes \/ UNCHANGED vars
  BY <1>3, <1>12, Zenon DEF ServerUnsubscribes, vars, managerVars, clientVars, serverVars
<1> QED BY <1>5, <1>6, <1>7, <1>8, <1>9, <1>10, <1>11, <1>12, Zenon

\* acquire() of a URI with an entry, and a release that leaves a holder.
LEMMA SharedStreams ==
    ASSUME Mapped,
           \/ \E u \in Uris, o \in Options : AcquireShared(u, o)
           \/ \E e \in EntryIds, l \in 1..MaxLeases : ReleaseShared(e, l)
    PROVE  StreamsKept
<1>1. Typed /\ MapPoints /\ entry \in [EntryIds -> Entry]
      /\ \A e \in 1..lastEntry : e \in EntryIds
  BY MadeEntries, Zenon DEF Mapped, Typed, TypeOK
<1>2. /\ toClient' = toClient /\ log' = log /\ inbox' = inbox /\ start' = start
      /\ entries' = entries
  BY Zenon DEF AcquireShared, ReleaseShared, clientVars, serverVars
<1>3. \E d, X : entry' = [entry EXCEPT ![d] = [entry[d] EXCEPT !.holders = X]]
  BY Zenon DEF AcquireShared, ReleaseShared
<1>4. PICK d, X : entry' = [entry EXCEPT ![d] = [entry[d] EXCEPT !.holders = X]]
  BY <1>3
<1>5. ASSUME NEW e \in EntryIds
      PROVE  /\ entry'[e].uri = entry[e].uri /\ entry'[e].got = entry[e].got
             /\ entry'[e].result = entry[e].result /\ entry'[e].status = entry[e].status
  <2>1. entry[e] \in Entry
    BY <1>1, Zenon
  <2>2. entry'[e] = entry[e] \/ entry'[e] = [entry[e] EXCEPT !.holders = X]
    BY <1>1, <1>4, Zenon
  <2> QED BY <2>1, <2>2, Zenon DEF Entry
<1>6. \A e \in EntryIds : /\ Current(e)' => Current(e)
                          /\ Stream(e)' = Stream(e) /\ (Answered(e)' => Answered(e))
  BY <1>2, <1>5, Zenon DEF Current, Stream, Answered
<1> QED BY <1>1, <1>2, <1>5, <1>6, Zenon DEF StreamsKept

LEMMA ActivatedStreams ==
    ASSUME Mapped, NEW d \in EntryIds, StartActivates(d)
    PROVE  StreamsKept
<1>1. /\ Typed /\ entry \in [EntryIds -> Entry] /\ (\A e \in 1..lastEntry : e \in EntryIds)
      /\ start \in [EntryIds -> {"none", "waiting", "answered", "rejected", "done"}]
  BY MadeEntries, Zenon DEF Mapped, Typed, TypeOK
<1>2. /\ toClient' = toClient /\ log' = log /\ inbox' = inbox /\ entries' = entries
      /\ start[d] = "answered" /\ start' = [start EXCEPT ![d] = "done"]
      /\ entry' = [entry EXCEPT ![d] = Activate(entry[d], entry[d].result)]
  BY Zenon DEF StartActivates, clientVars, serverVars
<1>3. /\ entry'[d].uri = entry[d].uri /\ entry'[d].got = entry[d].got
      /\ entry'[d].result = entry[d].result
  <2>1. entry[d] \in Entry
    BY <1>1, Zenon
  <2>2. entry'[d] = Activate(entry[d], entry[d].result)
    BY <1>1, <1>2, Zenon
  <2> QED BY <2>1, <2>2, Zenon DEF Entry, Activate
<1>4. \A e \in EntryIds : e # d => entry'[e] = entry[e]
  BY <1>1, <1>2, Zenon
<1>5. start'[d] = "done" /\ \A e \in EntryIds : e # d => start'[e] = start[e]
  BY <1>1, <1>2, Zenon
<1>6. \A e \in EntryIds : /\ entry'[e].uri = entry[e].uri /\ entry'[e].got = entry[e].got
                          /\ entry'[e].result = entry[e].result
  BY <1>3, <1>4, Zenon
<1>7. \A e \in EntryIds : /\ Current(e)' => Current(e)
                          /\ Stream(e)' = Stream(e) /\ (Answered(e)' => Answered(e))
                          /\ start'[e] = "waiting" => start[e] = "waiting"
  BY <1>2, <1>4, <1>5, <1>6 DEF Current, Stream, Answered
<1> QED BY <1>1, <1>2, <1>6, <1>7, Zenon DEF StreamsKept

\* What the pump takes from the Subscription it hands to the leases.
LEMMA PumpedStreams ==
    ASSUME Mapped, NEW d \in EntryIds, PumpPublishes(d)
    PROVE  StreamsKept
<1>1. Typed /\ MapPoints /\ Lifecycle /\ entry \in [EntryIds -> Entry]
      /\ inbox \in [EntryIds -> Seq(1..MaxEvents)]
      /\ \A e \in 1..lastEntry : e \in EntryIds
  BY MadeEntries, Zenon DEF Mapped, Typed, TypeOK
<1> DEFINE g == IF entry[d].open THEN Append(entry[d].got, Head(inbox[d])) ELSE entry[d].got
<1>2. /\ toClient' = toClient /\ log' = log /\ start' = start /\ entries' = entries
      /\ inbox[d] # <<>> /\ inbox' = [inbox EXCEPT ![d] = Tail(inbox[d])]
      /\ entry' = [entry EXCEPT ![d] = [entry[d] EXCEPT !.got = g]]
  BY Zenon DEF PumpPublishes, serverVars
<1>3. /\ entry'[d].uri = entry[d].uri /\ entry'[d].got = g
      /\ entry'[d].result = entry[d].result /\ entry'[d].status = entry[d].status
  <2>1. entry[d] \in Entry
    BY <1>1, Zenon
  <2>2. entry'[d] = [entry[d] EXCEPT !.got = g]
    BY <1>1, <1>2, Zenon
  <2> QED BY <2>1, <2>2, Zenon DEF Entry
<1>4. \A e \in EntryIds : e # d => entry'[e] = entry[e] /\ inbox'[e] = inbox[e]
  BY <1>1, <1>2, Zenon
<1>5. \A e \in EntryIds : /\ entry'[e].uri = entry[e].uri
                          /\ entry'[e].result = entry[e].result /\ entry'[e].status = entry[e].status
  BY <1>3, <1>4, Zenon
<1>6. \A e \in EntryIds : (Current(e)' => Current(e)) /\ (Answered(e)' => Answered(e))
  BY <1>2, <1>5, Zenon DEF Current, Answered
<1>7. ASSUME Current(d) PROVE Stream(d)' = Stream(d)
  <2>1. entry[d].open
    BY <1>1, <1>7, MadeEntries, Zenon DEF Lifecycle
  <2>2. inbox[d] \in Seq(1..MaxEvents) /\ entry[d].got \in Seq(1..MaxEvents)
    BY <1>1, Zenon DEF Entry
  <2>3. entry'[d].got = Append(entry[d].got, Head(inbox[d])) /\ inbox'[d] = Tail(inbox[d])
    BY <1>1, <1>2, <1>3, <2>1, Zenon
  <2>4. Append(entry[d].got, Head(inbox[d])) \o Tail(inbox[d]) = entry[d].got \o inbox[d]
    <3> DEFINE a == entry[d].got
               b == inbox[d]
    <3>1. a \in Seq(1..MaxEvents) /\ b \in Seq(1..MaxEvents) /\ b # <<>>
      BY <1>2, <2>2
    <3> HIDE DEF a, b
    <3>2. Append(a, Head(b)) \o Tail(b) = a \o b
      BY <3>1
    <3> QED BY <3>2 DEF a, b
  <2> QED BY <2>3, <2>4, Zenon DEF Stream
<1>8. \A e \in EntryIds : Current(e) => Stream(e)' = Stream(e)
  BY <1>4, <1>7, Zenon DEF Stream
<1> QED BY <1>1, <1>2, <1>5, <1>6, <1>8, Zenon DEF StreamsKept

\* An answer leaves the wire; that of a start() that waits is its snapshot.
LEMMA AnsweredStreams ==
    ASSUME Mapped, AskedOnce, WireInOrder, Followed, ReceiveAnswer
    PROVE  WireInOrder' /\ Followed'
<1> DEFINE d == Head(toClient).e
<1>1. /\ Typed /\ entry \in [EntryIds -> Entry]
      /\ start \in [EntryIds -> {"none", "waiting", "answered", "rejected", "done"}]
      /\ (\A e \in 1..lastEntry : e \in EntryIds)
      /\ \A e \in EntryIds : entry[e].uri \in Uris
  BY MadeEntries, Zenon DEF Mapped, Typed, TypeOK
<1>2. /\ toClient # <<>> /\ toClient' = Tail(toClient) /\ entries' = entries
      /\ Head(toClient).m \in {"result", "error"}
      /\ lastEntry' = lastEntry /\ inbox' = inbox /\ log' = log
  BY Zenon DEF ReceiveAnswer, clientVars, serverVars
<1>3. /\ 1 \in 1..Len(toClient) /\ Head(toClient) = toClient[1]
      /\ Len(toClient) \in Nat /\ Len(toClient') = Len(toClient) - 1
      /\ \A i \in 1..Len(toClient') : toClient'[i] = toClient[i + 1] /\ i + 1 \in 1..Len(toClient)
      /\ \A i \in 1..Len(toClient) :
           i = 1 \/ (i - 1 \in 1..Len(toClient') /\ toClient'[i - 1] = toClient[i])
  BY <1>1, <1>2, ToClientTail, Zenon
<1>4. Answers(1) /\ d \in EntryIds
  BY <1>1, <1>2, <1>3, Zenon DEF Answers, AskedOnce, AnswersMade
<1>5. /\ \A i \in 1..Len(toClient') : \A u : IsEvent(i, u)' => IsEvent(i + 1, u)
      /\ \A i \in 1..Len(toClient) : \A u :
            IsEvent(i, u) => IsEvent(i - 1, u)' /\ toClient'[i - 1] = toClient[i]
  <2>1. \A i \in 1..Len(toClient) : \A u : IsEvent(i, u) => i # 1
    BY <1>2, <1>3 DEF IsEvent
  <2> QED BY <1>3, <2>1, Zenon DEF IsEvent
<1>6. WireInOrder'
  <2>1. \A j, k \in 1..Len(toClient') : j < k => j + 1 < k + 1
    BY <1>3
  <2>2. \A u \in Uris : \A j, k \in 1..Len(toClient') :
           IsEvent(j, u)' /\ IsEvent(k, u)' /\ j < k => toClient'[j].n < toClient'[k].n
    <3> SUFFICES ASSUME NEW u \in Uris, NEW j \in 1..Len(toClient'), NEW k \in 1..Len(toClient'),
                        IsEvent(j, u)', IsEvent(k, u)', j < k
                 PROVE  toClient'[j].n < toClient'[k].n
      BY Zenon
    <3>1. /\ j + 1 \in 1..Len(toClient) /\ k + 1 \in 1..Len(toClient) /\ j + 1 < k + 1
          /\ IsEvent(j + 1, u) /\ IsEvent(k + 1, u)
          /\ toClient'[j] = toClient[j + 1] /\ toClient'[k] = toClient[k + 1]
      BY <1>3, <1>5, <2>1, Zenon
    <3> QED BY <3>1, Zenon DEF WireInOrder
  <2>3. \A u \in Uris : \A k \in 1..Len(toClient') : IsEvent(k, u)' => toClient'[k].n <= log'[u]
    BY <1>2, <1>3, <1>5, Zenon DEF WireInOrder
  <2> QED BY <2>2, <2>3, Zenon DEF WireInOrder
<1>7. /\ \A e \in EntryIds : e # d => entry'[e] = entry[e] /\ start'[e] = start[e]
      /\ \/ /\ start[d] = "waiting" /\ entry'[d] = [entry[d] EXCEPT !.result = Head(toClient).n]
            /\ start'[d] = IF Head(toClient).m = "result" THEN "answered" ELSE "rejected"
         \/ entry'[d] = entry[d] /\ start'[d] = start[d] /\ start[d] # "waiting"
  <2>1. \/ /\ start[d] = "waiting"
           /\ start' = [start EXCEPT ![d] = IF Head(toClient).m = "result" THEN "answered" ELSE "rejected"]
           /\ entry' = [entry EXCEPT ![d] = [entry[d] EXCEPT !.result = Head(toClient).n]]
        \/ start' = start /\ entry' = entry /\ start[d] # "waiting"
    BY Zenon DEF ReceiveAnswer
  <2> HIDE DEF d
  <2>2. CASE start' = start /\ entry' = entry /\ start[d] # "waiting"
    BY <2>2, Zenon
  <2>3. CASE /\ start[d] = "waiting"
             /\ start' = [start EXCEPT ![d] = IF Head(toClient).m = "result" THEN "answered" ELSE "rejected"]
             /\ entry' = [entry EXCEPT ![d] = [entry[d] EXCEPT !.result = Head(toClient).n]]
    BY <1>1, <1>4, <2>3, Zenon
  <2> QED BY <2>1, <2>2, <2>3
<1> HIDE DEF d
<1>8. \A e \in EntryIds : /\ entry'[e].uri = entry[e].uri /\ entry'[e].got = entry[e].got
                          /\ entry'[e].status = entry[e].status
  <2>1. entry[d] \in Entry
    BY <1>1, <1>4, Zenon
  <2>2. /\ entry'[d].uri = entry[d].uri /\ entry'[d].got = entry[d].got
        /\ entry'[d].status = entry[d].status
    BY <1>7, <2>1, Zenon DEF Entry
  <2> QED BY <1>7, <2>2, Zenon
<1>9. ASSUME NEW e \in 1..lastEntry, Current(e)' PROVE StreamInOrder(e)' /\ Complete(e)'
  <2>1. e \in EntryIds /\ entry[e].uri \in Uris /\ entry'[e].uri = entry[e].uri
    BY <1>1, <1>8, Zenon
  <2>2. StreamInOrder(e) /\ Complete(e)
    BY <1>2, <1>9, <2>1, Zenon DEF Current, Followed
  <2>3. Stream(e)' = Stream(e)
    BY <1>2, <1>8, <2>1, Zenon DEF Stream
  <2>4. StreamInOrder(e)'
    <3>1. ASSUME NEW i \in 1..Len(Stream(e)), NEW k \in 1..Len(toClient'), IsEvent(k, entry[e].uri)'
          PROVE  Stream(e)[i] < toClient'[k].n
      <4>1. /\ k + 1 \in 1..Len(toClient) /\ IsEvent(k + 1, entry[e].uri)
            /\ toClient'[k] = toClient[k + 1]
        BY <1>3, <1>5, <2>1, <3>1, Zenon
      <4> QED BY <2>2, <4>1, Zenon DEF StreamInOrder
    <3> QED BY <1>2, <2>1, <2>2, <2>3, <3>1, Zenon DEF StreamInOrder
  <2>5. ASSUME NEW n \in Int, Snapshot(e, n)' PROVE Snapshot(e, n)
    <3>1. ASSUME start'[e] = "waiting",
                 NEW j \in 1..Len(toClient'), toClient'[j].m = "result", toClient'[j].e = e,
                 toClient'[j].n = n
          PROVE  Snapshot(e, n)
      <4>1. start[e] = "waiting"
        BY <1>7, <2>1, <3>1
      <4> QED BY <1>3, <3>1, <4>1, Zenon DEF Snapshot
    <3>2. ASSUME Answered(e)', entry'[e].result = n PROVE Snapshot(e, n)
      <4>1. CASE e # d \/ start[d] # "waiting"
        <5>1. entry'[e] = entry[e] /\ start'[e] = start[e]
          BY <1>7, <2>1, <4>1, Zenon
        <5> QED BY <3>2, <5>1, Zenon DEF Answered, Snapshot
      <4>2. CASE e = d /\ start[d] = "waiting"
        <5>1. entry'[e].status # "active"
          BY <1>8, <2>1, <4>2 DEF Mapped, ActiveIsStarted
        <5>2. start'[e] = "answered" /\ Head(toClient).m = "result"
          BY <1>2, <1>7, <3>2, <4>2, <5>1 DEF Answered
        <5>3. entry[d] \in Entry /\ entry'[d] = [entry[d] EXCEPT !.result = Head(toClient).n]
          BY <1>1, <1>4, <1>7, <4>2, Zenon
        <5>4. entry'[d].result = Head(toClient).n
          BY <5>3, Zenon DEF Entry
        <5> QED BY <1>3, <3>2, <4>2, <5>2, <5>4, Zenon DEF Snapshot, d
      <4> QED BY <4>1, <4>2
    <3> QED BY <2>5, <3>1, <3>2, Zenon DEF Snapshot
  <2>6. \A m : Arrives(e, m) => Arrives(e, m)'
    <3>1. ASSUME NEW k \in 1..Len(toClient), IsEvent(k, entry[e].uri)
          PROVE  k - 1 \in 1..Len(toClient') /\ IsEvent(k - 1, entry[e].uri)'
                 /\ toClient'[k - 1] = toClient[k]
      BY <1>5, <2>1, <3>1, Zenon DEF IsEvent
    <3> QED BY <2>1, <2>3, <3>1, Zenon DEF Arrives
  <2>7. Complete(e)'
    BY <1>2, <2>1, <2>2, <2>5, <2>6, Zenon DEF Complete
  <2> QED BY <2>4, <2>7
<1> QED BY <1>2, <1>6, <1>9, Zenon DEF Followed

\* An event leaves the wire for the Subscriptions that read its channel, that of
\* the entry in the map among them.
LEMMA ReceivedStreams ==
    ASSUME Mapped, MappedReads, Known, WireInOrder, Followed, ReceiveEvent
    PROVE  WireInOrder' /\ Followed'
<1> DEFINE v == Head(toClient).uri
           x == Head(toClient).n
<1>1. /\ Typed /\ entry \in [EntryIds -> Entry] /\ inbox \in [EntryIds -> Seq(1..MaxEvents)]
      /\ (\A e \in 1..lastEntry : e \in EntryIds)
      /\ \A e \in EntryIds : e # None /\ entry[e].uri \in Uris
  BY MadeEntries, Zenon DEF Mapped, Typed, TypeOK
<1>2. /\ toClient # <<>> /\ Head(toClient).m = "event" /\ toClient' = Tail(toClient)
      /\ inbox' = [e \in EntryIds |-> IF e \in readers[v] THEN Append(inbox[e], x) ELSE inbox[e]]
      /\ entries' = entries /\ entry' = entry /\ start' = start
      /\ lastEntry' = lastEntry /\ log' = log
  BY Zenon DEF ReceiveEvent, managerVars, serverVars
<1>3. /\ 1 \in 1..Len(toClient) /\ Head(toClient) = toClient[1]
      /\ Len(toClient) \in Nat /\ Len(toClient') = Len(toClient) - 1
      /\ \A i \in 1..Len(toClient') : toClient'[i] = toClient[i + 1] /\ i + 1 \in 1..Len(toClient)
      /\ \A i \in 1..Len(toClient) :
           i = 1 \/ (i - 1 \in 1..Len(toClient') /\ toClient'[i - 1] = toClient[i])
  BY <1>1, <1>2, ToClientTail, Zenon
<1>4. Head(toClient) \in ToClient /\ x \in 1..MaxEvents
  BY <1>1, <1>2, ToClientTail, Zenon
<1>5. v \in Uris /\ IsEvent(1, v) /\ toClient[1].n = x
  BY <1>2, <1>3, <1>4, Zenon DEF IsEvent, ToClient
<1> HIDE DEF v, x
<1>6. /\ \A i \in 1..Len(toClient') : 1 < i + 1
      /\ \A j, k \in 1..Len(toClient') : j < k => j + 1 < k + 1
  BY <1>3
<1>7. \A i \in 1..Len(toClient') : \A u : IsEvent(i, u)' =>
         IsEvent(i + 1, u) /\ i + 1 \in 1..Len(toClient) /\ toClient'[i] = toClient[i + 1]
  BY <1>3, Zenon DEF IsEvent
<1>8. WireInOrder'
  <2>1. ASSUME NEW u \in Uris, NEW j \in 1..Len(toClient'), NEW k \in 1..Len(toClient'),
               IsEvent(j, u)', IsEvent(k, u)', j < k
        PROVE  toClient'[j].n < toClient'[k].n
    <3>1. /\ j + 1 \in 1..Len(toClient) /\ k + 1 \in 1..Len(toClient) /\ j + 1 < k + 1
          /\ IsEvent(j + 1, u) /\ IsEvent(k + 1, u)
          /\ toClient'[j] = toClient[j + 1] /\ toClient'[k] = toClient[k + 1]
      BY <1>6, <1>7, <2>1, Zenon
    <3> QED BY <3>1, Zenon DEF WireInOrder
  <2>2. \A u \in Uris : \A k \in 1..Len(toClient') : IsEvent(k, u)' => toClient'[k].n <= log'[u]
    BY <1>2, <1>7, Zenon DEF WireInOrder
  <2> QED BY <2>1, <2>2, Zenon DEF WireInOrder
<1>9. ASSUME NEW e \in 1..lastEntry, Current(e)' PROVE StreamInOrder(e)' /\ Complete(e)'
  <2>1. /\ e \in EntryIds /\ entry[e].uri \in Uris /\ Current(e)
        /\ StreamInOrder(e) /\ Complete(e)
    BY <1>1, <1>2, <1>9, Zenon DEF Current, Followed
  <2> DEFINE u == entry[e].uri
             s == Stream(e)
  <2>2. \A n \in Int : Snapshot(e, n)' => Snapshot(e, n)
    <3>1. \A n \in Int : (Answered(e) /\ entry[e].result = n)' => Answered(e) /\ entry[e].result = n
      BY <1>2, Zenon DEF Answered
    <3>2. \A n : (\E j \in 1..Len(toClient') :
                    toClient'[j].m = "result" /\ toClient'[j].e = e /\ toClient'[j].n = n)
              => \E j \in 1..Len(toClient) :
                    toClient[j].m = "result" /\ toClient[j].e = e /\ toClient[j].n = n
      BY <1>3
    <3> QED BY <1>2, <3>1, <3>2, Zenon DEF Snapshot
  <2>3. /\ inbox[e] \in Seq(1..MaxEvents) /\ entry[e].got \in Seq(1..MaxEvents)
        /\ s \in Seq(1..MaxEvents)
    <3>1. inbox[e] \in Seq(1..MaxEvents) /\ entry[e].got \in Seq(1..MaxEvents)
      BY <1>1, <2>1, Zenon DEF Entry
    <3> QED BY <3>1 DEF Stream
  <2>4. CASE u # v
    <3>1. inbox'[e] = inbox[e]
      BY <1>2, <1>5, <2>1, <2>4, Zenon DEF Known, ReadersMade
    <3>2. Stream(e)' = Stream(e)
      BY <1>2, <3>1, Zenon DEF Stream
    <3>3. StreamInOrder(e)'
      <4>1. ASSUME NEW i \in 1..Len(s), NEW k \in 1..Len(toClient'), IsEvent(k, u)'
            PROVE  s[i] < toClient'[k].n
        <5>1. /\ k + 1 \in 1..Len(toClient) /\ IsEvent(k + 1, u) /\ toClient'[k] = toClient[k + 1]
          BY <1>2, <1>7, <4>1, Zenon
        <5> QED BY <2>1, <5>1, Zenon DEF StreamInOrder
      <4> QED BY <1>2, <2>1, <3>2, <4>1, Zenon DEF StreamInOrder
    <3>4. \A m : Arrives(e, m) => Arrives(e, m)'
      <4>1. ASSUME NEW k \in 1..Len(toClient), IsEvent(k, u)
            PROVE  k - 1 \in 1..Len(toClient') /\ IsEvent(k - 1, u)'
                   /\ toClient'[k - 1] = toClient[k]
        <5>1. k # 1
          BY <1>5, <2>4, <4>1, Zenon DEF IsEvent
        <5> QED BY <1>2, <1>3, <4>1, <5>1, Zenon DEF IsEvent
      <4> QED BY <1>2, <3>2, <4>1, Zenon DEF Arrives
    <3> QED BY <1>2, <2>1, <2>2, <3>3, <3>4, Zenon DEF Complete
  <2>5. CASE u = v
    <3>1. e \in readers[v]
      BY <1>1, <2>1, <2>5, Zenon DEF MappedReads, Current
    <3>2. Stream(e)' = Append(s, x)
      <4>1. Stream(e)' = entry[e].got \o Append(inbox[e], x)
        BY <1>2, <2>1, <3>1, Zenon DEF Stream
      <4> DEFINE a == entry[e].got
                 b == inbox[e]
      <4>2. a \in Seq(1..MaxEvents) /\ b \in Seq(1..MaxEvents)
        BY <2>3
      <4> HIDE DEF a, b
      <4>3. a \o Append(b, x) = Append(a \o b, x)
        BY <1>4, <4>2
      <4> QED BY <4>1, <4>3, Zenon DEF a, b, Stream
    <3>3. PICK n : n = Len(s)
      OBVIOUS
    <3>4. /\ n \in Nat /\ Len(Append(s, x)) = n + 1 /\ Append(s, x)[n + 1] = x
          /\ \A i \in 1..n : Append(s, x)[i] = s[i]
      BY <1>4, <2>3, <3>3, AppendProperties
    <3>5. /\ \A i \in 1..(n + 1) : i = n + 1 \/ i \in 1..n
          /\ \A i \in 1..n : i \in 1..(n + 1) /\ i # n + 1
          /\ \A i, j \in 1..(n + 1) : i < j => i \in 1..n
          /\ n + 1 \in 1..(n + 1)
      BY <3>4
    <3>6. StreamInOrder(e)'
      <4>1. \A i \in 1..n : s[i] < x
        BY <1>3, <1>5, <2>1, <2>5, <3>3, Zenon DEF StreamInOrder
      <4>2. x <= log[u]
        BY <1>3, <1>5, <2>5, Zenon DEF WireInOrder
      <4>3. \A i, j \in 1..(n + 1) : i < j => Append(s, x)[i] < Append(s, x)[j]
        <5> SUFFICES ASSUME NEW i \in 1..(n + 1), NEW j \in 1..(n + 1), i < j
                     PROVE  Append(s, x)[i] < Append(s, x)[j]
          OBVIOUS
        <5>1. i \in 1..n /\ Append(s, x)[i] = s[i]
          BY <3>4, <3>5, Zenon
        <5>2. CASE j = n + 1
          BY <3>4, <4>1, <5>1, <5>2, Zenon
        <5>3. CASE j \in 1..n
          BY <2>1, <3>3, <3>4, <5>1, <5>3, Zenon DEF StreamInOrder
        <5> QED BY <3>5, <5>2, <5>3, Zenon
      <4>4. \A i \in 1..(n + 1) : Append(s, x)[i] <= log[u]
        <5>1. \A i \in 1..n : s[i] <= log[u]
          BY <2>1, <3>3, Zenon DEF StreamInOrder
        <5> QED BY <3>4, <3>5, <4>2, <5>1, Zenon
      <4>5. ASSUME NEW i \in 1..(n + 1), NEW k \in 1..Len(toClient'), IsEvent(k, u)'
            PROVE  Append(s, x)[i] < toClient'[k].n
        <5>1. /\ k + 1 \in 1..Len(toClient) /\ IsEvent(k + 1, u) /\ toClient'[k] = toClient[k + 1]
              /\ 1 < k + 1
          BY <1>2, <1>6, <1>7, <4>5, Zenon
        <5>2. CASE i = n + 1
          BY <1>3, <1>5, <2>5, <3>4, <5>1, <5>2, Zenon DEF WireInOrder
        <5>3. CASE i \in 1..n
          BY <2>1, <3>3, <3>4, <5>1, <5>3, Zenon DEF StreamInOrder
        <5> QED BY <3>5, <5>2, <5>3, Zenon
      <4> QED BY <1>2, <3>2, <3>4, <4>3, <4>4, <4>5, Zenon DEF StreamInOrder
    <3>7. ASSUME NEW m, Arrives(e, m) PROVE Arrives(e, m)'
      <4>1. CASE \E i \in 1..n : s[i] = m
        <5>1. \E i \in 1..Len(Stream(e)') : Stream(e)'[i] = m
          BY <3>2, <3>4, <3>5, <4>1, Zenon
        <5> QED BY <5>1, Zenon DEF Arrives
      <4>2. ASSUME NEW k \in 1..Len(toClient), IsEvent(k, u), toClient[k].n = m
            PROVE  Arrives(e, m)'
        <5>1. CASE k = 1
          <6>1. \E i \in 1..Len(Stream(e)') : Stream(e)'[i] = m
            BY <1>5, <3>2, <3>4, <3>5, <4>2, <5>1, Zenon
          <6> QED BY <6>1, Zenon DEF Arrives
        <5>2. CASE k # 1
          <6>1. k - 1 \in 1..Len(toClient') /\ IsEvent(k - 1, u)' /\ toClient'[k - 1].n = m
            BY <1>2, <1>3, <4>2, <5>2, Zenon DEF IsEvent
          <6> QED BY <6>1, Zenon DEF Arrives
        <5> QED BY <5>1, <5>2
      <4> QED BY <3>3, <3>7, <4>1, <4>2, Zenon DEF Arrives
    <3> QED BY <1>2, <2>1, <2>2, <3>6, <3>7, Zenon DEF Complete
  <2> QED BY <2>4, <2>5
<1> QED BY <1>2, <1>8, <1>9, Zenon DEF Followed

\* The server holds the channel of an entry of the map as soon as it has sent its
\* snapshot, and as long as the entry is in the map.
LEMMA SnapshotIsHeld ==
    ASSUME Mapped, Wire, NEW e \in 1..lastEntry, Current(e), NEW n, Snapshot(e, n)
    PROVE  entry[e].uri \in srvSubs
<1> DEFINE u == entry[e].uri
<1>1. /\ e \in EntryIds /\ e # None /\ u \in Uris /\ entries[u] = e
      /\ entry[e].status = "active" => start[e] = "done"
  BY MadeEntries, Zenon DEF Mapped, Current, ActiveIsStarted
<1>2. start[e] # "rejected"
  BY <1>1 DEF Snapshot, Answered
<1>3. ASSUME start[e] = "waiting"
      PROVE  \E j \in 1..Len(toClient) : toClient[j].m = "result" /\ toClient[j].e = e
  BY <1>1, <1>3 DEF Snapshot, Answered
<1>4. ASSUME start[e] = "waiting",
             NEW k \in 1..Len(toClient), toClient[k].m = "error", toClient[k].e = e
      PROVE  FALSE
  <2>1. PICK j \in 1..Len(toClient) : toClient[j].m = "result" /\ toClient[j].e = e
    BY <1>3, <1>4, Zenon
  <2>2. Answers(j) /\ Answers(k)
    BY <1>4, <2>1 DEF Answers
  <2>3. j = k
    BY <1>4, <2>1, <2>2, Zenon DEF Wire, AskedOnce, AnsweredOnce
  <2> QED BY <1>4, <2>1, <2>3
<1>5. HeldAfter(u, Len(toServer))
  BY <1>1, <1>2, <1>4, Zenon DEF Wire, MappedIsHeld
<1>6. ASSUME NEW j \in 1..Len(toServer), toServer[j].uri = u, toServer[j].m = "subscribe",
             \A k \in (j + 1)..Len(toServer) : toServer[k].uri # u
      PROVE  FALSE
  <2>1. Asks(j) /\ toServer[j].e = e
    BY <1>1, <1>6, Zenon DEF Asks, Wire, LastAsks
  <2>2. start[e] \in {"waiting", "rejected"} \/ (start[e] = "done" /\ ~Current(e))
    BY <2>1, Zenon DEF Wire, AskedOnce, AsksWait
  <2>3. start[e] = "waiting"
    BY <1>2, <2>2
  <2>4. PICK k \in 1..Len(toClient) : toClient[k].m = "result" /\ toClient[k].e = e
    BY <1>3, <2>3, Zenon
  <2>5. Answers(k)
    BY <2>4 DEF Answers
  <2> QED BY <2>1, <2>4, <2>5, Zenon DEF Wire, AskedOnce, SentOrAnswered
<1> QED BY <1>5, <1>6, Zenon DEF HeldAfter

\* What is on the wire stays there when a message is added.
LEMMA ArrivesStill ==
    ASSUME Mapped, entry' = entry, inbox' = inbox,
           \A i \in 1..Len(toClient) : i \in 1..Len(toClient') /\ toClient'[i] = toClient[i]
    PROVE  \A e, m : Arrives(e, m) => Arrives(e, m)'
<1> SUFFICES ASSUME NEW e, NEW m, Arrives(e, m) PROVE Arrives(e, m)'
  OBVIOUS
<1>1. Stream(e)' = Stream(e)
  BY Zenon DEF Stream
<1>2. \A k \in 1..Len(toClient) : IsEvent(k, entry[e].uri) => IsEvent(k, entry[e].uri)'
  BY Zenon DEF IsEvent
<1> QED BY <1>1, <1>2, Zenon DEF Arrives

\* The server answers: the snapshot covers every event so far.
LEMMA AnswerStreams ==
    ASSUME Mapped, Wire, Known, WireInOrder, Followed, NEW ok \in BOOLEAN, ServerAnswers(ok)
    PROVE  WireInOrder' /\ Followed'
<1> DEFINE y == Answer(ok)
<1>1. /\ Typed /\ log \in [Uris -> 0..MaxEvents]
      /\ (\A e \in 1..lastEntry : e \in EntryIds)
      /\ \A e \in EntryIds : e # None /\ entry[e].uri \in Uris
  BY MadeEntries, Zenon DEF Mapped, Typed
<1>2. /\ toServer # <<>> /\ Head(toServer).m = "subscribe" /\ toClient' = Append(toClient, y)
      /\ entries' = entries /\ entry' = entry /\ start' = start /\ inbox' = inbox
      /\ lastEntry' = lastEntry /\ log' = log
  BY Zenon DEF ServerAnswers, Answer, managerVars, clientVars
<1>3. /\ y \in ToClient /\ y.e = Head(toServer).e /\ y.m # "event"
  BY <1>1, <1>2, AnswerFacts
<1>4. /\ y.n = log[Head(toServer).uri] /\ Head(toServer) = toServer[1] /\ 1 \in 1..Len(toServer)
  BY <1>1, <1>2, ToServerTail, Zenon DEF Answer
<1> HIDE DEF y
<1>5. /\ toClient'[Len(toClient) + 1] = y /\ Len(toClient) + 1 \in 1..Len(toClient')
      /\ \A i \in 1..Len(toClient) : i \in 1..Len(toClient') /\ toClient'[i] = toClient[i]
      /\ \A i \in 1..Len(toClient') : i = Len(toClient) + 1 \/ i \in 1..Len(toClient)
  BY <1>1, <1>2, <1>3, ToClientAppend, Zenon
<1>6. \A k, u : IsEvent(k, u)' =>
         k \in 1..Len(toClient) /\ IsEvent(k, u) /\ toClient'[k] = toClient[k]
  BY <1>3, <1>5, Zenon DEF IsEvent
<1>7. WireInOrder'
  <2> SUFFICES ASSUME NEW u \in Uris
               PROVE  /\ \A j, k \in 1..Len(toClient') : IsEvent(j, u)' /\ IsEvent(k, u)' /\ j < k
                            => toClient'[j].n < toClient'[k].n
                      /\ \A k \in 1..Len(toClient') : IsEvent(k, u)' => toClient'[k].n <= log[u]
    BY <1>2, Zenon DEF WireInOrder
  <2>1. /\ \A j, k \in 1..Len(toClient) : IsEvent(j, u) /\ IsEvent(k, u) /\ j < k
              => toClient[j].n < toClient[k].n
        /\ \A k \in 1..Len(toClient) : IsEvent(k, u) => toClient[k].n <= log[u]
    BY Zenon DEF WireInOrder
  <2> QED BY <1>6, <2>1
<1>8. ASSUME NEW e \in 1..lastEntry, Current(e)' PROVE StreamInOrder(e)' /\ Complete(e)'
  <2>1. /\ e \in EntryIds /\ entry[e].uri \in Uris /\ Current(e)
        /\ StreamInOrder(e) /\ Complete(e)
    BY <1>1, <1>2, <1>8, Zenon DEF Current, Followed
  <2>2. Stream(e)' = Stream(e)
    BY <1>2, Zenon DEF Stream
  <2>3. StreamInOrder(e)'
    BY <1>2, <1>6, <2>1, <2>2, Zenon DEF StreamInOrder
  <2>4. ASSUME NEW n \in Int, Snapshot(e, n)', ~Snapshot(e, n) PROVE n = log[entry[e].uri]
    <3>1. ~(Answered(e)' /\ entry'[e].result = n) /\ start[e] = "waiting"
      BY <1>2, <2>4, Zenon DEF Snapshot, Answered
    <3>2. PICK j \in 1..Len(toClient') :
             toClient'[j].m = "result" /\ toClient'[j].e = e /\ toClient'[j].n = n
      BY <2>4, <3>1, Zenon DEF Snapshot
    <3>3. j \notin 1..Len(toClient)
      BY <1>5, <2>4, <3>1, <3>2, Zenon DEF Snapshot
    <3>4. toClient'[j] = y
      BY <1>5, <3>3, Zenon
    <3>5. toServer[1].e = e /\ n = log[toServer[1].uri]
      BY <1>3, <1>4, <3>2, <3>4, Zenon
    <3>6. toServer[1].uri = entry[e].uri
      BY <1>2, <1>4, <3>5, Zenon DEF Known, AsksForItsUri
    <3> QED BY <3>5, <3>6, Zenon
  <2>5. \A m : Arrives(e, m) => Arrives(e, m)'
    BY <1>2, <1>5, ArrivesStill, Zenon
  <2>6. ASSUME NEW n \in Int, Snapshot(e, n)'
        PROVE  /\ n \in 0..log[entry[e].uri]
               /\ \A m \in (n + 1)..log[entry[e].uri] : Arrives(e, m)'
    <3>1. CASE Snapshot(e, n)
      BY <2>1, <2>5, <3>1, Zenon DEF Complete
    <3>2. CASE ~Snapshot(e, n)
      <4>1. n = log[entry[e].uri] /\ log[entry[e].uri] \in 0..MaxEvents
        BY <1>1, <2>1, <2>4, <2>6, <3>2, Zenon
      <4>2. n \in 0..log[entry[e].uri] /\ \A m \in (n + 1)..log[entry[e].uri] : FALSE
        BY <4>1, BoundAssumption
      <4> QED BY <4>2
    <3> QED BY <3>1, <3>2
  <2>7. Complete(e)'
    BY <1>2, <2>6, Zenon DEF Complete
  <2> QED BY <2>3, <2>7
<1> QED BY <1>2, <1>7, <1>8, Zenon DEF Followed

\* The server publishes: the event is on the wire of every channel it holds.
LEMMA PublishedStreams ==
    ASSUME Mapped, Wire, WireInOrder, Followed, NEW v \in Uris, ServerPublishes(v)
    PROVE  WireInOrder' /\ Followed'
<1> DEFINE x == log[v] + 1
           y == [m |-> "event", uri |-> v, e |-> None, n |-> x]
<1>1. /\ Typed /\ log \in [Uris -> 0..MaxEvents] /\ toClient \in Seq(ToClient)
      /\ (\A e \in 1..lastEntry : e \in EntryIds)
      /\ \A e \in EntryIds : e # None /\ entry[e].uri \in Uris
  BY MadeEntries, Zenon DEF Mapped, Typed
<1>2. /\ log[v] < MaxEvents /\ log' = [log EXCEPT ![v] = x]
      /\ entries' = entries /\ entry' = entry /\ start' = start /\ inbox' = inbox
      /\ lastEntry' = lastEntry
      /\ toClient' = IF v \in srvSubs THEN Append(toClient, y) ELSE toClient
  BY Zenon DEF ServerPublishes, managerVars, clientVars
<1>3. log[v] \in 0..MaxEvents /\ x \in 1..MaxEvents /\ x = log[v] + 1
  BY <1>1, <1>2, BoundAssumption
<1>4. y \in ToClient /\ y.m = "event" /\ y.uri = v /\ y.n = x /\ y.n # 0
  BY <1>3, SMT DEF ToClient
<1> HIDE DEF x, y
<1>5. /\ log'[v] = x
      /\ \A u \in Uris : u # v => log'[u] = log[u]
  BY <1>1, <1>2, Zenon
<1>6. \A u \in Uris : log[u] \in Nat /\ log'[u] \in Nat /\ log[u] <= log'[u]
  BY <1>1, <1>3, <1>5, BoundAssumption
<1>7. /\ \A i \in 1..Len(toClient) : i \in 1..Len(toClient') /\ toClient'[i] = toClient[i]
      /\ \A i \in 1..Len(toClient') :
            \/ i \in 1..Len(toClient) /\ toClient'[i] = toClient[i]
            \/ i = Len(toClient) + 1 /\ toClient'[i] = y /\ v \in srvSubs
      /\ v \in srvSubs => /\ Len(toClient) + 1 \in 1..Len(toClient')
                          /\ toClient'[Len(toClient) + 1] = y
  <2>1. CASE v \in srvSubs
    <3>1. toClient' = Append(toClient, y)
      BY <1>2, <2>1, Zenon
    <3>2. /\ toClient'[Len(toClient) + 1] = y /\ Len(toClient) + 1 \in 1..Len(toClient')
          /\ \A i \in 1..Len(toClient) : i \in 1..Len(toClient') /\ toClient'[i] = toClient[i]
          /\ \A i \in 1..Len(toClient') : i = Len(toClient) + 1 \/ i \in 1..Len(toClient)
      BY <1>1, <1>4, <3>1, ToClientAppend, Zenon
    <3> QED BY <2>1, <3>2, Zenon
  <2>2. CASE v \notin srvSubs
    BY <1>2, <2>2, Zenon
  <2> QED BY <2>1, <2>2
<1>8. \A k, u : IsEvent(k, u)' =>
         \/ k \in 1..Len(toClient) /\ IsEvent(k, u) /\ toClient'[k] = toClient[k]
         \/ k = Len(toClient) + 1 /\ u = v /\ toClient'[k].n = x
  BY <1>4, <1>7, Zenon DEF IsEvent
<1>9. ASSUME NEW u \in Uris, NEW k \in 1..Len(toClient), IsEvent(k, u)
      PROVE  toClient[k].n \in Nat /\ toClient[k].n <= log[u]
  <2>1. toClient[k] \in ToClient
    BY <1>1
  <2>2. toClient[k].n \in 0..MaxEvents
    BY <2>1, Zenon DEF ToClient
  <2>3. toClient[k].n <= log[u]
    BY <1>9, Zenon DEF WireInOrder
  <2> QED BY <2>2, <2>3, BoundAssumption
<1>10. WireInOrder'
  <2>1. ASSUME NEW u \in Uris, NEW j \in 1..Len(toClient'), NEW k \in 1..Len(toClient'),
               IsEvent(j, u)', IsEvent(k, u)', j < k
        PROVE  toClient'[j].n < toClient'[k].n
    <3>0. Len(toClient) \in Nat
      BY <1>1
    <3>1. j \in 1..Len(toClient) /\ IsEvent(j, u) /\ toClient'[j] = toClient[j]
      <4>1. k \in 1..Len(toClient) \/ k = Len(toClient) + 1
        BY <1>8, <2>1, Zenon
      <4>2. j # Len(toClient) + 1
        BY <2>1, <3>0, <4>1
      <4> QED BY <1>8, <2>1, <4>2, Zenon
    <3>2. CASE k \in 1..Len(toClient) /\ IsEvent(k, u) /\ toClient'[k] = toClient[k]
      BY <2>1, <3>1, <3>2, Zenon DEF WireInOrder
    <3>3. CASE u = v /\ toClient'[k].n = x
      <4>1. toClient[j].n \in Nat /\ toClient[j].n <= log[v]
        BY <1>9, <3>1, <3>3, Zenon
      <4>2. toClient[j].n < x
        BY <1>3, <4>1
      <4> QED BY <3>1, <3>3, <4>2, Zenon
    <3>4. \/ k \in 1..Len(toClient) /\ IsEvent(k, u) /\ toClient'[k] = toClient[k]
          \/ u = v /\ toClient'[k].n = x
      BY <1>8, <2>1, Zenon
    <3> QED BY <3>2, <3>3, <3>4
  <2>2. ASSUME NEW u \in Uris, NEW k \in 1..Len(toClient'), IsEvent(k, u)'
        PROVE  toClient'[k].n <= log'[u]
    <3>1. CASE k \in 1..Len(toClient) /\ IsEvent(k, u) /\ toClient'[k] = toClient[k]
      <4>1. toClient[k].n \in Nat /\ toClient[k].n <= log[u]
        BY <1>9, <3>1, Zenon
      <4>2. toClient[k].n <= log'[u]
        BY <1>6, <4>1
      <4> QED BY <3>1, <4>2, Zenon
    <3>2. CASE u = v /\ toClient'[k].n = x
      BY <1>3, <1>5, <3>2
    <3>3. \/ k \in 1..Len(toClient) /\ IsEvent(k, u) /\ toClient'[k] = toClient[k]
          \/ u = v /\ toClient'[k].n = x
      BY <1>8, <2>2, Zenon
    <3> QED BY <3>1, <3>2, <3>3
  <2> QED BY <2>1, <2>2, Zenon DEF WireInOrder
<1>11. ASSUME NEW e \in 1..lastEntry, Current(e)' PROVE StreamInOrder(e)' /\ Complete(e)'
  <2>1. /\ e \in EntryIds /\ entry[e].uri \in Uris /\ Current(e)
        /\ StreamInOrder(e) /\ Complete(e)
    BY <1>1, <1>2, <1>11, Zenon DEF Current, Followed
  <2> DEFINE u == entry[e].uri
             s == Stream(e)
  <2>2. Stream(e)' = s
    BY <1>2, Zenon DEF Stream
  <2>3. \A i \in 1..Len(s) : s[i] \in Nat /\ s[i] <= log[u]
    <3>1. inbox[e] \in Seq(1..MaxEvents) /\ entry[e].got \in Seq(1..MaxEvents)
      BY <2>1, Zenon DEF Mapped, Typed, TypeOK, Entry
    <3>2. s \in Seq(1..MaxEvents)
      BY <3>1 DEF Stream
    <3>3. \A i \in 1..Len(s) : s[i] \in 1..MaxEvents
      BY <3>2, ElementOfSeq
    <3>4. \A i \in 1..Len(s) : s[i] <= log[u]
      BY <2>1, Zenon DEF StreamInOrder
    <3> QED BY <3>3, <3>4
  <2>4. StreamInOrder(e)'
    <3>1. \A i \in 1..Len(s) : s[i] <= log'[u]
      BY <1>6, <2>1, <2>3
    <3>2. ASSUME NEW i \in 1..Len(s), NEW k \in 1..Len(toClient'), IsEvent(k, u)'
          PROVE  s[i] < toClient'[k].n
      <4>0. \/ k \in 1..Len(toClient) /\ IsEvent(k, u) /\ toClient'[k] = toClient[k]
            \/ u = v /\ toClient'[k].n = x
        BY <1>2, <1>8, <3>2, Zenon
      <4>1. CASE k \in 1..Len(toClient) /\ IsEvent(k, u) /\ toClient'[k] = toClient[k]
        BY <2>1, <4>1, Zenon DEF StreamInOrder
      <4>2. CASE u = v /\ toClient'[k].n = x
        <5>1. s[i] \in Nat /\ s[i] <= log[v]
          BY <2>3, <4>2, Zenon
        <5>2. s[i] < x
          BY <1>3, <5>1
        <5> QED BY <4>2, <5>2, Zenon
      <4> QED BY <4>0, <4>1, <4>2
    <3> QED BY <1>2, <2>1, <2>2, <3>1, <3>2, Zenon DEF StreamInOrder
  <2>5. ASSUME NEW n \in Int, Snapshot(e, n)' PROVE Snapshot(e, n)
    <3>1. (\E j \in 1..Len(toClient') :
             toClient'[j].m = "result" /\ toClient'[j].e = e /\ toClient'[j].n = n)
          => \E j \in 1..Len(toClient) :
             toClient[j].m = "result" /\ toClient[j].e = e /\ toClient[j].n = n
      <4>1. y.m # "result"
        BY <1>4
      <4> QED BY <1>7, <4>1, Zenon
    <3> QED BY <1>2, <2>5, <3>1, Zenon DEF Snapshot, Answered
  <2>6. \A m : Arrives(e, m) => Arrives(e, m)'
    BY <1>2, <1>7, ArrivesStill, Zenon
  <2>7. ASSUME NEW n \in Int, Snapshot(e, n)'
        PROVE  n \in 0..log'[u] /\ \A m \in (n + 1)..log'[u] : Arrives(e, m)'
    <3>1. Snapshot(e, n) /\ u \in srvSubs
      BY <2>1, <2>5, <2>7, SnapshotIsHeld
    <3>2. n \in 0..log[u] /\ \A m \in (n + 1)..log[u] : Arrives(e, m)
      BY <2>1, <3>1, Zenon DEF Complete
    <3>3. n \in 0..log'[u]
      BY <1>6, <2>1, <3>2
    <3>4. ASSUME NEW m \in (n + 1)..log'[u] PROVE Arrives(e, m)'
      <4>1. CASE m \in (n + 1)..log[u]
        BY <2>6, <3>2, <4>1, Zenon
      <4>2. CASE m \notin (n + 1)..log[u]
        <5>1. u = v
          BY <1>5, <2>1, <4>2, Zenon
        <5>2. m = x
          BY <1>3, <1>5, <3>2, <4>2, <5>1
        <5>3. PICK k \in 1..Len(toClient') : toClient'[k] = y
          BY <1>7, <3>1, <5>1, Zenon
        <5>4. IsEvent(k, v)' /\ toClient'[k].n = m
          BY <1>4, <5>2, <5>3, Zenon DEF IsEvent
        <5> QED BY <1>2, <5>1, <5>4, Zenon DEF Arrives
      <4> QED BY <4>1, <4>2
    <3> QED BY <3>3, <3>4
  <2>8. Complete(e)'
    BY <1>2, <2>7, Zenon DEF Complete
  <2> QED BY <2>4, <2>8
<1> QED BY <1>2, <1>10, <1>11, Zenon DEF Followed

-----------------------------------------------------------------------------
(* The leases miss nothing.                                                *)

\* A new entry has nothing yet, and no snapshot.
LEMMA JoinedStreams ==
    ASSUME Mapped, Wire, MappedReads, Known, WireInOrder, Followed, clientOpen,
           NEW u \in Uris, NEW o \in Options, AcquireFirst(u, o)
    PROVE  WireInOrder' /\ Followed'
<1>0. PICK e : e = lastEntry + 1
  OBVIOUS
<1>1. /\ Typed /\ entry \in [EntryIds -> Entry] /\ lastEntry \in Nat
      /\ start \in [EntryIds -> {"none", "waiting", "answered", "rejected", "done"}]
  BY MadeEntries, Zenon DEF Mapped, Typed, TypeOK
<1>2. WireInOrder' /\ \A d \in 1..lastEntry : Current(d)' => StreamInOrder(d)' /\ Complete(d)'
  BY UntouchedManager, UntouchedKept, FollowedKept, Zenon
<1>3. /\ lastEntry' = e /\ start' = [start EXCEPT ![e] = "waiting"]
      /\ inbox' = inbox /\ toClient' = toClient
      /\ entry' = [entry EXCEPT ![e] = NewEntry(u, o, lastHolder + 1)]
  BY <1>0, Zenon DEF AcquireFirst
<1>4. e \in EntryIds
  BY <1>0, <1>1, AcquireFirstFacts DEF MapJoined
<1>5. e \notin 1..lastEntry /\ \A d \in 1..e : d = e \/ d \in 1..lastEntry
  BY <1>0, <1>1
<1>6. entry'[e].got = <<>> /\ entry'[e].status = "pending" /\ start'[e] = "waiting"
  <2>1. entry'[e] = NewEntry(u, o, lastHolder + 1) /\ start'[e] = "waiting"
    BY <1>1, <1>3, <1>4, Zenon
  <2> QED BY <2>1, SMT DEF NewEntry
<1>7. inbox'[e] = <<>>
  BY <1>3, <1>4, <1>5, Zenon DEF Known, FreshInboxes
<1>8. Stream(e)' = <<>>
  BY <1>6, <1>7 DEF Stream
<1>9. StreamInOrder(e)'
  <2>1. Len(Stream(e)') = 0 /\ \A i \in 1..0 : FALSE
    BY <1>8
  <2> QED BY <2>1, Zenon DEF StreamInOrder
<1>10. Complete(e)'
  <2>1. ~Answered(e)'
    BY <1>6 DEF Answered
  <2>2. \A j \in 1..Len(toClient) : toClient[j].m = "result" => toClient[j].e # e
    BY <1>5 DEF Wire, AskedOnce, AnswersMade, Answers
  <2> QED BY <1>3, <2>1, <2>2, Zenon DEF Complete, Snapshot
<1> QED BY <1>2, <1>3, <1>5, <1>9, <1>10, Zenon DEF Followed

LEMMA StreamedInit == Init => Streamed
<1> SUFFICES ASSUME Init PROVE Known /\ WireInOrder /\ Followed
  BY Zenon DEF Streamed
<1>1. /\ readers = [u \in Uris |-> {}] /\ toServer = <<>> /\ toClient = <<>>
      /\ inbox = [e \in EntryIds |-> <<>>] /\ lastEntry = 0
  BY Zenon DEF Init
<1>2. /\ Len(toServer) = 0 /\ Len(toClient) = 0 /\ \A i \in 1..0 : FALSE
  BY <1>1
<1>3. Known
  BY <1>1, <1>2, Zenon DEF Known, ReadersMade, AsksForItsUri, FreshInboxes
<1>4. WireInOrder
  BY <1>2, Zenon DEF WireInOrder
<1>5. Followed
  BY <1>1, <1>2, Zenon DEF Followed
<1> QED BY <1>3, <1>4, <1>5

\* Every step keeps what the leases get complete and in order.
LEMMA StreamedStep == Mapped /\ Wired /\ Streamed /\ [Next]_vars => Streamed'
<1> SUFFICES ASSUME Mapped, Wired, Streamed, [Next]_vars, clientOpen'
             PROVE  Known' /\ WireInOrder' /\ Followed'
  BY Zenon DEF Streamed
<1>1. clientOpen /\ ~ClientEnds
  BY OpenBefore
<1>2. /\ Mapped' /\ Wire /\ MappedReads /\ AskedOnce /\ AsksWait /\ Typed /\ MapPoints /\ Lifecycle
      /\ ActiveIsStarted /\ Known /\ WireInOrder /\ Followed
  BY <1>1, MappedStep, Zenon DEF Wired, Wire, Mapped, Streamed, AskedOnce
<1>3. ASSUME NEW u \in Uris, NEW o \in Options, AcquireFirst(u, o)
      PROVE  Known' /\ WireInOrder' /\ Followed'
  <2>1. Known'
    BY <1>1, <1>2, <1>3, KnownJoined
  <2>2. WireInOrder' /\ Followed'
    BY <1>1, <1>2, <1>3, JoinedStreams
  <2> QED BY <2>1, <2>2
<1>4. ASSUME NothingNew, StreamsKept, lastEntry' = lastEntry, UrisStay
      PROVE  Known' /\ WireInOrder' /\ Followed'
  <2>1. Known'
    BY <1>2, <1>4, KnownKept
  <2>2. WireInOrder' /\ Followed'
    BY <1>2, <1>4, FollowedKept, Zenon DEF Followed
  <2> QED BY <2>1, <2>2
<1>5. CASE \/ \E u \in Uris, o \in Options : AcquireShared(u, o)
           \/ \E e \in EntryIds, l \in 1..MaxLeases : ReleaseShared(e, l)
  <2>1. NothingNew
    BY <1>1, <1>2, <1>5, NotNew, Zenon
  <2>2. StreamsKept
    BY <1>5, SharedStreams
  <2>3. MapKept
    BY <1>2, <1>5, SharedFacts
  <2> QED BY <1>4, <2>1, <2>2, <2>3, UrisNeverChange, Zenon DEF MapKept
<1>6. ASSUME NEW us \in SUBSET Uris, MapLeft(us), NothingNew, Untouched
      PROVE  Known' /\ WireInOrder' /\ Followed'
  BY <1>4, <1>6, UntouchedKept, UrisNeverChange, Zenon DEF MapLeft
<1>7. ASSUME NEW e \in EntryIds, NEW l \in 1..MaxLeases, ReleaseLast(e, l)
      PROVE  Known' /\ WireInOrder' /\ Followed'
  <2>1. NothingNew
    BY <1>1, <1>2, <1>7, NotNew, Zenon
  <2>2. Untouched
    BY <1>2, <1>7, UntouchedManager, Zenon
  <2>3. {entry[e].uri} \in SUBSET Uris /\ MapLeft({entry[e].uri})
    BY <1>2, <1>7, ReleaseLastFacts
  <2> QED BY <1>6, <2>1, <2>2, <2>3
<1>8. ASSUME NEW e \in EntryIds, StartFails(e) PROVE Known' /\ WireInOrder' /\ Followed'
  <2>1. NothingNew
    BY <1>1, <1>2, <1>8, NotNew, Zenon
  <2>2. Untouched
    BY <1>2, <1>8, UntouchedManager, Zenon
  <2>3. {entry[e].uri} \in SUBSET Uris /\ MapLeft({entry[e].uri})
    BY <1>2, <1>8, StartFailsFacts
  <2> QED BY <1>6, <2>1, <2>2, <2>3
<1>9. CASE Close
  <2>1. NothingNew
    BY <1>1, <1>2, <1>9, NotNew, Zenon
  <2>2. Untouched
    BY <1>2, <1>9, UntouchedManager, Zenon
  <2>3. \E us \in SUBSET Uris : MapLeft(us)
    BY <1>2, <1>9, CloseFacts, Zenon
  <2> QED BY <1>6, <2>1, <2>2, <2>3, Zenon
<1>10. ASSUME NEW e \in EntryIds, StartActivates(e) PROVE Known' /\ WireInOrder' /\ Followed'
  <2>1. NothingNew
    BY <1>1, <1>2, <1>10, NotNew, Zenon
  <2>2. StreamsKept
    BY <1>10, ActivatedStreams
  <2>3. MapActivated(e)
    BY <1>2, <1>10, StartActivatesFacts
  <2> QED BY <1>4, <2>1, <2>2, <2>3, UrisNeverChange, Zenon DEF MapActivated
<1>11. ASSUME NEW e \in EntryIds, \/ StartDiscards(e) \/ StartIgnored(e)
                                  \/ PumpEnds(e) \/ RequestTimesOut(e)
       PROVE  Known' /\ WireInOrder' /\ Followed'
  <2>1. NothingNew
    BY <1>1, <1>2, <1>11, NotNew, Zenon
  <2>2. StreamsKept
    BY <1>2, <1>11, UntouchedManager, UntouchedKept, Zenon
  <2>3. MapKept
    <3>1. CASE StartDiscards(e) \/ StartIgnored(e)
      BY <1>2, <3>1, StartLateFacts
    <3>2. CASE PumpEnds(e)
      <4>1. ~Current(e)
        <5>1. e \notin readers[entry[e].uri] /\ e # None /\ entry[e].uri \in Uris
          BY <1>2, <3>2, MadeEntries, Zenon DEF PumpEnds
        <5> QED BY <1>2, <5>1, Zenon DEF Current, MappedReads
      <4> QED BY <1>2, <3>2, <4>1, PumpEndsFacts
    <3>3. CASE RequestTimesOut(e)
      BY <1>2, <3>3, TimeoutFacts
    <3> QED BY <1>11, <3>1, <3>2, <3>3
  <2> QED BY <1>4, <2>1, <2>2, <2>3, UrisNeverChange, Zenon DEF MapKept
<1>12. ASSUME NEW e \in EntryIds, PumpPublishes(e) PROVE Known' /\ WireInOrder' /\ Followed'
  <2>1. NothingNew
    BY <1>1, <1>2, <1>12, NotNew, Zenon
  <2>2. StreamsKept
    BY <1>12, PumpedStreams
  <2>3. MapKept
    BY <1>2, <1>12, PumpPublishesFacts
  <2> QED BY <1>4, <2>1, <2>2, <2>3, UrisNeverChange, Zenon DEF MapKept
<1>13. CASE ReceiveEvent
  <2>1. NothingNew
    BY <1>1, <1>2, <1>13, NotNew, Zenon
  <2>2. MapKept
    BY <1>2, <1>13, ReceiveEventFacts
  <2>3. Known'
    BY <1>2, <2>1, <2>2, UrisNeverChange, KnownKept
  <2>4. WireInOrder' /\ Followed'
    BY <1>2, <1>13, ReceivedStreams
  <2> QED BY <2>3, <2>4
<1>14. CASE ReceiveAnswer
  <2>1. NothingNew
    BY <1>1, <1>2, <1>14, NotNew, Zenon
  <2>2. MapKept
    BY <1>2, <1>14, ReceiveAnswerFacts
  <2>3. Known'
    BY <1>2, <2>1, <2>2, UrisNeverChange, KnownKept
  <2>4. WireInOrder' /\ Followed'
    BY <1>2, <1>14, AnsweredStreams
  <2> QED BY <2>3, <2>4
<1>15. ASSUME NEW ok \in BOOLEAN, ServerAnswers(ok) PROVE Known' /\ WireInOrder' /\ Followed'
  <2>1. NothingNew
    BY <1>1, <1>2, <1>15, NotNew, Zenon
  <2>2. MapKept
    BY <1>2, <1>15, ServerFacts, Zenon
  <2>3. Known'
    BY <1>2, <2>1, <2>2, UrisNeverChange, KnownKept
  <2>4. WireInOrder' /\ Followed'
    BY <1>2, <1>15, AnswerStreams
  <2> QED BY <2>3, <2>4
<1>16. ASSUME NEW u \in Uris, ServerPublishes(u) PROVE Known' /\ WireInOrder' /\ Followed'
  <2>1. NothingNew
    BY <1>1, <1>2, <1>16, NotNew, Zenon
  <2>2. MapKept
    BY <1>2, <1>16, ServerFacts, Zenon
  <2>3. Known'
    BY <1>2, <2>1, <2>2, UrisNeverChange, KnownKept
  <2>4. WireInOrder' /\ Followed'
    BY <1>2, <1>16, PublishedStreams
  <2> QED BY <2>3, <2>4
<1>17. CASE ServerUnsubscribes \/ UNCHANGED vars
  <2>1. NothingNew
    BY <1>1, <1>2, <1>17, NotNew, Zenon
  <2>2. StreamsKept
    BY <1>2, <1>17, UntouchedManager, UntouchedKept, Zenon
  <2>3. MapKept
    <3>1. entries' = entries /\ entry' = entry /\ lastEntry' = lastEntry /\ start' = start
      BY <1>17, Zenon DEF ServerUnsubscribes, vars, managerVars
    <3> QED BY <3>1, Zenon DEF MapKept, EntryKept, DoneStays
  <2> QED BY <1>4, <2>1, <2>2, <2>3, UrisNeverChange, Zenon DEF MapKept
<1> QED
  BY <1>1, <1>3, <1>5, <1>7, <1>8, <1>9, <1>10, <1>11, <1>12, <1>13, <1>14, <1>15, <1>16, <1>17,
     Zenon DEF Next

LEMMA AlwaysStreamed == Spec => [](Mapped /\ Wired /\ Streamed)
<1>1. Init => Mapped /\ Wired /\ Streamed
  BY MappedInit, WiredInit, StreamedInit
<1>2. Mapped /\ Wired /\ Streamed /\ [Next]_vars => (Mapped /\ Wired /\ Streamed)'
  BY MappedStep, WiredStep, StreamedStep
<1> QED BY <1>1, <1>2, PTL DEF Spec

\* The numbers of the events of a channel that are on the wire.
LEMMA WireNumbers ==
    ASSUME Mapped, WireInOrder, NEW u \in Uris
    PROVE  LET w == [i \in 1..Len(EventsOf(u)) |-> EventsOf(u)[i].n] IN
           /\ w \in Seq(Nat)
           /\ \A i, j \in 1..Len(w) : i < j => w[i] < w[j]
           /\ \A i \in 1..Len(w) : \E k \in 1..Len(toClient) : IsEvent(k, u) /\ w[i] = toClient[k].n
           /\ \A k \in 1..Len(toClient) : IsEvent(k, u) => \E i \in 1..Len(w) : w[i] = toClient[k].n
<1> DEFINE S == {x \in ToSet(toClient) : x.m = "event" /\ x.uri = u}
           q == Kept(toClient, S)
           l == Len(q)
           w == [i \in 1..l |-> q[i].n]
<1>1. toClient \in Seq(ToClient)
  BY Zenon DEF Mapped, Typed
<1>2. \A k \in 1..Len(toClient) : toClient[k] \in S <=> IsEvent(k, u)
  <2>1. \A k \in 1..Len(toClient) : toClient[k] \in ToSet(toClient)
    BY DEF ToSet
  <2> QED BY <2>1, Zenon DEF IsEvent
<1> HIDE DEF S
<1>3. q \in Seq(ToClient) /\ \E g : IsIndex(g, q, Len(toClient), toClient, S)
  BY <1>1, KeptIndex
<1>4. PICK g : IsIndex(g, q, Len(toClient), toClient, S)
  BY <1>3
<1>5. l \in Nat /\ \A i \in 1..l : q[i] \in ToClient
  BY <1>3, ElementOfSeq, LenProperties
<1> HIDE DEF q
<1>6. \A i \in 1..l : q[i].n \in Nat
  <2>1. \A i \in 1..l : q[i].n \in 0..MaxEvents
    BY <1>5, Zenon DEF ToClient
  <2> QED BY <2>1, BoundAssumption
<1>7. /\ \A i \in 1..l : g[i] \in 1..Len(toClient) /\ q[i] = toClient[g[i]] /\ IsEvent(g[i], u)
      /\ \A i, j \in 1..l : i < j => g[i] < g[j]
      /\ \A k \in 1..Len(toClient) : IsEvent(k, u) => \E i \in 1..l : g[i] = k
  <2>1. /\ g \in [1..l -> 1..Len(toClient)]
        /\ \A i, j \in 1..l : i < j => g[i] < g[j]
        /\ \A i \in 1..l : q[i] = toClient[g[i]] /\ toClient[g[i]] \in S
        /\ \A k \in 1..Len(toClient) : toClient[k] \in S => \E i \in 1..l : g[i] = k
    BY <1>4, Zenon DEF IsIndex
  <2>2. \A i \in 1..l : g[i] \in 1..Len(toClient)
    BY <2>1, Zenon
  <2> QED BY <1>2, <2>1, <2>2, Zenon
<1> HIDE DEF l
<1>8. w \in Seq(Nat) /\ Len(w) = l /\ \A i \in 1..l : w[i] = q[i].n
  <2>1. \A i \in 1..l : w[i] = q[i].n
    BY Zenon
  <2>2. w \in Seq(Nat) /\ Len(w) = l
    BY <1>5, <1>6
  <2> QED BY <2>1, <2>2
<1> HIDE DEF w
<1>9. ASSUME NEW i \in 1..l, NEW j \in 1..l, i < j PROVE w[i] < w[j]
  <2>1. /\ g[i] \in 1..Len(toClient) /\ g[j] \in 1..Len(toClient) /\ g[i] < g[j]
        /\ IsEvent(g[i], u) /\ IsEvent(g[j], u)
        /\ q[i] = toClient[g[i]] /\ q[j] = toClient[g[j]]
    BY <1>7, <1>9, Zenon
  <2>2. toClient[g[i]].n < toClient[g[j]].n
    BY <2>1, Zenon DEF WireInOrder
  <2> QED BY <1>8, <2>1, <2>2, Zenon
<1>10. ASSUME NEW i \in 1..l
       PROVE  \E k \in 1..Len(toClient) : IsEvent(k, u) /\ w[i] = toClient[k].n
  <2>1. g[i] \in 1..Len(toClient) /\ q[i] = toClient[g[i]] /\ IsEvent(g[i], u) /\ w[i] = q[i].n
    BY <1>7, <1>8, Zenon
  <2> QED BY <2>1
<1>11. ASSUME NEW k \in 1..Len(toClient), IsEvent(k, u)
       PROVE  \E i \in 1..l : w[i] = toClient[k].n
  <2>1. PICK i \in 1..l : g[i] = k
    BY <1>7, <1>11, Zenon
  <2>2. q[i] = toClient[g[i]] /\ w[i] = q[i].n
    BY <1>7, <1>8, Zenon
  <2> QED BY <2>1, <2>2, Zenon
<1>12. EventsOf(u) = q
  BY Zenon DEF EventsOf, q, S
<1>13. [i \in 1..Len(EventsOf(u)) |-> EventsOf(u)[i].n] = w
  BY <1>12, Zenon DEF w, l
<1> QED BY <1>8, <1>9, <1>10, <1>11, <1>13, Zenon

\* What has arrived, followed by what is on the wire, is in order, has every event
\* beyond the snapshot and none beyond the log.
LEMMA AllInOrder ==
    ASSUME Mapped, WireInOrder, NEW e \in 1..lastEntry, StreamInOrder(e), NEW w \in Seq(Nat),
           \A i, j \in 1..Len(w) : i < j => w[i] < w[j],
           \A i \in 1..Len(w) : \E k \in 1..Len(toClient) :
              IsEvent(k, entry[e].uri) /\ w[i] = toClient[k].n,
           \A k \in 1..Len(toClient) : IsEvent(k, entry[e].uri) =>
              \E i \in 1..Len(w) : w[i] = toClient[k].n
    PROVE  LET all == Stream(e) \o w IN
           /\ all \in Seq(Nat)
           /\ \A i, j \in 1..Len(all) : i < j => all[i] < all[j]
           /\ \A i \in 1..Len(all) : all[i] <= log[entry[e].uri]
           /\ \A m : Arrives(e, m) => \E i \in 1..Len(all) : all[i] = m
<1> DEFINE s == Stream(e)
           all == s \o w
           u == entry[e].uri
<1>1. e \in EntryIds /\ u \in Uris
  BY MadeEntries, Zenon DEF Mapped
<1>2. s \in Seq(Nat)
  <2>1. inbox[e] \in Seq(1..MaxEvents) /\ entry[e].got \in Seq(1..MaxEvents)
    BY <1>1, Zenon DEF Mapped, Typed, TypeOK, Entry
  <2>2. inbox[e] \in Seq(Nat) /\ entry[e].got \in Seq(Nat)
    BY <2>1, SeqMonotonic, BoundAssumption
  <2> QED BY <2>2, ConcatFacts DEF Stream
<1>3. /\ \A i, j \in 1..Len(s) : i < j => s[i] < s[j]
      /\ \A i \in 1..Len(s) : s[i] <= log[u]
      /\ \A i \in 1..Len(s), k \in 1..Len(toClient) : IsEvent(k, u) => s[i] < toClient[k].n
  BY Zenon DEF StreamInOrder
<1> HIDE DEF s
<1>4. /\ all \in Seq(Nat) /\ Len(all) = Len(s) + Len(w) /\ Len(s) \in Nat /\ Len(w) \in Nat
      /\ \A i \in 1..Len(s) : i \in 1..Len(all) /\ all[i] = s[i]
      /\ \A i \in 1..Len(w) : Len(s) + i \in 1..Len(all) /\ all[Len(s) + i] = w[i]
      /\ \A i \in 1..Len(all) : i \in 1..Len(s) \/ i - Len(s) \in 1..Len(w)
  BY <1>2, ConcatFacts
<1> HIDE DEF all
<1>5. \A i \in 1..Len(all) : i \in 1..Len(s) \/ (i - Len(s) \in 1..Len(w) /\ all[i] = w[i - Len(s)])
  <2>1. \A i \in 1..Len(all) : Len(s) + (i - Len(s)) = i
    BY <1>4
  <2> QED BY <1>4, <2>1, Zenon
<1>6. ASSUME NEW i \in 1..Len(all), NEW j \in 1..Len(all), i < j PROVE all[i] < all[j]
  <2>1. CASE j \in 1..Len(s)
    <3>1. i \in 1..Len(s)
      BY <1>4, <1>6, <2>1
    <3> QED BY <1>3, <1>4, <1>6, <2>1, <3>1, Zenon
  <2>2. CASE i \in 1..Len(s) /\ j - Len(s) \in 1..Len(w) /\ all[j] = w[j - Len(s)]
    <3>1. PICK k \in 1..Len(toClient) : IsEvent(k, u) /\ w[j - Len(s)] = toClient[k].n
      BY <2>2, Zenon
    <3> QED BY <1>3, <1>4, <2>2, <3>1, Zenon
  <2>3. CASE /\ i - Len(s) \in 1..Len(w) /\ all[i] = w[i - Len(s)]
             /\ j - Len(s) \in 1..Len(w) /\ all[j] = w[j - Len(s)]
    <3>1. i - Len(s) < j - Len(s)
      BY <1>4, <1>6
    <3>2. w[i - Len(s)] < w[j - Len(s)]
      BY <2>3, <3>1, Zenon
    <3> QED BY <2>3, <3>2, Zenon
  <2> QED BY <1>5, <2>1, <2>2, <2>3, Zenon
<1>7. ASSUME NEW i \in 1..Len(all) PROVE all[i] <= log[u]
  <2>1. CASE i \in 1..Len(s)
    BY <1>3, <1>4, <2>1, Zenon
  <2>2. CASE i - Len(s) \in 1..Len(w) /\ all[i] = w[i - Len(s)]
    <3>1. PICK k \in 1..Len(toClient) : IsEvent(k, u) /\ w[i - Len(s)] = toClient[k].n
      BY <2>2, Zenon
    <3>2. toClient[k].n <= log[u]
      BY <1>1, <3>1, Zenon DEF WireInOrder
    <3> QED BY <2>2, <3>1, <3>2, Zenon
  <2> QED BY <1>5, <2>1, <2>2, Zenon
<1>8. ASSUME NEW m, Arrives(e, m) PROVE \E i \in 1..Len(all) : all[i] = m
  <2>1. CASE \E i \in 1..Len(s) : s[i] = m
    BY <1>4, <2>1, Zenon
  <2>2. ASSUME NEW k \in 1..Len(toClient), IsEvent(k, u), toClient[k].n = m
        PROVE  \E i \in 1..Len(all) : all[i] = m
    <3>1. PICK i \in 1..Len(w) : w[i] = m
      BY <2>2, Zenon
    <3> QED BY <1>4, <3>1, Zenon
  <2> QED BY <1>8, <2>1, <2>2, Zenon DEF Arrives, s
<1> QED BY <1>4, <1>6, <1>7, <1>8, Zenon DEF all, s

-----------------------------------------------------------------------------
(* The readers of the leases.                                              *)

\* A lease is made within what its entry has published.
LeasesJoined ==
    /\ joined \in [1..MaxLeases -> Nat]
    /\ \A e \in EntryIds : \A l \in entry[e].holders :
          l \in 1..lastHolder /\ joined[l] \in 0..Len(entry[e].got)

\* A step that makes no lease.
NoLeaseMade ==
    /\ joined' = joined /\ lastHolder' = lastHolder
    /\ \A e \in EntryIds :
          /\ entry'[e].holders \subseteq entry[e].holders
          /\ \/ entry'[e].got = entry[e].got
             \/ entry'[e].got = Append(entry[e].got, Head(inbox[e])) /\ inbox[e] # <<>>

LEMMA JoinedKept ==
    ASSUME Typed, LeasesJoined, NoLeaseMade
    PROVE  LeasesJoined'
<1>1. joined' = joined /\ lastHolder' = lastHolder /\ joined \in [1..MaxLeases -> Nat]
  BY Zenon DEF NoLeaseMade, LeasesJoined
<1>2. ASSUME NEW e \in EntryIds, NEW l \in entry'[e].holders
      PROVE  l \in 1..lastHolder /\ joined[l] \in 0..Len(entry'[e].got)
  <2>1. l \in 1..lastHolder /\ joined[l] \in 0..Len(entry[e].got)
    BY <1>2, Zenon DEF NoLeaseMade, LeasesJoined
  <2>2. entry[e].got \in Seq(1..MaxEvents) /\ inbox[e] \in Seq(1..MaxEvents)
    BY Zenon DEF Typed, TypeOK, Entry
  <2>3. CASE entry'[e].got = entry[e].got
    BY <2>1, <2>3
  <2>4. CASE entry'[e].got = Append(entry[e].got, Head(inbox[e])) /\ inbox[e] # <<>>
    <3> DEFINE g == entry[e].got
               b == inbox[e]
    <3>1. g \in Seq(1..MaxEvents) /\ b \in Seq(1..MaxEvents) /\ b # <<>> /\ joined[l] \in 0..Len(g)
      BY <2>1, <2>2, <2>4
    <3> HIDE DEF g, b
    <3>2. joined[l] \in 0..Len(Append(g, Head(b)))
      BY <3>1
    <3> QED BY <2>1, <2>4, <3>2 DEF g, b
  <2> QED BY <1>2, <2>3, <2>4, Zenon DEF NoLeaseMade
<1> QED BY <1>1, <1>2, Zenon DEF LeasesJoined

\* Closing, failing, activating and answering touch neither holders nor events.
LEMMA HoldersStay ==
    ASSUME NEW s \in Entry
    PROVE  /\ Ended(s).holders = s.holders /\ Ended(s).got = s.got
           /\ [Ended(s) EXCEPT !.holders = {}].holders = {}
           /\ [Ended(s) EXCEPT !.holders = {}].got = s.got
           /\ [Fail(s) EXCEPT !.open = FALSE].holders = s.holders
           /\ [Fail(s) EXCEPT !.open = FALSE].got = s.got
           /\ Activate(s, s.result).holders = s.holders /\ Activate(s, s.result).got = s.got
           /\ \A n : [s EXCEPT !.result = n].holders = s.holders /\ [s EXCEPT !.result = n].got = s.got
           /\ \A X : [s EXCEPT !.holders = X].holders = X /\ [s EXCEPT !.holders = X].got = s.got
           /\ \A g : [s EXCEPT !.got = g].holders = s.holders /\ [s EXCEPT !.got = g].got = g
<1>1. /\ [Fail(s) EXCEPT !.open = FALSE].holders = s.holders
      /\ [Fail(s) EXCEPT !.open = FALSE].got = s.got
  BY Zenon DEF Entry, Fail
<1>2. Activate(s, s.result).holders = s.holders /\ Activate(s, s.result).got = s.got
  BY Zenon DEF Entry, Activate
<1>3. /\ \A n : [s EXCEPT !.result = n].holders = s.holders /\ [s EXCEPT !.result = n].got = s.got
      /\ \A X : [s EXCEPT !.holders = X].holders = X /\ [s EXCEPT !.holders = X].got = s.got
      /\ \A g : [s EXCEPT !.got = g].holders = s.holders /\ [s EXCEPT !.got = g].got = g
  BY Zenon DEF Entry
<1>4. Ended(s).holders = s.holders /\ Ended(s).got = s.got
  BY Zenon DEF Entry, Ended, CloseState
<1>5. /\ [Ended(s) EXCEPT !.holders = {}].holders = {}
      /\ [Ended(s) EXCEPT !.holders = {}].got = s.got
  <2> DEFINE d == Ended(s)
  <2>1. d \in Entry /\ d.got = s.got
    BY <1>4, EndedFacts
  <2> HIDE DEF d
  <2>2. [d EXCEPT !.holders = {}].holders = {} /\ [d EXCEPT !.holders = {}].got = d.got
    BY <2>1, Zenon DEF Entry
  <2> QED BY <2>1, <2>2 DEF d
<1> QED BY <1>1, <1>2, <1>3, <1>4, <1>5

\* One entry is replaced.
LEMMA OneEntryHeld ==
    ASSUME Typed, NEW e \in EntryIds, NEW t, entry' = [entry EXCEPT ![e] = t],
           joined' = joined, lastHolder' = lastHolder, t.holders \subseteq entry[e].holders,
           \/ t.got = entry[e].got
           \/ t.got = Append(entry[e].got, Head(inbox[e])) /\ inbox[e] # <<>>
    PROVE  NoLeaseMade
<1>1. entry \in [EntryIds -> Entry]
  BY Zenon DEF Typed, TypeOK
<1>2. entry'[e] = t /\ \A d \in EntryIds : d # e => entry'[d] = entry[d]
  BY <1>1
<1> QED BY <1>2, Zenon DEF NoLeaseMade

\* acquire() makes the reader of the lease at the end of what was published.
LEMMA JoinedMade ==
    ASSUME Typed, LeasesJoined, NEW e \in EntryIds, NEW t \in Entry, NEW n \in Nat,
           entry' = [entry EXCEPT ![e] = t], lastHolder < MaxLeases,
           lastHolder' = lastHolder + 1, joined' = [joined EXCEPT ![lastHolder + 1] = n],
           n <= Len(t.got),
           \/ t.holders = {lastHolder + 1}
           \/ t.holders = entry[e].holders \cup {lastHolder + 1} /\ t.got = entry[e].got
    PROVE  LeasesJoined'
<1>1. /\ entry \in [EntryIds -> Entry] /\ lastHolder \in Nat /\ MaxLeases \in Nat
      /\ joined \in [1..MaxLeases -> Nat] /\ t.got \in Seq(1..MaxEvents)
  BY BoundAssumption DEF Typed, TypeOK, LeasesJoined, Entry
<1>2. entry'[e] = t /\ \A d \in EntryIds : d # e => entry'[d] = entry[d]
  BY <1>1
<1>3. /\ joined' \in [1..MaxLeases -> Nat] /\ joined'[lastHolder + 1] = n
      /\ \A l \in 1..lastHolder : joined'[l] = joined[l] /\ l # lastHolder + 1
      /\ lastHolder + 1 \in 1..lastHolder' /\ 1..lastHolder \subseteq 1..lastHolder'
  BY <1>1
<1>4. n \in 0..Len(t.got)
  BY <1>1
<1>5. ASSUME NEW d \in EntryIds, NEW l \in entry'[d].holders
      PROVE  l \in 1..lastHolder' /\ joined'[l] \in 0..Len(entry'[d].got)
  <2>1. CASE d = e /\ l = lastHolder + 1
    BY <1>2, <1>3, <1>4, <2>1
  <2>2. CASE l \in entry[d].holders /\ entry'[d].got = entry[d].got
    BY <1>3, <2>2, Zenon DEF LeasesJoined
  <2>3. CASE d # e
    BY <1>2, <1>5, <2>2, <2>3, Zenon
  <2>4. CASE d = e
    <3>1. l \in t.holders /\ entry'[d].got = t.got
      BY <1>2, <1>5, <2>4
    <3>2. l = lastHolder + 1 \/ (l \in entry[d].holders /\ t.got = entry[d].got)
      BY <2>4, <3>1
    <3> QED BY <2>1, <2>2, <2>4, <3>1, <3>2
  <2> QED BY <2>3, <2>4
<1> QED BY <1>3, <1>5, Zenon DEF LeasesJoined

LEMMA JoinedStep == Mapped /\ LeasesJoined /\ [Next]_vars => LeasesJoined'
<1> SUFFICES ASSUME Mapped, LeasesJoined, [Next]_vars PROVE LeasesJoined'
  OBVIOUS
<1>1. /\ Typed /\ entry \in [EntryIds -> Entry] /\ entries \in [Uris -> EntryIds \cup {None}]
      /\ \A e \in EntryIds : entry[e] \in Entry
  BY Zenon DEF Mapped, Typed, TypeOK
<1>2. ASSUME NoLeaseMade PROVE LeasesJoined'
  BY <1>1, <1>2, JoinedKept
<1>3. ASSUME NEW e \in EntryIds, NEW t, entry' = [entry EXCEPT ![e] = t],
             joined' = joined, lastHolder' = lastHolder, t.holders \subseteq entry[e].holders,
             t.got = entry[e].got
      PROVE  LeasesJoined'
  BY <1>1, <1>2, <1>3, OneEntryHeld
<1>4. ASSUME entry' = entry, joined' = joined, lastHolder' = lastHolder PROVE LeasesJoined'
  BY <1>2, <1>4, Zenon DEF NoLeaseMade
<1>5. ASSUME NEW u \in Uris, NEW o \in Options, AcquireFirst(u, o) PROVE LeasesJoined'
  <2> DEFINE e == lastEntry + 1
             l == lastHolder + 1
             t == NewEntry(u, o, l)
  <2>1. e \in EntryIds
    BY <1>1, <1>5, AcquireFirstFacts DEF MapJoined
  <2>2. l \in 1..MaxLeases
    BY <1>1, <1>5, BoundAssumption DEF AcquireFirst, Typed
  <2>3. t \in Entry /\ t.holders = {l}
    BY <2>2, NewEntryFacts
  <2>4. t.got = <<>>
    BY SMT DEF NewEntry
  <2>5. /\ entry' = [entry EXCEPT ![e] = t] /\ lastHolder < MaxLeases /\ lastHolder' = l
        /\ joined' = [joined EXCEPT ![l] = 0]
    BY <1>5, Zenon DEF AcquireFirst
  <2>6. 0 \in Nat /\ 0 <= Len(t.got)
    BY <2>4
  <2> HIDE DEF t, e
  <2> QED BY <1>1, <2>1, <2>3, <2>5, <2>6, JoinedMade
<1>6. ASSUME NEW u \in Uris, NEW o \in Options, AcquireShared(u, o) PROVE LeasesJoined'
  <2> DEFINE e == entries[u]
             X == entry[e].holders \cup {lastHolder + 1}
             t == [entry[e] EXCEPT !.holders = X]
             n == Len(entry[e].got)
  <2>1. e \in EntryIds
    BY <1>1, <1>6, Zenon DEF AcquireShared
  <2>2. lastHolder + 1 \in 1..MaxLeases
    BY <1>1, <1>6, BoundAssumption DEF AcquireShared, Typed
  <2>3. entry[e].holders \in SUBSET (1..MaxLeases) /\ entry[e].got \in Seq(1..MaxEvents)
    BY <1>1, <2>1, Zenon DEF Entry
  <2>4. X \in SUBSET (1..MaxLeases)
    BY <2>2, <2>3
  <2>5. /\ entry' = [entry EXCEPT ![e] = t] /\ lastHolder < MaxLeases
        /\ lastHolder' = lastHolder + 1 /\ joined' = [joined EXCEPT ![lastHolder + 1] = n]
    BY <1>6, Zenon DEF AcquireShared
  <2> HIDE DEF X
  <2>6. t \in Entry /\ t.holders = X /\ t.got = entry[e].got
    <3> HIDE DEF e
    <3>1. entry[e] \in Entry
      BY <1>1, <2>1
    <3>2. t \in Entry
      BY <2>4, <3>1, FieldFacts, Zenon
    <3>3. t.holders = X /\ t.got = entry[e].got
      BY <3>1, HoldersStay, Zenon
    <3> QED BY <3>2, <3>3
  <2>7. n \in Nat /\ n <= Len(t.got)
    BY <2>3, <2>6
  <2>8. t.holders = entry[e].holders \cup {lastHolder + 1}
    BY <2>6 DEF X
  <2> HIDE DEF t, e, n
  <2> QED BY <1>1, <2>1, <2>5, <2>6, <2>7, <2>8, JoinedMade DEF e
<1>7. ASSUME NEW e \in EntryIds, NEW l \in 1..MaxLeases, ReleaseShared(e, l) PROVE LeasesJoined'
  <2> DEFINE X == entry[e].holders \ {l}
             t == [entry[e] EXCEPT !.holders = X]
  <2>1. entry' = [entry EXCEPT ![e] = t] /\ joined' = joined /\ lastHolder' = lastHolder
    BY <1>7, Zenon DEF ReleaseShared
  <2>2. t.holders = X /\ t.got = entry[e].got
    BY <1>1, HoldersStay, Zenon
  <2>3. t.holders \subseteq entry[e].holders
    BY <2>2
  <2> HIDE DEF t
  <2> QED BY <1>3, <2>1, <2>2, <2>3
<1>8. ASSUME NEW e \in EntryIds, NEW l \in 1..MaxLeases, ReleaseLast(e, l) PROVE LeasesJoined'
  <2> DEFINE t == [Ended(entry[e]) EXCEPT !.holders = {}]
  <2>1. entry' = [entry EXCEPT ![e] = t] /\ joined' = joined /\ lastHolder' = lastHolder
    BY <1>8, Zenon DEF ReleaseLast
  <2>2. t.holders = {} /\ t.got = entry[e].got
    BY <1>1, HoldersStay, Zenon
  <2>3. t.holders \subseteq entry[e].holders
    BY <2>2
  <2> HIDE DEF t
  <2> QED BY <1>3, <2>1, <2>2, <2>3
<1>9. CASE Close
  <2>1. /\ joined' = joined /\ lastHolder' = lastHolder
        /\ \A e \in EntryIds : entry'[e] = entry[e] \/ entry'[e] = Ended(entry[e])
    BY <1>9, Zenon DEF Close, DisposeEntries
  <2>2. \A e \in EntryIds : entry'[e].holders = entry[e].holders /\ entry'[e].got = entry[e].got
    BY <1>1, <2>1, HoldersStay, Zenon
  <2> QED BY <1>2, <2>1, <2>2, Zenon DEF NoLeaseMade
<1>10. ASSUME NEW e \in EntryIds, StartActivates(e) PROVE LeasesJoined'
  <2> DEFINE t == Activate(entry[e], entry[e].result)
  <2>1. entry' = [entry EXCEPT ![e] = t] /\ joined' = joined /\ lastHolder' = lastHolder
    BY <1>10, Zenon DEF StartActivates
  <2>2. t.holders = entry[e].holders /\ t.got = entry[e].got
    BY <1>1, HoldersStay, Zenon
  <2> HIDE DEF t
  <2> QED BY <1>3, <2>1, <2>2
<1>11. ASSUME NEW e \in EntryIds, StartFails(e) PROVE LeasesJoined'
  <2> DEFINE t == [Fail(entry[e]) EXCEPT !.open = FALSE]
  <2>1. entry' = [entry EXCEPT ![e] = t] /\ joined' = joined /\ lastHolder' = lastHolder
    BY <1>11, Zenon DEF StartFails
  <2>2. t.holders = entry[e].holders /\ t.got = entry[e].got
    BY <1>1, HoldersStay, Zenon
  <2> HIDE DEF t
  <2> QED BY <1>3, <2>1, <2>2
<1>12. ASSUME NEW e \in EntryIds, PumpPublishes(e) PROVE LeasesJoined'
  <2> DEFINE g == IF entry[e].open THEN Append(entry[e].got, Head(inbox[e])) ELSE entry[e].got
             t == [entry[e] EXCEPT !.got = g]
  <2>1. entry' = [entry EXCEPT ![e] = t] /\ joined' = joined /\ lastHolder' = lastHolder
        /\ inbox[e] # <<>>
    BY <1>12, Zenon DEF PumpPublishes
  <2>2. t.holders = entry[e].holders /\ t.got = g
    <3> HIDE DEF g
    <3>1. entry[e] \in Entry
      BY <1>1
    <3> QED BY <3>1, HoldersStay, Zenon
  <2>3. t.got = entry[e].got \/ t.got = Append(entry[e].got, Head(inbox[e]))
    BY <2>2
  <2>4. t.holders \subseteq entry[e].holders
    BY <2>2
  <2> HIDE DEF t, g
  <2>5. NoLeaseMade
    BY <1>1, <2>1, <2>3, <2>4, OneEntryHeld
  <2> QED BY <1>2, <2>5
<1>13. ASSUME NEW e \in EntryIds, PumpEnds(e) PROVE LeasesJoined'
  <2> DEFINE t == Ended(entry[e])
  <2>1. /\ joined' = joined /\ lastHolder' = lastHolder
        /\ entry' = [entry EXCEPT ![e] = t] \/ entry' = entry
    BY <1>13, Zenon DEF PumpEnds
  <2>2. t.holders = entry[e].holders /\ t.got = entry[e].got
    BY <1>1, HoldersStay, Zenon
  <2> HIDE DEF t
  <2> QED BY <1>3, <1>4, <2>1, <2>2
<1>14. CASE ReceiveAnswer
  <2> DEFINE e == Head(toClient).e
             t == [entry[e] EXCEPT !.result = Head(toClient).n]
  <2>1. /\ joined' = joined /\ lastHolder' = lastHolder
        /\ (start[e] = "waiting" /\ entry' = [entry EXCEPT ![e] = t]) \/ entry' = entry
    BY <1>14, Zenon DEF ReceiveAnswer
  <2>2. CASE e \in EntryIds
    <3>1. t.holders = entry[e].holders /\ t.got = entry[e].got
      BY <1>1, <2>2, HoldersStay, Zenon
    <3> HIDE DEF t, e
    <3> QED BY <1>3, <1>4, <2>1, <2>2, <3>1
  <2>3. CASE e \notin EntryIds
    <3> HIDE DEF t, e
    <3>1. [entry EXCEPT ![e] = t] = entry
      BY <1>1, <2>3
    <3> QED BY <1>4, <2>1, <3>1
  <2> QED BY <2>2, <2>3
<1>15. CASE \/ \E e \in EntryIds : StartDiscards(e) \/ StartIgnored(e) \/ RequestTimesOut(e)
            \/ ReceiveEvent \/ ClientEnds \/ (\E ok \in BOOLEAN : ServerAnswers(ok))
            \/ ServerUnsubscribes \/ (\E u \in Uris : ServerPublishes(u)) \/ UNCHANGED vars
  <2>1. entry' = entry /\ joined' = joined /\ lastHolder' = lastHolder
    BY <1>15, Zenon DEF StartDiscards, StartIgnored, RequestTimesOut, ReceiveEvent, ClientEnds,
       ServerAnswers, ServerUnsubscribes, ServerPublishes, vars, managerVars
  <2> QED BY <1>4, <2>1
<1> QED
  BY <1>5, <1>6, <1>7, <1>8, <1>9, <1>10, <1>11, <1>12, <1>13, <1>14, <1>15, Zenon DEF Next

LEMMA AlwaysJoined == Spec => [](Mapped /\ Wired /\ Streamed /\ LeasesJoined)
<1>1. Init => LeasesJoined
  <2> SUFFICES ASSUME Init PROVE LeasesJoined
    OBVIOUS
  <2>1. joined = [l \in 1..MaxLeases |-> 0] /\ entry = [e \in EntryIds |-> Unmade]
    BY Zenon DEF Init
  <2>2. Unmade.holders = {}
    BY SMT DEF Unmade, NewEntry
  <2> QED BY <2>1, <2>2 DEF LeasesJoined
<1>2. Mapped /\ LeasesJoined /\ [Next]_vars => LeasesJoined'
  BY JoinedStep
<1> QED BY <1>1, <1>2, AlwaysStreamed, PTL DEF Spec

\* y is what is left of x after its first j elements.
IsRest(x, y, j) == Len(y) = Len(x) - j /\ \A i \in 1..Len(y) : y[i] = x[j + i]

\* s holds events up to n, in order, and all of those after a.
Covers(s, a, n) ==
    /\ \A i, k \in 1..Len(s) : i < k => s[i] < s[k]
    /\ \A i \in 1..Len(s) : s[i] <= n
    /\ \A m \in (a + 1)..n : \E i \in 1..Len(s) : s[i] = m

\* The first j elements of s are not after a.
Starts(s, j, a, n) ==
    a \in Int /\ n \in 0..MaxEvents /\ 0 <= a /\ a <= n /\ (j > 0 => s[j] <= a)

\* What is appended to a sequence is appended to its rest.
LEMMA RestGrows ==
    ASSUME NEW x \in Seq(Nat), NEW y \in Seq(Nat), NEW w \in Seq(Nat), NEW j \in 0..Len(x),
           IsRest(x, y, j)
    PROVE  /\ x \o w \in Seq(Nat) /\ y \o w \in Seq(Nat)
           /\ IsRest(x \o w, y \o w, j) /\ j \in 0..Len(x \o w)
           /\ j > 0 => (x \o w)[j] = x[j]
<1>1. /\ y \o w \in Seq(Nat) /\ Len(y \o w) = Len(y) + Len(w)
      /\ \A i \in 1..(Len(y) + Len(w)) :
            (y \o w)[i] = IF i <= Len(y) THEN y[i] ELSE w[i - Len(y)]
  BY ConcatProperties
<1>2. /\ x \o w \in Seq(Nat) /\ Len(x \o w) = Len(x) + Len(w)
      /\ \A i \in 1..(Len(x) + Len(w)) :
            (x \o w)[i] = IF i <= Len(x) THEN x[i] ELSE w[i - Len(x)]
  BY ConcatProperties
<1>3. Len(x) \in Nat /\ Len(y) \in Nat /\ Len(w) \in Nat /\ j \in Nat /\ j <= Len(x)
  OBVIOUS
<1>4. Len(y) = Len(x) - j /\ \A i \in 1..Len(y) : y[i] = x[j + i]
  BY DEF IsRest
<1>5. ASSUME NEW i \in 1..(Len(y) + Len(w)) PROVE (y \o w)[i] = (x \o w)[j + i]
  <2>1. j + i \in 1..(Len(x) + Len(w)) /\ i \in Nat
    BY ONLY <1>3, <1>4, i \in 1..(Len(y) + Len(w))
  <2>2. CASE i <= Len(y)
    <3>1. i \in 1..Len(y) /\ j + i <= Len(x)
      BY ONLY <1>3, <1>4, <2>2, i \in 1..(Len(y) + Len(w))
    <3> QED BY <1>1, <1>2, <1>4, <2>1, <2>2, <3>1
  <2>3. CASE ~(i <= Len(y))
    <3>1. i - Len(y) = (j + i) - Len(x) /\ ~(j + i <= Len(x))
      BY ONLY <1>3, <1>4, <2>1, <2>3
    <3> QED BY <1>1, <1>2, <2>1, <2>3, <3>1
  <2> QED BY <2>2, <2>3
<1>6. j > 0 => (x \o w)[j] = x[j]
  BY <1>2, <1>3
<1>7. Len(y) + Len(w) = (Len(x) + Len(w)) - j /\ j \in 0..(Len(x) + Len(w))
  BY ONLY <1>3, <1>4
<1> QED BY ONLY <1>1, <1>2, <1>5, <1>6, <1>7 DEF IsRest

\* A reader that starts after the first j published events.
LEMMA ReaderRest ==
    ASSUME NEW g \in Seq(Nat), NEW b \in Seq(Nat), NEW w \in Seq(Nat), NEW j \in 0..Len(g)
    PROVE  LET all  == (g \o b) \o w
               rest == SubSeq(g, j + 1, Len(g)) \o b \o w IN
           /\ all \in Seq(Nat) /\ rest \in Seq(Nat) /\ IsRest(all, rest, j) /\ j \in 0..Len(all)
           /\ j > 0 => all[j] = g[j]
<1> DEFINE h == SubSeq(g, j + 1, Len(g))
           x == g \o b
           y == h \o b
<1>1. /\ h \in Seq(Nat) /\ Len(h) = Len(g) - j
      /\ \A i \in 1..Len(h) : h[i] = g[j + i]
  OBVIOUS
<1>2. IsRest(g, h, j)
  BY <1>1 DEF IsRest
<1> HIDE DEF h
<1>3. x \in Seq(Nat) /\ y \in Seq(Nat) /\ IsRest(x, y, j) /\ j \in 0..Len(x) /\ (j > 0 => x[j] = g[j])
  BY <1>1, <1>2, RestGrows
<1> HIDE DEF x, y
<1>4. /\ x \o w \in Seq(Nat) /\ y \o w \in Seq(Nat) /\ IsRest(x \o w, y \o w, j)
      /\ j \in 0..Len(x \o w) /\ (j > 0 => (x \o w)[j] = x[j])
  BY <1>3, RestGrows
<1> QED BY <1>3, <1>4, Zenon DEF x, y, h

\* The events after a that a reader is given, when all of them are in the stream
\* and none of those before its place in the stream is after a.
LEMMA RestIsComplete ==
    ASSUME NEW all \in Seq(Nat), NEW rest \in Seq(Nat), NEW j \in 0..Len(all),
           NEW a, NEW n, Starts(all, j, a, n), Covers(all, a, n), IsRest(all, rest, j)
    PROVE  EventsAfter(a, rest) = [i \in 1..(n - a) |-> a + i]
<1> DEFINE S == {m \in 1..MaxEvents : m > a}
           k == Kept(rest, S)
<1>0. a \in Int /\ n \in 0..MaxEvents /\ 0 <= a /\ a <= n /\ (j > 0 => all[j] <= a)
  BY Zenon DEF Starts
<1>1. MaxEvents \in Nat /\ n \in Nat /\ n <= MaxEvents /\ Len(all) \in Nat /\ Len(rest) \in Nat
  BY <1>0, BoundAssumption
<1>2. /\ \A i, l \in 1..Len(all) : i < l => all[i] < all[l]
      /\ \A i \in 1..Len(all) : all[i] <= n /\ all[i] \in Nat
      /\ \A m \in (a + 1)..n : \E i \in 1..Len(all) : all[i] = m
  BY DEF Covers
<1>3. Len(rest) = Len(all) - j /\ \A i \in 1..Len(rest) : rest[i] = all[j + i]
  BY DEF IsRest
<1>4. \A i, l \in 1..Len(rest) : i < l => rest[i] < rest[l]
  <2> SUFFICES ASSUME NEW i \in 1..Len(rest), NEW l \in 1..Len(rest), i < l
               PROVE  rest[i] < rest[l]
    OBVIOUS
  <2>1. j + i \in 1..Len(all) /\ j + l \in 1..Len(all) /\ j + i < j + l
    BY <1>1, <1>3
  <2> QED BY <1>2, <1>3, <2>1
<1>5. /\ k \in Seq(Nat)
      /\ \A i, l \in 1..Len(k) : i < l => k[i] < k[l]
  <2> HIDE DEF S
  <2> QED BY ONLY rest \in Seq(Nat), <1>4, KeptIndex, KeptIncreasing, Zenon
<1>6. /\ \A i \in 1..Len(k) : k[i] \in S /\ \E l \in 1..Len(rest) : rest[l] = k[i]
      /\ \A l \in 1..Len(rest) : rest[l] \in S => \E i \in 1..Len(k) : k[i] = rest[l]
  <2> HIDE DEF S
  <2> QED BY ONLY rest \in Seq(Nat), KeptElements, Zenon
<1> HIDE DEF k
<1>7. ASSUME NEW i \in 1..Len(k) PROVE k[i] \in (a + 1)..n
  <2>1. PICK l \in 1..Len(rest) : rest[l] = k[i]
    BY <1>6, <1>7
  <2>2. j + l \in 1..Len(all)
    BY <1>1, <1>3
  <2>3. k[i] <= n
    BY <1>2, <1>3, <2>1, <2>2
  <2>4. k[i] \in S
    BY <1>6, <1>7, Zenon
  <2>5. k[i] \in Int /\ k[i] > a
    BY ONLY <1>0, <1>1, <2>4
  <2> QED BY ONLY <1>0, <1>1, <2>3, <2>5
<1>8. ASSUME NEW m \in (a + 1)..n PROVE \E i \in 1..Len(k) : k[i] = m
  <2>1. PICK q \in 1..Len(all) : all[q] = m
    BY <1>2, <1>8
  <2>2. q > j
    <3> SUFFICES ASSUME q <= j PROVE FALSE
      OBVIOUS
    <3>1. j \in 1..Len(all) /\ all[j] <= a /\ all[j] \in Nat
      BY <1>0, <1>1, <1>2
    <3>2. q = j \/ all[q] < all[j]
      BY <1>2, <3>1
    <3> QED BY ONLY <1>0, <1>1, <2>1, <3>1, <3>2, m \in (a + 1)..n
  <2>3. q - j \in 1..Len(rest) /\ j + (q - j) = q
    BY <1>1, <1>3, <2>2
  <2>4. rest[q - j] = m
    BY <1>3, <2>1, <2>3
  <2>5. m \in S
    BY ONLY <1>0, <1>1, m \in (a + 1)..n
  <2> QED BY <1>6, <2>3, <2>4, <2>5
<1>9. k \in Seq(Int)
  BY <1>5, SeqMonotonic
<1>10. /\ \A i \in 1..Len(k) : k[i] \in (a + 1)..n
       /\ \A m \in (a + 1)..n : \E i \in 1..Len(k) : k[i] = m
  BY <1>7, <1>8, Zenon
<1>11. n \in Int
  BY <1>1
<1>12. k = [i \in 1..(n - a) |-> a + i]
  BY ONLY <1>0, <1>5, <1>9, <1>10, <1>11, Counting
<1> QED BY <1>12, Zenon DEF k, EventsAfter

\* From the moment it is made, a lease of an active subscription gets every event
\* the snapshot does not cover, in order: the subscribe round-trip, releases and
\* new acquires of the URI lose none (createLease, pump, start).
THEOREM LeasesGetTheRest == Spec => []LeaseGetsTheRest
<1>1. ASSUME Mapped, Wired, Streamed, LeasesJoined PROVE LeaseGetsTheRest
  <2> SUFFICES ASSUME NEW e \in 1..lastEntry, NEW l \in entry[e].holders,
                      clientOpen, Current(e), entry[e].status = "active"
               PROVE  EventsAfter(LastBefore(e, l), Given(e, l))
                        = [i \in 1..(log[entry[e].uri] - LastBefore(e, l)) |-> LastBefore(e, l) + i]
    BY Zenon DEF LeaseGetsTheRest
  <2> DEFINE u == entry[e].uri
             r == entry[e].result
             g == entry[e].got
             b == inbox[e]
             j == joined[l]
             w == [i \in 1..Len(EventsOf(u)) |-> EventsOf(u)[i].n]
             all == Stream(e) \o w
             rest == SubSeq(g, j + 1, Len(g)) \o b \o w
             a == LastBefore(e, l)
             n == log[u]
  <2>1. WireInOrder /\ StreamInOrder(e) /\ Complete(e)
    BY <1>1, Zenon DEF Streamed, Followed
  <2>2. e \in EntryIds /\ u \in Uris /\ r \in Int /\ n \in 0..MaxEvents
        /\ g \in Seq(1..MaxEvents) /\ b \in Seq(1..MaxEvents)
    <3>1. e \in EntryIds /\ u \in Uris
      BY <1>1, MadeEntries, Zenon DEF Mapped
    <3> QED BY <1>1, <3>1, Zenon DEF Mapped, Typed, TypeOK, Entry
  <2>3. g \in Seq(Nat) /\ b \in Seq(Nat) /\ j \in 0..Len(g)
    <3>1. 1..MaxEvents \subseteq Nat
      BY BoundAssumption
    <3>2. j \in 0..Len(g)
      BY <1>1, <2>2, Zenon DEF LeasesJoined
    <3> QED BY <2>2, <3>1, <3>2, SeqMonotonic, Zenon
  <2>4. /\ w \in Seq(Nat)
        /\ \A i, k \in 1..Len(w) : i < k => w[i] < w[k]
        /\ \A i \in 1..Len(w) : \E m \in 1..Len(toClient) : IsEvent(m, u) /\ w[i] = toClient[m].n
        /\ \A m \in 1..Len(toClient) : IsEvent(m, u) => \E i \in 1..Len(w) : w[i] = toClient[m].n
    BY <1>1, <2>1, <2>2, WireNumbers, Zenon
  <2>5. Given(e, l) = rest
    BY Zenon DEF Given
  <2> HIDE DEF w
  <2>6. /\ all \in Seq(Nat)
        /\ \A i, k \in 1..Len(all) : i < k => all[i] < all[k]
        /\ \A i \in 1..Len(all) : all[i] <= n
        /\ \A m : Arrives(e, m) => \E i \in 1..Len(all) : all[i] = m
    BY <1>1, <2>1, <2>4, AllInOrder, Zenon
  <2>7. r \in 0..n /\ \A m \in (r + 1)..n : Arrives(e, m)
    BY <2>1, <2>2, Zenon DEF Complete, Snapshot, Answered
  <2>8. /\ rest \in Seq(Nat) /\ IsRest(all, rest, j) /\ j \in 0..Len(all)
        /\ j > 0 => all[j] = g[j]
    <3>1. Stream(e) = g \o b
      BY Zenon DEF Stream
    <3> HIDE DEF g, b, j
    <3>2. LET x == (g \o b) \o w IN
          /\ rest \in Seq(Nat) /\ IsRest(x, rest, j) /\ j \in 0..Len(x)
          /\ j > 0 => x[j] = g[j]
      <4>1. w \in Seq(Nat)
        BY <2>4
      <4> QED BY ONLY <2>3, <4>1, ReaderRest
    <3> QED BY <3>1, <3>2, Zenon
  <2>9. a = IF j > 0 /\ g[j] > r THEN g[j] ELSE r
    BY DEF LastBefore
  <2> HIDE DEF all, rest, g, b, j, a, r, n, u
  <2>10. j > 0 => j \in 1..Len(all) /\ g[j] \in Nat /\ g[j] <= n
    BY <2>3, <2>6, <2>8
  <2>11. a \in Int /\ n \in Int /\ 0 <= a /\ a <= n /\ r <= a /\ (j > 0 => all[j] <= a)
    BY <2>2, <2>7, <2>8, <2>9, <2>10, BoundAssumption
  <2>12. Covers(all, a, n)
    <3>1. ASSUME NEW m \in (a + 1)..n PROVE \E i \in 1..Len(all) : all[i] = m
      <4>1. m \in (r + 1)..n
        BY <2>2, <2>11
      <4> QED BY <2>6, <2>7, <4>1, Zenon
    <3> QED BY <2>6, <3>1, Zenon DEF Covers
  <2>13. EventsAfter(a, rest) = [i \in 1..(n - a) |-> a + i]
    <3>1. all \in Seq(Nat) /\ Starts(all, j, a, n)
      BY <2>2, <2>6, <2>11, Zenon DEF Starts
    <3> QED BY ONLY <2>8, <2>12, <3>1, RestIsComplete
  <2> QED BY <2>5, <2>13 DEF a, n, u
<1> QED BY <1>1, AlwaysJoined, PTL

=============================================================================
