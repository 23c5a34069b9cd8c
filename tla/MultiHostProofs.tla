--------------------------- MODULE MultiHostProofs ---------------------------
(***************************************************************************)
(* What MultiHostClient, its ClientIdStore and MultiHostStateMirror         *)
(* guarantee for any host ids, URIs, configurations and addHost() calls,    *)
(* and without the bounds.                                                  *)
(*                                                                          *)
(* Registered is about hosts and runtimes; Resolving about the addHost()    *)
(* calls under way, one per host, and the ids they are about to store;      *)
(* Persisted about what runtimes used and the store holds.  None of them is *)
(* inductive alone: that a registered host keeps its stored id needs that   *)
(* no call is under way for it.                                             *)
(***************************************************************************)
EXTENDS MultiHost, TLAPS

CallStates == {"idle", "loading", "storing", "resolved"}
Call       == [pc : CallStates, host : HostIds, clientId : ClientIds \cup {None}]
Runtime    == [host : HostIds, clientId : ClientIds \cup {None},
               state : {"live", "stopping", "exited"}]

Typed ==
    /\ hosts \in [HostIds -> RuntimeIds \cup {None}]
    /\ store \in [HostIds -> ClientIds \cup {None}]
    /\ calls \in [Calls -> Call]
    /\ runtimes \in Seq(Runtime) /\ Len(runtimes) <= MaxRuntimes
    /\ generated \in 0..MaxRuntimes

\* Who is registered is live.
HostsAreLive ==
    \A h \in HostIds : hosts[h] # None =>
       /\ hosts[h] \in DOMAIN runtimes /\ runtimes[hosts[h]].host = h
       /\ runtimes[hosts[h]].state = "live"

\* ... and the other way round; after shutdown() nobody is.
Registered ==
    /\ HostsAreLive
    /\ shutdownCall # "none" => shutDown
    /\ NoHostEscapes

Busy(c) == calls[c].pc # "idle"

\* An addHost() under way holds its host id, which is not registered yet.
CallsPending ==
    \A c \in Calls : Busy(c) => (calls[c].host \in pendingHostIds /\ hosts[calls[c].host] = None)

OneCallPerHost ==
    \A c, d \in Calls : (Busy(c) /\ Busy(d) /\ calls[c].host = calls[d].host) => c = d

\* The id that is about to be stored replaces none that was generated, unless
\* the configuration names it.
StoringCalls ==
    \A c \in Calls : calls[c].pc = "storing" =>
       /\ calls[c].clientId # None
       /\ calls[c].clientId \notin Explicit => store[calls[c].host] \in {None, calls[c].clientId}

ResolvedCalls ==
    \A c \in Calls : calls[c].pc = "resolved" =>
       (calls[c].clientId # None /\ store[calls[c].host] = calls[c].clientId)

Resolving == CallsPending /\ OneCallPerHost /\ StoringCalls /\ ResolvedCalls

RegisteredIsStored ==
    \A h \in HostIds : hosts[h] # None => store[h] = runtimes[hosts[h]].clientId

\* The id of every runtime was stored, and a generated one is replaced only by
\* one that a configuration names.
UsedIsStored ==
    \A r \in DOMAIN runtimes :
       /\ store[runtimes[r].host] # None
       /\ \/ runtimes[r].clientId \in Explicit
          \/ store[runtimes[r].host] \in Explicit
          \/ store[runtimes[r].host] = runtimes[r].clientId

OneGenerated ==
    \A r, s \in DOMAIN runtimes :
       (runtimes[r].host = runtimes[s].host
          /\ {runtimes[r].clientId, runtimes[s].clientId} \cap Explicit = {})
       => runtimes[r].clientId = runtimes[s].clientId

Persisted == RegisteredIsStored /\ UsedIsStored /\ OneGenerated

\* The maps of the mirror, and what they mean.
Mirror ==
    /\ channelMap \in [Keys -> Nat]
    /\ expected \in [HostIds -> [Uris -> Nat]]
    /\ automationCatalogs \in [HostIds -> SUBSET Uris]
    /\ MirrorKeepsHostsApart

Hosted == Typed /\ Registered /\ Resolving /\ Persisted

-----------------------------------------------------------------------------
(* The keys of the mirror.                                                 *)

\* Host ids and URIs are sequences of characters, and so are the other parts of a key.
LEMMA Characters ==
    \E C : /\ \A h \in HostIds : h \in Seq(C) /\ Len(h) \in Nat /\ ToString(Len(h)) \in C
           /\ \A u \in Uris : u \in Seq(C)
           /\ NUL \in C
<1>1. PICK D : D = STRING
  OBVIOUS
<1> DEFINE C == D \cup {NUL} \cup {ToString(Len(h)) : h \in HostIds}
<1>2. \A s \in Seq(D) : s \in Seq(C)
  <2>1. D \subseteq C
    BY Zenon
  <2> HIDE DEF C
  <2> QED BY <2>1
<1>3. /\ \A h \in HostIds : h \in Seq(D)
      /\ \A u \in Uris : u \in Seq(D)
  BY <1>1, HostIdAssumption, UriAssumption, Zenon
<1>4. ASSUME NEW s \in Seq(D) PROVE Len(s) \in Nat
  OBVIOUS
<1>5. NUL \in C /\ \A h \in HostIds : ToString(Len(h)) \in C
  BY Zenon
<1> HIDE DEF C
<1>6. /\ \A h \in HostIds : h \in Seq(C) /\ Len(h) \in Nat
      /\ \A u \in Uris : u \in Seq(C)
  BY <1>2, <1>3, <1>4, Zenon
<1> QED BY <1>5, <1>6, Zenon

\* What a concatenation consists of.
LEMMA Joined ==
    ASSUME NEW C, NEW s \in Seq(C), NEW t \in Seq(C)
    PROVE  /\ s \o t \in Seq(C) /\ Len(s) \in Nat /\ Len(t) \in Nat
           /\ Len(s \o t) = Len(s) + Len(t)
           /\ \A i \in 1..Len(s) : (s \o t)[i] = s[i]
           /\ \A i \in 1..Len(t) : (s \o t)[Len(s) + i] = t[i]
  OBVIOUS

\* A sequence is a prefix of one that has the same elements to its length.
LEMMA PrefixOf ==
    ASSUME NEW C, NEW s \in Seq(C), NEW t \in Seq(C)
    PROVE  IsPrefix(s, t) <=> (Len(s) <= Len(t) /\ \A i \in 1..Len(s) : s[i] = t[i])
<1>1. ASSUME Len(s) <= Len(t)
      PROVE  (SubSeq(s, 1, Len(s)) = SubSeq(t, 1, Len(s))) <=> (\A i \in 1..Len(s) : s[i] = t[i])
  <2> DEFINE x == SubSeq(s, 1, Len(s))
             y == SubSeq(t, 1, Len(s))
  <2>1. /\ Len(s) \in Nat /\ x \in Seq(C) /\ y \in Seq(C) /\ Len(x) = Len(s) /\ Len(y) = Len(s)
        /\ \A i \in 1..Len(s) : x[i] = s[i] /\ y[i] = t[i]
    BY <1>1
  <2> HIDE DEF x, y
  <2>2. (x = y) <=> (\A i \in 1..Len(s) : x[i] = y[i])
    BY <2>1
  <2>3. (x = y) <=> (\A i \in 1..Len(s) : s[i] = t[i])
    BY <2>1, <2>2, Zenon
  <2> QED BY <2>3 DEF x, y
<1> QED BY <1>1, Zenon DEF IsPrefix

\* The characters of a key.
LEMMA KeyShape ==
    ASSUME NEW h \in HostIds, NEW u \in Uris
    PROVE  LET k == hostedResourceKey(h, u)
               p == hostedResourceKeyPrefix(h)
           IN  /\ Len(h) \in Nat /\ Len(u) \in Nat
               /\ Len(p) = Len(h) + 2 /\ Len(k) = Len(h) + 2 + Len(u)
               /\ p[1] = ToString(Len(h)) /\ k[1] = ToString(Len(h))
               /\ \A i \in 1..Len(h) : p[i + 2] = h[i] /\ k[i + 2] = h[i]
               /\ \A i \in 1..Len(u) : k[Len(h) + 2 + i] = u[i]
               /\ IsPrefix(p, k)
<1>1. PICK a, b : a = ToString(Len(h)) /\ b = NUL
  OBVIOUS
<1>2. PICK C : h \in Seq(C) /\ Len(h) \in Nat /\ u \in Seq(C) /\ a \in C /\ b \in C
  BY <1>1, Characters, Zenon
<1>3. PICK q : q = <<a, b>>
  OBVIOUS
<1>q. q \in Seq(C) /\ Len(q) = 2 /\ q[1] = a
  BY <1>2, <1>3
<1>p. PICK p : p = q \o h
  OBVIOUS
<1>k. PICK k : k = p \o u
  OBVIOUS
<1>pk. hostedResourceKeyPrefix(h) = p /\ hostedResourceKey(h, u) = k
  BY <1>1, <1>3, <1>p, <1>k, Zenon DEF hostedResourceKeyPrefix, hostedResourceKey
<1>4. /\ p \in Seq(C) /\ Len(h) \in Nat /\ Len(p) = 2 + Len(h)
      /\ (\A i \in 1..2 : p[i] = q[i]) /\ \A i \in 1..Len(h) : p[2 + i] = h[i]
  <2>1. PICK g : g = h
    OBVIOUS
  <2>2. g \in Seq(C) /\ q \in Seq(C)
    BY <1>2, <1>q, <2>1, Zenon
  <2>3. /\ q \o g \in Seq(C) /\ Len(g) \in Nat /\ Len(q \o g) = Len(q) + Len(g)
        /\ (\A i \in 1..Len(q) : (q \o g)[i] = q[i])
        /\ \A i \in 1..Len(g) : (q \o g)[Len(q) + i] = g[i]
    BY <2>2, Joined
  <2> QED BY <1>q, <1>p, <2>1, <2>3, Zenon
<1>5. /\ k \in Seq(C) /\ Len(u) \in Nat /\ Len(k) = Len(p) + Len(u)
      /\ (\A i \in 1..Len(p) : k[i] = p[i]) /\ \A i \in 1..Len(u) : k[Len(p) + i] = u[i]
  <2>1. PICK v : v = u
    OBVIOUS
  <2>2. v \in Seq(C) /\ p \in Seq(C)
    BY <1>2, <1>4, <2>1, Zenon
  <2>3. /\ p \o v \in Seq(C) /\ Len(v) \in Nat /\ Len(p \o v) = Len(p) + Len(v)
        /\ (\A i \in 1..Len(p) : (p \o v)[i] = p[i])
        /\ \A i \in 1..Len(v) : (p \o v)[Len(p) + i] = v[i]
    BY <2>2, Joined
  <2> QED BY <1>k, <2>1, <2>3, Zenon
<1>6. PICK n \in Nat, m \in Nat : n = Len(h) /\ m = Len(u)
  BY <1>4, <1>5, Zenon
<1>7. 1 \in 1..2 /\ 1 \in 1..(2 + n) /\ (\A i \in 1..n : 2 + i = i + 2 /\ 2 + i \in 1..(2 + n))
      /\ 2 + n = n + 2
  BY <1>6
<1>8. /\ p[1] = a /\ k[1] = a /\ \A i \in 1..n : p[i + 2] = h[i] /\ k[i + 2] = h[i]
  <2>1. p[1] = a /\ k[1] = a
    <3>1. p[1] = q[1]
      BY <1>4, <1>7, Zenon
    <3>2. Len(p) = 2 + n
      BY <1>4, <1>6, Zenon
    <3>3. k[1] = p[1]
      BY <1>5, <1>7, <3>2, Zenon
    <3> QED BY <1>q, <3>1, <3>3, Zenon
  <2>2. ASSUME NEW i \in 1..n PROVE p[i + 2] = h[i] /\ k[i + 2] = h[i]
    BY <1>4, <1>5, <1>6, <1>7, Zenon
  <2> QED BY <2>1, <2>2, Zenon
<1>9. /\ Len(p) = n + 2 /\ Len(k) = n + 2 + m /\ \A i \in 1..m : k[n + 2 + i] = u[i]
  BY <1>4, <1>5, <1>6, <1>7, Zenon
<1>10. IsPrefix(p, k)
  <2>1. Len(p) <= Len(k)
    BY <1>6, <1>9
  <2> QED BY <1>4, <1>5, <2>1, PrefixOf, Zenon
<1> QED BY <1>1, <1>2, <1>pk, <1>5, <1>6, <1>8, <1>9, <1>10, Zenon

\* Two host ids whose prefixes a key begins with are the same.
LEMMA SameHost ==
    ASSUME NEW g \in HostIds, NEW h \in HostIds, ToString(Len(g)) = ToString(Len(h)),
           \A i \in 1..Len(h) : g[i] = h[i]
    PROVE  g = h
<1>1. PICK C : g \in Seq(C) /\ h \in Seq(C) /\ Len(g) \in Nat /\ Len(h) \in Nat
  BY Characters, Zenon
<1>2. Len(g) = Len(h)
  BY <1>1, LengthAssumption, Zenon
<1> QED BY <1>1, <1>2

\* Host ids and URIs that run together are told apart by the length.
LEMMA KeysDiffer ==
    ASSUME NEW g \in HostIds, NEW v \in Uris, NEW h \in HostIds, NEW u \in Uris,
           hostedResourceKey(g, v) = hostedResourceKey(h, u)
    PROVE  g = h /\ v = u
<1> DEFINE k == hostedResourceKey(g, v)
<1>1. /\ Len(g) \in Nat /\ Len(v) \in Nat /\ Len(k) = Len(g) + 2 + Len(v)
      /\ k[1] = ToString(Len(g)) /\ (\A i \in 1..Len(g) : k[i + 2] = g[i])
      /\ \A i \in 1..Len(v) : k[Len(g) + 2 + i] = v[i]
  BY KeyShape, Zenon
<1>2. /\ Len(h) \in Nat /\ Len(u) \in Nat /\ Len(k) = Len(h) + 2 + Len(u)
      /\ k[1] = ToString(Len(h)) /\ (\A i \in 1..Len(h) : k[i + 2] = h[i])
      /\ \A i \in 1..Len(u) : k[Len(h) + 2 + i] = u[i]
  <2>1. k = hostedResourceKey(h, u)
    OBVIOUS
  <2> HIDE DEF k
  <2> QED BY <2>1, KeyShape, Zenon
<1> HIDE DEF k
<1>3. Len(g) = Len(h)
  BY <1>1, <1>2, LengthAssumption, Zenon
<1>4. g = h
  BY <1>1, <1>2, <1>3, SameHost, Zenon
<1>5. Len(v) = Len(u)
  BY <1>1, <1>2, <1>3
<1>6. \A i \in 1..Len(u) : v[i] = u[i]
  BY <1>1, <1>2, <1>3, <1>5, Zenon
<1>7. PICK C : u \in Seq(C) /\ v \in Seq(C)
  BY Characters, Zenon
<1>8. v = u
  BY <1>5, <1>6, <1>7
<1> QED BY <1>4, <1>8

\* What resetHost() and setAutomationCatalog() drop is what the host has.
LEMMA KeysOfHost ==
    ASSUME NEW g \in HostIds, NEW h \in HostIds, NEW u \in Uris
    PROVE  /\ hostedResourceKey(g, u) \in Keys
           /\ hostedResourceKey(g, u) \in KeysOf(h) <=> g = h
<1> DEFINE k == hostedResourceKey(g, u)
           p == hostedResourceKeyPrefix(h)
<1>1. k \in Keys
  BY DEF Keys
<1>2. /\ Len(g) \in Nat /\ Len(u) \in Nat /\ Len(k) = Len(g) + 2 + Len(u)
      /\ k[1] = ToString(Len(g)) /\ (\A i \in 1..Len(g) : k[i + 2] = g[i])
  BY KeyShape, Zenon
<1>3. /\ Len(h) \in Nat /\ Len(p) = Len(h) + 2 /\ p[1] = ToString(Len(h))
      /\ \A i \in 1..Len(h) : p[i + 2] = h[i]
  BY KeyShape, Zenon
<1>4. k \in KeysOf(h) <=> IsPrefix(p, k)
  BY <1>1, Zenon DEF KeysOf
<1>5. ASSUME IsPrefix(p, k) PROVE g = h
  <2>1. Len(p) <= Len(k) /\ SubSeq(p, 1, Len(p)) = SubSeq(k, 1, Len(p))
    BY <1>5, Zenon DEF IsPrefix
  <2> HIDE DEF p, k
  <2>2. \A i \in 1..Len(p) : p[i] = k[i]
    <3> SUFFICES ASSUME NEW i \in 1..Len(p) PROVE p[i] = k[i]
      OBVIOUS
    <3>1. SubSeq(p, 1, Len(p))[i] = p[i] /\ SubSeq(k, 1, Len(p))[i] = k[i]
      BY <1>2, <1>3, <2>1
    <3> QED BY <2>1, <3>1, Zenon
  <2>3. p[1] = k[1] /\ \A i \in 1..Len(h) : p[i + 2] = k[i + 2]
    <3>1. 1 \in 1..Len(p) /\ \A i \in 1..Len(h) : i + 2 \in 1..Len(p)
      BY <1>3
    <3> QED BY <2>2, <3>1, Zenon
  <2>4. Len(g) = Len(h)
    BY <1>2, <1>3, <2>3, LengthAssumption, Zenon
  <2>5. \A i \in 1..Len(h) : g[i] = h[i]
    BY <1>2, <1>3, <2>3, <2>4, Zenon
  <2> QED BY <2>4, <2>5, SameHost, Zenon
<1>6. ASSUME g = h PROVE IsPrefix(p, k)
  BY <1>6, KeyShape, Zenon
<1> QED BY <1>1, <1>4, <1>5, <1>6

-----------------------------------------------------------------------------
(* The mirror.                                                             *)

\* The mirror of a process that has just started.
EmptyMirror ==
    /\ channelMap = [k \in Keys |-> None] /\ expected = [h \in HostIds |-> [u \in Uris |-> None]]
    /\ automationCatalogs = [h \in HostIds |-> {}] /\ automationsMap = {}

\* Nothing is mirrored of any host.
LEMMA MirrorStarts == EmptyMirror => Mirror
<1> SUFFICES ASSUME EmptyMirror PROVE Mirror
  OBVIOUS
<1>1. channelMap \in [Keys -> Nat] /\ expected \in [HostIds -> [Uris -> Nat]]
  BY DEF EmptyMirror, None
<1>2. automationCatalogs \in [HostIds -> SUBSET Uris]
  BY Zenon DEF EmptyMirror
<1>3. ASSUME NEW g \in HostIds, NEW v \in Uris
      PROVE  channelMap[hostedResourceKey(g, v)] = expected[g][v]
  <2>1. hostedResourceKey(g, v) \in Keys
    BY KeysOfHost, Zenon
  <2> QED BY <2>1, Zenon DEF EmptyMirror
<1>4. automationsMap = UNION {{hostedResourceKey(h, u) : u \in automationCatalogs[h]} : h \in HostIds}
  BY Zenon DEF EmptyMirror
<1> QED BY <1>1, <1>2, <1>3, <1>4, Zenon DEF Mirror, MirrorKeepsHostsApart

\* An action, or a snapshot, is written to the channel of its host and no other.
LEMMA WriteKeepsApart ==
    ASSUME Mirror, NEW h \in HostIds, NEW u \in Uris, NEW x \in Nat,
           channelMap' = [channelMap EXCEPT ![hostedResourceKey(h, u)] = x],
           expected' = [expected EXCEPT ![h][u] = x],
           UNCHANGED <<automationCatalogs, automationsMap>>
    PROVE  Mirror'
<1> DEFINE key(g, v) == hostedResourceKey(g, v)
<1>1. /\ channelMap \in [Keys -> Nat] /\ expected \in [HostIds -> [Uris -> Nat]]
      /\ automationCatalogs \in [HostIds -> SUBSET Uris] /\ MirrorKeepsHostsApart
  BY Zenon DEF Mirror
<1>2. key(h, u) \in Keys
  BY KeysOfHost, Zenon
<1>3. channelMap' \in [Keys -> Nat]
  BY <1>1, <1>2, Zenon
<1>4. expected' \in [HostIds -> [Uris -> Nat]]
  BY <1>1, Zenon
<1>5. ASSUME NEW g \in HostIds, NEW v \in Uris
      PROVE  channelMap'[key(g, v)] = expected'[g][v]
  <2>1. channelMap[key(g, v)] = expected[g][v] /\ key(g, v) \in Keys
    BY <1>1, KeysOfHost, Zenon DEF MirrorKeepsHostsApart
  <2>2. CASE g = h /\ v = u
    <3>1. channelMap'[key(h, u)] = x
      BY <1>1, <1>2, Zenon
    <3>2. expected'[h][u] = x
      BY <1>1, Zenon
    <3> QED BY <2>2, <3>1, <3>2, Zenon
  <2>3. CASE ~(g = h /\ v = u)
    <3>1. key(g, v) # key(h, u)
      BY <2>3, KeysDiffer, Zenon
    <3>2. channelMap'[key(g, v)] = channelMap[key(g, v)]
      BY <1>1, <2>1, <3>1, Zenon
    <3>3. expected'[g][v] = expected[g][v]
      BY <1>1, <2>3, Zenon
    <3> QED BY <2>1, <3>2, <3>3, Zenon
  <2> QED BY <2>2, <2>3, Zenon
<1>6. automationCatalogs' = automationCatalogs /\ automationsMap' = automationsMap
  BY Zenon
<1>7. MirrorKeepsHostsApart'
  <2>1. (automationsMap
             = UNION {{hostedResourceKey(g, v) : v \in automationCatalogs[g]} : g \in HostIds})'
    BY <1>1, <1>6 DEF MirrorKeepsHostsApart
  <2> QED BY <1>5, <2>1, Zenon DEF MirrorKeepsHostsApart
<1> QED BY <1>1, <1>3, <1>4, <1>6, <1>7, Zenon DEF Mirror

\* A new catalogue replaces the automations of its host and no other's.
LEMMA CatalogKeepsApart ==
    ASSUME Mirror, NEW h \in HostIds, NEW entries \in SUBSET Uris,
           automationCatalogs' = [automationCatalogs EXCEPT ![h] = entries],
           automationsMap' = (automationsMap \ KeysOf(h))
                                 \cup {hostedResourceKey(h, u) : u \in entries}
    PROVE  /\ (automationCatalogs \in [HostIds -> SUBSET Uris])'
           /\ (automationsMap = UNION {{hostedResourceKey(g, v) : v \in automationCatalogs[g]} :
                                          g \in HostIds})'
<1>1. automationCatalogs \in [HostIds -> SUBSET Uris]
  BY Zenon DEF Mirror
<1>c. PICK new : new = automationCatalogs'
  OBVIOUS
<1>2. /\ new \in [HostIds -> SUBSET Uris]
      /\ new[h] = entries
      /\ \A g \in HostIds : g # h => new[g] = automationCatalogs[g]
  BY <1>1, <1>c, Zenon
<1> DEFINE index(cat) == UNION {{hostedResourceKey(g, v) : v \in cat[g]} : g \in HostIds}
<1>3. automationsMap = index(automationCatalogs)
  BY Zenon DEF Mirror, MirrorKeepsHostsApart
<1>i. \A cat, k : k \in index(cat)
                      <=> \E g \in HostIds : \E v \in cat[g] : k = hostedResourceKey(g, v)
  OBVIOUS
<1> HIDE DEF index
<1>4. \A k : k \in index(automationCatalogs)
                <=> \E g \in HostIds : \E v \in automationCatalogs[g] : k = hostedResourceKey(g, v)
  BY <1>i, Zenon
<1>5. \A k : k \in index(new)
                <=> \E g \in HostIds : \E v \in new[g] : k = hostedResourceKey(g, v)
  BY <1>i, Zenon
<1>6. ASSUME NEW k \in automationsMap' PROVE k \in index(new)
  <2>1. CASE \E u \in entries : k = hostedResourceKey(h, u)
    BY <1>2, <1>5, <2>1, Zenon
  <2>2. CASE k \in automationsMap /\ k \notin KeysOf(h)
    <3>1. PICK g \in HostIds : \E v \in automationCatalogs[g] : k = hostedResourceKey(g, v)
      BY <1>3, <1>4, <2>2, Zenon
    <3>2. PICK v \in automationCatalogs[g] : k = hostedResourceKey(g, v)
      BY <3>1, Zenon
    <3>3. v \in Uris
      BY <1>1, Zenon
    <3>4. g # h
      BY <2>2, <3>2, <3>3, KeysOfHost, Zenon
    <3> QED BY <1>2, <1>5, <3>2, <3>4, Zenon
  <2> QED BY <1>6, <2>1, <2>2, Zenon
<1>7. ASSUME NEW k \in index(new) PROVE k \in automationsMap'
  <2>1. PICK g \in HostIds : \E v \in new[g] : k = hostedResourceKey(g, v)
    BY <1>5, <1>7, Zenon
  <2>2. PICK v \in new[g] : k = hostedResourceKey(g, v)
    BY <2>1, Zenon
  <2>3. v \in Uris
    BY <1>2, Zenon
  <2>4. CASE g = h
    BY <1>2, <2>2, <2>4, Zenon
  <2>5. CASE g # h
    <3>1. k \notin KeysOf(h)
      BY <2>2, <2>3, <2>5, KeysOfHost, Zenon
    <3>2. k \in automationsMap
      BY <1>2, <1>3, <1>4, <2>2, <2>5, Zenon
    <3> QED BY <3>1, <3>2, Zenon
  <2> QED BY <2>4, <2>5, Zenon
<1>8. automationsMap' = index(new)
  BY <1>6, <1>7, Zenon
<1> QED BY <1>c, <1>2, <1>8, Zenon DEF index

\* resetHost() clears the channels of its host and no other.
LEMMA ResetKeepsApart ==
    ASSUME Mirror, NEW h \in HostIds, resetHost(h)
    PROVE  Mirror'
<1>1. /\ channelMap \in [Keys -> Nat] /\ expected \in [HostIds -> [Uris -> Nat]]
      /\ automationCatalogs \in [HostIds -> SUBSET Uris] /\ MirrorKeepsHostsApart
  BY Zenon DEF Mirror
<1>2. /\ channelMap' = [k \in Keys |-> IF k \in KeysOf(h) THEN 0 ELSE channelMap[k]]
      /\ automationCatalogs' = [automationCatalogs EXCEPT ![h] = {}]
      /\ automationsMap' = automationsMap \ KeysOf(h)
      /\ expected' = [expected EXCEPT ![h] = [u \in Uris |-> 0]]
  BY Zenon DEF resetHost, None
<1>3. 0 \in Nat
  OBVIOUS
<1>4. channelMap' \in [Keys -> Nat]
  BY <1>1, <1>2, <1>3, Zenon
<1>5. [u \in Uris |-> 0] \in [Uris -> Nat]
  BY <1>3, Zenon
<1>6. expected' \in [HostIds -> [Uris -> Nat]]
  BY <1>1, <1>2, <1>5, Zenon
<1>7. ASSUME NEW g \in HostIds, NEW v \in Uris
      PROVE  channelMap'[hostedResourceKey(g, v)] = expected'[g][v]
  <2> DEFINE k == hostedResourceKey(g, v)
  <2>1. k \in Keys /\ (k \in KeysOf(h) <=> g = h) /\ channelMap[k] = expected[g][v]
    BY <1>1, KeysOfHost, Zenon DEF MirrorKeepsHostsApart
  <2> HIDE DEF k
  <2>2. channelMap'[k] = IF g = h THEN 0 ELSE channelMap[k]
    BY <1>2, <2>1, Zenon
  <2>3. expected'[g] = IF g = h THEN [u \in Uris |-> 0] ELSE expected[g]
    BY <1>1, <1>2, Zenon
  <2>4. CASE g = h
    <3>1. expected'[g][v] = 0
      BY <2>3, <2>4, Zenon
    <3> QED BY <2>2, <2>4, <3>1, Zenon DEF k
  <2>5. CASE g # h
    BY <2>1, <2>2, <2>3, <2>5, Zenon DEF k
  <2> QED BY <2>4, <2>5, Zenon
<1>8. automationsMap' = (automationsMap \ KeysOf(h)) \cup {hostedResourceKey(h, u) : u \in {}}
  BY <1>2, Zenon
<1>9. /\ (automationCatalogs \in [HostIds -> SUBSET Uris])'
      /\ (automationsMap = UNION {{hostedResourceKey(g, v) : v \in automationCatalogs[g]} :
                                     g \in HostIds})'
  <2>1. {} \in SUBSET Uris
    BY Zenon
  <2> QED BY <1>2, <1>8, <2>1, CatalogKeepsApart, Zenon
<1>10. MirrorKeepsHostsApart'
  BY <1>7, <1>9, Zenon DEF MirrorKeepsHostsApart
<1> QED BY <1>4, <1>6, <1>9, <1>10, Zenon DEF Mirror

\* Every step keeps the mirror's maps in agreement with what the hosts published.
LEMMA MirrorNext == Mirror /\ [Next]_vars => Mirror'
<1> SUFFICES ASSUME Mirror, [Next]_vars PROVE Mirror'
  OBVIOUS
<1>m. /\ channelMap \in [Keys -> Nat] /\ expected \in [HostIds -> [Uris -> Nat]]
      /\ automationCatalogs \in [HostIds -> SUBSET Uris] /\ MirrorKeepsHostsApart
  BY Zenon DEF Mirror
<1>1. ASSUME UNCHANGED mirrorVars PROVE Mirror'
  BY <1>1, <1>m DEF Mirror, MirrorKeepsHostsApart, mirrorVars
<1>2. ASSUME NEW h \in HostIds, NEW u \in Uris, applySnapshot(h, u) PROVE Mirror'
  <2>1. /\ channelMap' = [channelMap EXCEPT ![hostedResourceKey(h, u)] = 1]
        /\ expected' = [expected EXCEPT ![h][u] = 1]
        /\ UNCHANGED <<automationCatalogs, automationsMap>>
    BY <1>2, Zenon DEF applySnapshot
  <2>2. 1 \in Nat
    OBVIOUS
  <2> QED BY <2>1, <2>2, WriteKeepsApart, Zenon
<1>3. ASSUME NEW h \in HostIds, NEW u \in Uris, applyEnvelope(h, u) PROVE Mirror'
  <2> DEFINE k == hostedResourceKey(h, u)
  <2>1. k \in Keys /\ channelMap[k] = expected[h][u]
    BY <1>m, KeysOfHost, Zenon DEF MirrorKeepsHostsApart
  <2>2. PICK n : n = channelMap[k]
    OBVIOUS
  <2>3. n \in Nat /\ n + 1 \in Nat
    <3>1. n \in Nat
      BY <1>m, <2>1, <2>2, Zenon
    <3> QED BY <3>1
  <2>4. /\ channelMap' = [channelMap EXCEPT ![k] = n + 1]
        /\ expected' = [expected EXCEPT ![h][u] = n + 1]
        /\ UNCHANGED <<automationCatalogs, automationsMap>>
    BY <1>3, <2>1, <2>2, Zenon DEF applyEnvelope
  <2> QED BY <2>3, <2>4, WriteKeepsApart, Zenon
<1>4. ASSUME NEW h \in HostIds, NEW entries \in SUBSET Automations, setAutomationCatalog(h, entries)
      PROVE  Mirror'
  <2>1. entries \in SUBSET Uris
    BY UriAssumption, Zenon
  <2>2. /\ automationCatalogs' = [automationCatalogs EXCEPT ![h] = entries]
        /\ automationsMap' = (automationsMap \ KeysOf(h))
                                 \cup {hostedResourceKey(h, u) : u \in entries}
        /\ channelMap' = channelMap /\ expected' = expected
    BY <1>4, Zenon DEF setAutomationCatalog
  <2>3. /\ (automationCatalogs \in [HostIds -> SUBSET Uris])'
        /\ (automationsMap = UNION {{hostedResourceKey(g, v) : v \in automationCatalogs[g]} :
                                       g \in HostIds})'
    BY <2>1, <2>2, CatalogKeepsApart, Zenon
  <2> QED BY <1>m, <2>2, <2>3, Zenon DEF Mirror, MirrorKeepsHostsApart
<1>5. ASSUME NEW h \in HostIds, resetHost(h) PROVE Mirror'
  BY <1>5, ResetKeepsApart, Zenon
<1>6. ASSUME Crash PROVE Mirror'
  <2>1. EmptyMirror'
    BY <1>6, Zenon DEF Crash, EmptyMirror
  <2> QED BY <2>1, MirrorStarts, PTL
<1>7. ASSUME NEW c \in Calls,
             \/ \E h \in HostIds, x \in Explicit \cup {None} : AddHost(c, h, x)
             \/ Loaded(c) \/ Stored(c) \/ StoreFails(c) \/ Register(c)
      PROVE  UNCHANGED mirrorVars
  BY <1>7, Zenon DEF AddHost, Loaded, Stored, StoreFails, Register
<1>8. ASSUME \/ \E h \in HostIds : RemoveHost(h)
             \/ \E r \in RuntimeIds : RuntimeExits(r) \/ Removed(r)
             \/ Shutdown \/ ShutdownReturns
      PROVE  UNCHANGED mirrorVars
  BY <1>8, Zenon DEF RemoveHost, RuntimeExits, Removed, Shutdown, ShutdownReturns
<1>9. CASE UNCHANGED vars
  BY <1>1, <1>9, Zenon DEF vars
<1> QED BY <1>1, <1>2, <1>3, <1>4, <1>5, <1>6, <1>7, <1>8, <1>9, Zenon DEF Next

\* The mirror keeps the hosts apart: hostedResourceKey() gives two pairs of a
\* host id and a URI the same key only if they are the same, and the prefix that
\* resetHost() and setAutomationCatalog() look for begins the keys of its host
\* and of no other.
THEOREM MirrorApart == Spec => []MirrorKeepsHostsApart
<1>1. Init => Mirror
  <2>1. Init => EmptyMirror
    BY Zenon DEF Init, EmptyMirror
  <2> QED BY <2>1, MirrorStarts, Zenon
<1>2. Mirror => MirrorKeepsHostsApart
  BY Zenon DEF Mirror
<1> QED BY <1>1, <1>2, MirrorNext, PTL DEF Spec

-----------------------------------------------------------------------------
(* The registry.                                                           *)

\* A step of one addHost() leaves the other calls alone.
LEMMA CallChanged ==
    ASSUME Typed, NEW c \in Calls, NEW x \in Call, calls' = [calls EXCEPT ![c] = x]
    PROVE  /\ calls' \in [Calls -> Call] /\ calls'[c] = x
           /\ \A d \in Calls : d # c => calls'[d] = calls[d]
  BY Zenon DEF Typed

\* A call that returns or throws is idle again.
LEMMA CallEnds ==
    ASSUME Typed, NEW c \in Calls, calls' = [calls EXCEPT ![c] = Idle]
    PROVE  /\ calls' \in [Calls -> Call] /\ calls'[c].pc = "idle"
           /\ \A d \in Calls : d # c => calls'[d] = calls[d]
<1>1. (CHOOSE h \in HostIds : TRUE) \in HostIds
  BY HostIdAssumption, Zenon
<1>2. Idle \in Call /\ Idle.pc = "idle"
  BY <1>1 DEF Idle, Call, CallStates
<1> QED BY <1>2, CallChanged, Zenon

\* Host, client id and bounds of the runtimes stay when only states change.
LEMMA RuntimesChange ==
    ASSUME Typed, runtimes' \in [DOMAIN runtimes -> Runtime]
    PROVE  runtimes' \in Seq(Runtime) /\ Len(runtimes') = Len(runtimes)
             /\ DOMAIN runtimes' = DOMAIN runtimes
<1>1. PICK R, s, t : R = Runtime /\ s = runtimes /\ t = runtimes'
  OBVIOUS
<1>2. s \in Seq(R) /\ t \in [DOMAIN s -> R]
  BY <1>1, Zenon DEF Typed
<1>3. t \in Seq(R) /\ Len(t) = Len(s) /\ DOMAIN t = DOMAIN s
  BY <1>2
<1> QED BY <1>1, <1>3, Zenon

\* Runtimes are numbered from 1, so None is no runtime.
LEMMA RuntimeShapes ==
    ASSUME Typed
    PROVE  /\ Len(runtimes) \in Nat /\ DOMAIN runtimes = 1..Len(runtimes)
           /\ 0 \notin DOMAIN runtimes /\ DOMAIN runtimes \subseteq RuntimeIds
           /\ \A r \in DOMAIN runtimes : runtimes[r] \in Runtime /\ runtimes[r].host \in HostIds
<1>1. PICK R, s : R = Runtime /\ s = runtimes
  OBVIOUS
<1>2. s \in Seq(R) /\ Len(s) <= MaxRuntimes
  BY <1>1, Zenon DEF Typed
<1>3. MaxRuntimes \in Nat
  BY BoundAssumption, Zenon
<1>4. Len(s) \in Nat /\ DOMAIN s = 1..Len(s) /\ \A r \in DOMAIN s : s[r] \in R
  BY <1>2
<1>5. 0 \notin 1..Len(s) /\ 1..Len(s) \subseteq 1..MaxRuntimes
  BY <1>2, <1>3, <1>4
<1>6. \A x \in Runtime : x.host \in HostIds
  BY DEF Runtime
<1> QED BY <1>1, <1>4, <1>5, <1>6, Zenon DEF RuntimeIds

\* A process that has just started.
LEMMA HostedInit == Init => Hosted
<1> SUFFICES ASSUME Init PROVE Hosted
  OBVIOUS
<1>1. (CHOOSE h \in HostIds : TRUE) \in HostIds
  BY HostIdAssumption, Zenon
<1>2. Idle \in Call /\ Idle.pc = "idle"
  BY <1>1 DEF Idle, Call, CallStates
<1>3. MaxRuntimes \in Nat
  BY BoundAssumption, Zenon
<1>4. runtimes = <<>> /\ generated = 0
  BY Zenon DEF Init
<1>5. runtimes \in Seq(Runtime) /\ Len(runtimes) <= MaxRuntimes /\ generated \in 0..MaxRuntimes
      /\ DOMAIN runtimes = {}
  <2>1. PICK R, s : R = Runtime /\ s = runtimes
    OBVIOUS
  <2>2. s \in Seq(R) /\ Len(s) <= MaxRuntimes /\ DOMAIN s = {} /\ generated \in 0..MaxRuntimes
    BY <1>3, <1>4, <2>1
  <2> QED BY <2>1, <2>2, Zenon
<1>6. /\ hosts \in [HostIds -> RuntimeIds \cup {None}]
      /\ store \in [HostIds -> ClientIds \cup {None}]
      /\ calls \in [Calls -> Call]
  BY <1>2, Zenon DEF Init
<1>7. Typed
  BY <1>5, <1>6, Zenon DEF Typed
<1>8. \A h \in HostIds : hosts[h] = None
  BY Zenon DEF Init
<1>9. Registered
  BY <1>5, <1>8, Zenon DEF Registered, HostsAreLive, NoHostEscapes, Init
<1>10. \A c \in Calls : calls[c].pc = "idle"
  BY <1>2, Zenon DEF Init
<1>11. Resolving
  BY <1>10, Zenon DEF Resolving, CallsPending, OneCallPerHost, StoringCalls, ResolvedCalls, Busy
<1>12. Persisted
  BY <1>5, <1>8, Zenon DEF Persisted, RegisteredIsStored, UsedIsStored, OneGenerated
<1> QED BY <1>7, <1>9, <1>11, <1>12, Zenon DEF Hosted

\* What an invariant part does not mention may change.
LEMMA RegisteredStays ==
    Registered /\ UNCHANGED <<hosts, runtimes, removing, shutDown, shutdownCall>> => Registered'
<1> SUFFICES ASSUME Registered, UNCHANGED <<hosts, runtimes, removing, shutDown, shutdownCall>>
             PROVE  Registered'
  OBVIOUS
<1>1. HostsAreLive'
  BY Zenon DEF Registered, HostsAreLive
<1>2. NoHostEscapes'
  BY Zenon DEF Registered, NoHostEscapes
<1> QED BY <1>1, <1>2, Zenon DEF Registered

\* The calls under way and what they look at.
LEMMA ResolvingStays ==
    Resolving /\ UNCHANGED <<hosts, pendingHostIds, calls, store>> => Resolving'
<1> SUFFICES ASSUME Resolving, UNCHANGED <<hosts, pendingHostIds, calls, store>>
             PROVE  Resolving'
  OBVIOUS
<1>1. CallsPending' /\ OneCallPerHost'
  BY Zenon DEF Resolving, CallsPending, OneCallPerHost, Busy
<1>2. StoringCalls'
  BY Zenon DEF Resolving, StoringCalls
<1>3. ResolvedCalls'
  BY Zenon DEF Resolving, ResolvedCalls
<1> QED BY <1>1, <1>2, <1>3, Zenon DEF Resolving

\* The ids that are used and stored.
LEMMA PersistedStays == Persisted /\ UNCHANGED <<hosts, runtimes, store>> => Persisted'
<1> SUFFICES ASSUME Persisted, UNCHANGED <<hosts, runtimes, store>>
             PROVE  Persisted'
  OBVIOUS
<1>1. RegisteredIsStored'
  BY Zenon DEF Persisted, RegisteredIsStored
<1>2. UsedIsStored'
  BY Zenon DEF Persisted, UsedIsStored
<1>3. OneGenerated'
  BY DEF Persisted, OneGenerated
<1> QED BY <1>1, <1>2, <1>3, Zenon DEF Persisted

\* The mirror's steps change nothing of the registry.
LEMMA HostedStays == Hosted /\ UNCHANGED registryVars => Hosted'
<1> SUFFICES ASSUME Hosted, UNCHANGED registryVars PROVE Hosted'
  OBVIOUS
<1>1. UNCHANGED <<hosts, pendingHostIds, calls, runtimes, removing, shutDown, shutdownCall, store,
                  generated>>
  BY Zenon DEF registryVars
<1>2. Typed'
  BY <1>1, Zenon DEF Hosted, Typed
<1> QED BY <1>1, <1>2, RegisteredStays, ResolvingStays, PersistedStays, Zenon DEF Hosted

\* addHost() up to its first await reserves the host id.
LEMMA AddHostKeeps ==
    ASSUME Hosted, NEW c \in Calls, NEW h \in HostIds, NEW x \in Explicit \cup {None},
           AddHost(c, h, x)
    PROVE  Hosted'
<1> DEFINE call == [pc |-> IF x = None THEN "loading" ELSE "storing", host |-> h, clientId |-> x]
<1>1. /\ calls[c].pc = "idle" /\ hosts[h] = None /\ h \notin pendingHostIds
      /\ pendingHostIds' = pendingHostIds \cup {h} /\ calls' = [calls EXCEPT ![c] = call]
      /\ UNCHANGED <<hosts, runtimes, removing, shutDown, shutdownCall, store, generated>>
  BY Zenon DEF AddHost
<1>2. /\ call \in Call /\ call.host = h /\ call.clientId = x
      /\ call.pc \in {"loading", "storing"} /\ (call.pc = "storing" => x # None)
  BY DEF Call, CallStates, ClientIds
<1> HIDE DEF call
<1>3. /\ calls' \in [Calls -> Call] /\ calls'[c] = call
      /\ \A d \in Calls : d # c => calls'[d] = calls[d]
  BY <1>1, <1>2, CallChanged, Zenon DEF Hosted
<1>4. Typed'
  BY <1>1, <1>3, Zenon DEF Hosted, Typed
<1>5. CallsPending'
  <2> SUFFICES ASSUME NEW d \in Calls, Busy(d)'
               PROVE  (calls[d].host \in pendingHostIds /\ hosts[calls[d].host] = None)'
    BY Zenon DEF CallsPending
  <2>1. CASE d = c
    BY <1>1, <1>2, <1>3, <2>1, Zenon
  <2>2. CASE d # c
    BY <1>1, <1>3, <2>2, Zenon DEF Hosted, Resolving, CallsPending, Busy
  <2> QED BY <2>1, <2>2, Zenon
<1>6. OneCallPerHost'
  <2>1. \A d \in Calls : (d # c /\ Busy(d)') => (calls[d].host \in pendingHostIds /\ calls'[d] = calls[d])
    BY <1>3, Zenon DEF Hosted, Resolving, CallsPending, Busy
  <2>2. ASSUME NEW d \in Calls, NEW e \in Calls, d # c, e # c,
               (Busy(d) /\ Busy(e) /\ calls[d].host = calls[e].host)'
        PROVE  d = e
    BY <1>3, <2>2, Zenon DEF Hosted, Resolving, OneCallPerHost, Busy
  <2>3. \A d \in Calls : (d # c /\ Busy(d)') => calls'[d].host # calls'[c].host
    BY <1>1, <1>2, <1>3, <2>1, Zenon
  <2> QED BY <2>2, <2>3, Zenon DEF OneCallPerHost
<1>7. StoringCalls'
  <2> SUFFICES ASSUME NEW d \in Calls, calls'[d].pc = "storing"
               PROVE  /\ calls'[d].clientId # None
                      /\ calls'[d].clientId \notin Explicit =>
                            store'[calls'[d].host] \in {None, calls'[d].clientId}
    BY Zenon DEF StoringCalls
  <2>1. CASE d = c
    BY <1>2, <1>3, <2>1, Zenon
  <2>2. CASE d # c
    BY <1>1, <1>3, <2>2, Zenon DEF Hosted, Resolving, StoringCalls
  <2> QED BY <2>1, <2>2, Zenon
<1>8. ResolvedCalls'
  BY <1>1, <1>2, <1>3, Zenon DEF Hosted, Resolving, ResolvedCalls
<1>9. Registered' /\ Persisted'
  BY <1>1, RegisteredStays, PersistedStays, Zenon DEF Hosted
<1> QED BY <1>4, <1>5, <1>6, <1>7, <1>8, <1>9, Zenon DEF Hosted, Resolving

\* A call that goes on holds its host id as before.
LEMMA CallGoesOn ==
    ASSUME Hosted, NEW c \in Calls, Busy(c), calls'[c].host = calls[c].host,
           \A d \in Calls : d # c => calls'[d] = calls[d],
           UNCHANGED <<hosts, pendingHostIds>>
    PROVE  CallsPending' /\ OneCallPerHost'
<1>1. \A d \in Calls : Busy(d)' => (Busy(d) /\ calls'[d].host = calls[d].host)
  BY Zenon DEF Busy
<1>2. CallsPending'
  <2> SUFFICES ASSUME NEW d \in Calls, Busy(d)'
               PROVE  (calls[d].host \in pendingHostIds /\ hosts[calls[d].host] = None)'
    BY Zenon DEF CallsPending
  <2> QED BY <1>1, Zenon DEF Hosted, Resolving, CallsPending
<1>3. OneCallPerHost'
  <2> SUFFICES ASSUME NEW d \in Calls, NEW e \in Calls, Busy(d)', Busy(e)',
                      calls'[d].host = calls'[e].host
               PROVE  d = e
    BY Zenon DEF OneCallPerHost
  <2> QED BY <1>1, Zenon DEF Hosted, Resolving, OneCallPerHost
<1> QED BY <1>2, <1>3

\* The id that was loaded, or a new one when there was none, is about to be stored.
LEMMA LoadedKeeps ==
    ASSUME Hosted, NEW c \in Calls, Loaded(c)
    PROVE  Hosted'
<1> DEFINE h == calls[c].host
           stored == store[h]
           id == IF stored = None THEN generated + 1 ELSE stored
           call == [pc |-> "storing", host |-> h, clientId |-> id]
<1>1. /\ calls[c].pc = "loading" /\ generated < MaxRuntimes
      /\ generated' = IF stored = None THEN generated + 1 ELSE generated
      /\ calls' = [calls EXCEPT ![c].pc = "storing", ![c].clientId = id]
      /\ UNCHANGED <<hosts, pendingHostIds, runtimes, removing, shutDown, shutdownCall, store>>
  BY Zenon DEF Loaded
<1>2. calls \in [Calls -> Call] /\ store \in [HostIds -> ClientIds \cup {None}]
  BY Zenon DEF Hosted, Typed
<1>3. calls[c] \in Call
  BY <1>2, Zenon
<1>4. h \in HostIds /\ stored \in ClientIds \cup {None}
  <2>1. h \in HostIds
    BY <1>3 DEF Call
  <2> QED BY <1>2, <2>1, Zenon
<1>5. MaxRuntimes \in Nat /\ generated \in 0..MaxRuntimes
  BY BoundAssumption, Zenon DEF Hosted, Typed
<1>6. /\ generated + 1 \in 1..MaxRuntimes /\ generated + 1 # 0 /\ generated + 1 \in 0..MaxRuntimes
  BY <1>1, <1>5
<1>7. id \in ClientIds /\ id # None /\ (stored = None \/ id = stored) /\ generated' \in 0..MaxRuntimes
  BY <1>1, <1>4, <1>5, <1>6, Zenon DEF ClientIds, None
<1> HIDE DEF id
<1>8. call \in Call /\ call.pc = "storing" /\ call.host = h /\ call.clientId = id
  <2> HIDE DEF h
  <2> QED BY <1>4, <1>7 DEF Call, CallStates
<1>9. calls' = [calls EXCEPT ![c] = call]
  <2>1. [[calls[c] EXCEPT !.pc = "storing"] EXCEPT !.clientId = id] = call
    <3>1. PICK x : x = calls[c]
      OBVIOUS
    <3>2. x \in Call
      BY <1>3, <3>1, Zenon
    <3>3. PICK y : y = [x EXCEPT !.pc = "storing"]
      OBVIOUS
    <3>4. y \in Call /\ y.host = x.host /\ y.pc = "storing"
      BY <3>2, <3>3 DEF Call, CallStates
    <3>5. [y EXCEPT !.clientId = id] = [pc |-> "storing", host |-> y.host, clientId |-> id]
      BY <3>4 DEF Call
    <3> QED BY <3>1, <3>3, <3>4, <3>5, Zenon
  <2>2. [calls EXCEPT ![c].pc = "storing", ![c].clientId = id]
            = [calls EXCEPT ![c] = [[calls[c] EXCEPT !.pc = "storing"] EXCEPT !.clientId = id]]
    BY <1>2, Zenon
  <2> QED BY <1>1, <2>1, <2>2, Zenon
<1> HIDE DEF call
<1>10. /\ calls' \in [Calls -> Call] /\ calls'[c] = call
       /\ \A d \in Calls : d # c => calls'[d] = calls[d]
  BY <1>8, <1>9, CallChanged, Zenon DEF Hosted
<1>11. Typed'
  BY <1>1, <1>7, <1>10, Zenon DEF Hosted, Typed
<1>12. CallsPending' /\ OneCallPerHost'
  <2>1. Busy(c)
    BY <1>1, Zenon DEF Busy
  <2> QED BY <1>1, <1>8, <1>10, <2>1, CallGoesOn, Zenon
<1>13. StoringCalls'
  <2> SUFFICES ASSUME NEW d \in Calls, calls'[d].pc = "storing"
               PROVE  /\ calls'[d].clientId # None
                      /\ calls'[d].clientId \notin Explicit =>
                            store'[calls'[d].host] \in {None, calls'[d].clientId}
    BY Zenon DEF StoringCalls
  <2>1. CASE d = c
    BY <1>1, <1>7, <1>8, <1>10, <2>1, Zenon
  <2>2. CASE d # c
    BY <1>1, <1>10, <2>2, Zenon DEF Hosted, Resolving, StoringCalls
  <2> QED BY <2>1, <2>2, Zenon
<1>14. ResolvedCalls'
  BY <1>1, <1>8, <1>10, Zenon DEF Hosted, Resolving, ResolvedCalls
<1>15. Registered' /\ Persisted'
  BY <1>1, RegisteredStays, PersistedStays, Zenon DEF Hosted
<1> QED BY <1>11, <1>12, <1>13, <1>14, <1>15, Zenon DEF Hosted, Resolving

\* What a call writes to the store is the id of no registered host, and of no
\* other call; a generated id that some runtime used is written again.
LEMMA WritePersists ==
    ASSUME Hosted, NEW c \in Calls, calls[c].pc = "storing",
           store' = [store EXCEPT ![calls[c].host] = calls[c].clientId],
           UNCHANGED <<hosts, runtimes>>
    PROVE  /\ store' \in [HostIds -> ClientIds \cup {None}]
           /\ store'[calls[c].host] = calls[c].clientId
           /\ \A d \in Calls : (d # c /\ Busy(d)) => store'[calls[d].host] = store[calls[d].host]
           /\ Persisted'
<1>1. PICK h, id : h = calls[c].host /\ id = calls[c].clientId
  OBVIOUS
<1>2. calls[c] \in Call /\ store \in [HostIds -> ClientIds \cup {None}]
  BY Zenon DEF Hosted, Typed
<1>3. h \in HostIds /\ id \in ClientIds \cup {None}
  BY <1>1, <1>2 DEF Call
<1>4. /\ store' \in [HostIds -> ClientIds \cup {None}] /\ store'[h] = id
      /\ \A g \in HostIds : g # h => store'[g] = store[g]
  BY <1>1, <1>2, <1>3, Zenon
<1>5. \A d \in Calls : calls[d].host \in HostIds
  <2>1. \A x \in Call : x.host \in HostIds
    BY DEF Call
  <2> QED BY <2>1, Zenon DEF Hosted, Typed
<1>6. /\ hosts[h] = None /\ id # None
      /\ (id \notin Explicit => store[h] \in {None, id})
      /\ \A d \in Calls : (d # c /\ Busy(d)) => calls[d].host # h
  BY <1>1, Zenon DEF Hosted, Resolving, CallsPending, OneCallPerHost, StoringCalls, Busy
<1>7. RegisteredIsStored'
  BY <1>4, <1>6, Zenon DEF Hosted, Persisted, RegisteredIsStored
<1>8. UsedIsStored'
  <2> SUFFICES ASSUME NEW r \in DOMAIN runtimes
               PROVE  /\ store'[runtimes[r].host] # None
                      /\ \/ runtimes[r].clientId \in Explicit
                         \/ store'[runtimes[r].host] \in Explicit
                         \/ store'[runtimes[r].host] = runtimes[r].clientId
    BY Zenon DEF UsedIsStored
  <2>1. /\ store[runtimes[r].host] # None
        /\ \/ runtimes[r].clientId \in Explicit
           \/ store[runtimes[r].host] \in Explicit
           \/ store[runtimes[r].host] = runtimes[r].clientId
    BY Zenon DEF Hosted, Persisted, UsedIsStored
  <2>2. runtimes[r].host \in HostIds
    BY RuntimeShapes, Zenon DEF Hosted
  <2>3. CASE runtimes[r].host = h
    <3>1. id \in Explicit \/ id = store[h]
      BY <1>6, <2>1, <2>3, Zenon
    <3> QED BY <1>4, <1>6, <2>1, <2>3, <3>1, Zenon
  <2>4. CASE runtimes[r].host # h
    BY <1>4, <2>1, <2>2, <2>4, Zenon
  <2> QED BY <2>3, <2>4, Zenon
<1>9. OneGenerated'
  BY DEF Hosted, Persisted, OneGenerated
<1> QED BY <1>1, <1>4, <1>5, <1>6, <1>7, <1>8, <1>9, Zenon DEF Persisted

\* The call goes on with the id the store now holds.
LEMMA StoredKeeps ==
    ASSUME Hosted, NEW c \in Calls, Stored(c)
    PROVE  Hosted'
<1> DEFINE call == [calls[c] EXCEPT !.pc = "resolved"]
<1>1. /\ calls[c].pc = "storing"
      /\ store' = [store EXCEPT ![calls[c].host] = calls[c].clientId]
      /\ calls' = [calls EXCEPT ![c].pc = "resolved"]
      /\ UNCHANGED <<hosts, pendingHostIds, runtimes, removing, shutDown, shutdownCall, generated>>
  BY Zenon DEF Stored
<1>2. calls[c] \in Call /\ calls \in [Calls -> Call]
  BY Zenon DEF Hosted, Typed
<1>3. /\ call \in Call /\ call.pc = "resolved" /\ call.host = calls[c].host
      /\ call.clientId = calls[c].clientId
  <2>1. PICK x : x = calls[c]
    OBVIOUS
  <2>2. /\ [x EXCEPT !.pc = "resolved"] \in Call /\ [x EXCEPT !.pc = "resolved"].pc = "resolved"
        /\ [x EXCEPT !.pc = "resolved"].host = x.host
        /\ [x EXCEPT !.pc = "resolved"].clientId = x.clientId
    BY <1>2, <2>1 DEF Call, CallStates
  <2> QED BY <2>1, <2>2, Zenon
<1>4. calls' = [calls EXCEPT ![c] = call]
  BY <1>1, <1>2, Zenon
<1> HIDE DEF call
<1>5. /\ calls' \in [Calls -> Call] /\ calls'[c] = call
      /\ \A d \in Calls : d # c => calls'[d] = calls[d]
  BY <1>3, <1>4, CallChanged, Zenon DEF Hosted
<1>6. /\ store' \in [HostIds -> ClientIds \cup {None}]
      /\ store'[calls[c].host] = calls[c].clientId
      /\ \A d \in Calls : (d # c /\ Busy(d)) => store'[calls[d].host] = store[calls[d].host]
      /\ Persisted'
  BY <1>1, WritePersists, Zenon
<1>7. Typed'
  BY <1>1, <1>5, <1>6, Zenon DEF Hosted, Typed
<1>8. CallsPending' /\ OneCallPerHost'
  <2>1. Busy(c)
    BY <1>1, Zenon DEF Busy
  <2> QED BY <1>1, <1>3, <1>5, <2>1, CallGoesOn, Zenon
<1>9. StoringCalls'
  <2> SUFFICES ASSUME NEW d \in Calls, calls'[d].pc = "storing"
               PROVE  /\ calls'[d].clientId # None
                      /\ calls'[d].clientId \notin Explicit =>
                            store'[calls'[d].host] \in {None, calls'[d].clientId}
    BY Zenon DEF StoringCalls
  <2>1. d # c /\ calls'[d] = calls[d]
    BY <1>3, <1>5, Zenon
  <2>2. store'[calls[d].host] = store[calls[d].host]
    BY <1>6, <2>1, Zenon DEF Busy
  <2> QED BY <2>1, <2>2, Zenon DEF Hosted, Resolving, StoringCalls
<1>10. ResolvedCalls'
  <2> SUFFICES ASSUME NEW d \in Calls, calls'[d].pc = "resolved"
               PROVE  calls'[d].clientId # None /\ store'[calls'[d].host] = calls'[d].clientId
    BY Zenon DEF ResolvedCalls
  <2>1. CASE d = c
    BY <1>1, <1>3, <1>5, <1>6, <2>1, Zenon DEF Hosted, Resolving, StoringCalls
  <2>2. CASE d # c
    <3>1. calls'[d] = calls[d] /\ Busy(d)
      BY <1>5, <2>2, Zenon DEF Busy
    <3> QED BY <1>6, <2>2, <3>1, Zenon DEF Hosted, Resolving, ResolvedCalls
  <2> QED BY <2>1, <2>2, Zenon
<1>11. Registered'
  BY <1>1, RegisteredStays, Zenon DEF Hosted
<1> QED BY <1>6, <1>7, <1>8, <1>9, <1>10, <1>11, Zenon DEF Hosted, Resolving

\* A call that has ended holds nothing, and the others hold what they held.
LEMMA CallIsOver ==
    ASSUME Hosted, NEW c \in Calls, Busy(c), calls' = [calls EXCEPT ![c] = Idle],
           pendingHostIds' = pendingHostIds \ {calls[c].host},
           \A d \in Calls : (d # c /\ Busy(d)) =>
              /\ store'[calls[d].host] = store[calls[d].host]
              /\ hosts'[calls[d].host] = hosts[calls[d].host]
    PROVE  calls' \in [Calls -> Call] /\ Resolving'
<1>1. /\ calls' \in [Calls -> Call] /\ calls'[c].pc = "idle"
      /\ \A d \in Calls : d # c => calls'[d] = calls[d]
  BY CallEnds, Zenon DEF Hosted
<1>2. \A d \in Calls : (calls'[d].pc # "idle") =>
         /\ d # c /\ calls'[d] = calls[d] /\ Busy(d) /\ calls[d].host # calls[c].host
         /\ store'[calls[d].host] = store[calls[d].host]
         /\ hosts'[calls[d].host] = hosts[calls[d].host]
  BY <1>1, Zenon DEF Hosted, Resolving, OneCallPerHost, Busy
<1>3. CallsPending'
  <2> SUFFICES ASSUME NEW d \in Calls, Busy(d)'
               PROVE  (calls[d].host \in pendingHostIds /\ hosts[calls[d].host] = None)'
    BY Zenon DEF CallsPending
  <2>1. /\ calls'[d] = calls[d] /\ Busy(d) /\ calls[d].host # calls[c].host
        /\ hosts'[calls[d].host] = hosts[calls[d].host]
    BY <1>2, Zenon DEF Busy
  <2>2. calls[d].host \in pendingHostIds /\ hosts[calls[d].host] = None
    BY <2>1, Zenon DEF Hosted, Resolving, CallsPending
  <2>3. calls[d].host \in pendingHostIds'
    BY <2>1, <2>2, Zenon
  <2> QED BY <2>1, <2>2, <2>3, Zenon
<1>4. OneCallPerHost'
  <2> SUFFICES ASSUME NEW d \in Calls, NEW e \in Calls, Busy(d)', Busy(e)',
                      calls'[d].host = calls'[e].host
               PROVE  d = e
    BY Zenon DEF OneCallPerHost
  <2>1. calls'[d] = calls[d] /\ Busy(d) /\ calls'[e] = calls[e] /\ Busy(e)
    BY <1>2, Zenon DEF Busy
  <2>2. calls[d].host = calls[e].host
    BY <2>1, Zenon
  <2> QED BY <2>1, <2>2, Zenon DEF Hosted, Resolving, OneCallPerHost
<1>5. StoringCalls'
  <2> SUFFICES ASSUME NEW d \in Calls, calls'[d].pc = "storing"
               PROVE  /\ calls'[d].clientId # None
                      /\ calls'[d].clientId \notin Explicit =>
                            store'[calls'[d].host] \in {None, calls'[d].clientId}
    BY Zenon DEF StoringCalls
  <2> QED BY <1>2, Zenon DEF Hosted, Resolving, StoringCalls
<1>6. ResolvedCalls'
  <2> SUFFICES ASSUME NEW d \in Calls, calls'[d].pc = "resolved"
               PROVE  calls'[d].clientId # None /\ store'[calls'[d].host] = calls'[d].clientId
    BY Zenon DEF ResolvedCalls
  <2>1. calls'[d] = calls[d] /\ store'[calls[d].host] = store[calls[d].host]
    BY <1>2, Zenon
  <2> QED BY <2>1, Zenon DEF Hosted, Resolving, ResolvedCalls
<1> QED BY <1>1, <1>3, <1>4, <1>5, <1>6, Zenon DEF Resolving

\* A failed call gives its host id back, whether it had written or not.
LEMMA StoreFailsKeeps ==
    ASSUME Hosted, NEW c \in Calls, StoreFails(c)
    PROVE  Hosted'
<1>1. /\ calls[c].pc \in {"loading", "storing"} /\ calls' = [calls EXCEPT ![c] = Idle]
      /\ pendingHostIds' = pendingHostIds \ {calls[c].host}
      /\ UNCHANGED <<hosts, runtimes, removing, shutDown, shutdownCall, generated>>
  BY Zenon DEF StoreFails
<1>2. /\ store' \in [HostIds -> ClientIds \cup {None}] /\ Persisted'
      /\ \A d \in Calls : (d # c /\ Busy(d)) => store'[calls[d].host] = store[calls[d].host]
  <2>1. CASE store' = store
    BY <1>1, <2>1, PersistedStays, Zenon DEF Hosted, Typed
  <2>2. CASE /\ calls[c].pc = "storing"
             /\ store' = [store EXCEPT ![calls[c].host] = calls[c].clientId]
    BY <1>1, <2>2, WritePersists, Zenon
  <2> QED BY <2>1, <2>2, Zenon DEF StoreFails
<1>3. calls' \in [Calls -> Call] /\ Resolving'
  <2>1. Busy(c)
    BY <1>1, Zenon DEF Busy
  <2> QED BY <1>1, <1>2, <2>1, CallIsOver, Zenon
<1>4. Typed'
  BY <1>1, <1>2, <1>3, Zenon DEF Hosted, Typed
<1>5. Registered'
  BY <1>1, RegisteredStays, Zenon DEF Hosted
<1> QED BY <1>2, <1>3, <1>4, <1>5, Zenon DEF Hosted

\* A runtime keeps its host and client id for life.
SameIdentities ==
    /\ DOMAIN runtimes' = DOMAIN runtimes
    /\ \A r \in DOMAIN runtimes :
          runtimes'[r].host = runtimes[r].host /\ runtimes'[r].clientId = runtimes[r].clientId

\* Runtimes that stop or exit take nothing from what is stored.
LEMMA IdentitiesPersist ==
    ASSUME Hosted, SameIdentities, store' = store,
           \A h \in HostIds : hosts'[h] # None => hosts'[h] = hosts[h]
    PROVE  Persisted'
<1>1. RegisteredIsStored'
  <2> SUFFICES ASSUME NEW h \in HostIds, hosts'[h] # None
               PROVE  store'[h] = runtimes'[hosts'[h]].clientId
    BY Zenon DEF RegisteredIsStored
  <2>1. hosts'[h] = hosts[h] /\ hosts[h] # None
    BY Zenon
  <2>2. hosts[h] \in DOMAIN runtimes /\ store[h] = runtimes[hosts[h]].clientId
    BY <2>1, Zenon DEF Hosted, Registered, HostsAreLive, Persisted, RegisteredIsStored
  <2> QED BY <2>1, <2>2, Zenon DEF SameIdentities
<1>2. UsedIsStored'
  <2> SUFFICES ASSUME NEW r \in DOMAIN runtimes'
               PROVE  /\ store'[runtimes'[r].host] # None
                      /\ \/ runtimes'[r].clientId \in Explicit
                         \/ store'[runtimes'[r].host] \in Explicit
                         \/ store'[runtimes'[r].host] = runtimes'[r].clientId
    BY Zenon DEF UsedIsStored
  <2>1. /\ r \in DOMAIN runtimes /\ runtimes'[r].host = runtimes[r].host
        /\ runtimes'[r].clientId = runtimes[r].clientId
    BY Zenon DEF SameIdentities
  <2> QED BY <2>1, Zenon DEF Hosted, Persisted, UsedIsStored
<1>3. OneGenerated'
  <2> SUFFICES ASSUME NEW r \in DOMAIN runtimes', NEW s \in DOMAIN runtimes',
                      runtimes'[r].host = runtimes'[s].host,
                      {runtimes'[r].clientId, runtimes'[s].clientId} \cap Explicit = {}
               PROVE  runtimes'[r].clientId = runtimes'[s].clientId
    BY Zenon DEF OneGenerated
  <2>1. /\ r \in DOMAIN runtimes /\ s \in DOMAIN runtimes
        /\ runtimes'[r].host = runtimes[r].host /\ runtimes'[s].host = runtimes[s].host
        /\ runtimes'[r].clientId = runtimes[r].clientId
        /\ runtimes'[s].clientId = runtimes[s].clientId
    BY Zenon DEF SameIdentities
  <2>2. {runtimes[r].clientId, runtimes[s].clientId} \cap Explicit = {}
    BY <2>1, Zenon
  <2>3. runtimes[r].clientId = runtimes[s].clientId
    BY <2>1, <2>2, Zenon DEF Hosted, Persisted, OneGenerated
  <2> QED BY <2>1, <2>3, Zenon
<1> QED BY <1>1, <1>2, <1>3, Zenon DEF Persisted

\* Nobody is registered that was not, so the calls under way go on.
LEMMA CallsGoOn ==
    ASSUME Hosted, UNCHANGED <<calls, pendingHostIds, store>>,
           \A h \in HostIds : hosts'[h] # None => hosts'[h] = hosts[h]
    PROVE  Resolving'
<1>1. \A d \in Calls : calls[d].host \in HostIds
  <2>1. \A x \in Call : x.host \in HostIds
    BY DEF Call
  <2> QED BY <2>1, Zenon DEF Hosted, Typed
<1>2. CallsPending'
  <2> SUFFICES ASSUME NEW d \in Calls, Busy(d)'
               PROVE  (calls[d].host \in pendingHostIds /\ hosts[calls[d].host] = None)'
    BY Zenon DEF CallsPending
  <2>1. calls'[d] = calls[d] /\ Busy(d)
    BY Zenon DEF Busy
  <2>2. calls[d].host \in pendingHostIds /\ hosts[calls[d].host] = None
    BY <2>1, Zenon DEF Hosted, Resolving, CallsPending
  <2> QED BY <1>1, <2>1, <2>2, Zenon
<1>3. OneCallPerHost'
  BY Zenon DEF Hosted, Resolving, OneCallPerHost, Busy
<1>4. StoringCalls'
  BY Zenon DEF Hosted, Resolving, StoringCalls
<1>5. ResolvedCalls'
  BY Zenon DEF Hosted, Resolving, ResolvedCalls
<1> QED BY <1>2, <1>3, <1>4, <1>5, Zenon DEF Resolving

\* Telling runtimes to shut down.
LEMMA StoppingRuntimes ==
    ASSUME Hosted, NEW rs, runtimes' = Stopping(rs)
    PROVE  /\ runtimes' \in Seq(Runtime) /\ Len(runtimes') = Len(runtimes) /\ SameIdentities
           /\ \A r \in DOMAIN runtimes :
                 runtimes'[r].state = IF r \in rs /\ runtimes[r].state = "live"
                                      THEN "stopping" ELSE runtimes[r].state
<1>1. Typed
  BY Zenon DEF Hosted
<1>2. \A x \in Runtime : /\ [x EXCEPT !.state = "stopping"] \in Runtime
                         /\ [x EXCEPT !.state = "stopping"].state = "stopping"
                         /\ [x EXCEPT !.state = "stopping"].host = x.host
                         /\ [x EXCEPT !.state = "stopping"].clientId = x.clientId
  BY DEF Runtime
<1>3. \A r \in DOMAIN runtimes : runtimes[r] \in Runtime
  BY <1>1, RuntimeShapes, Zenon
<1> DEFINE next(r) == IF r \in rs /\ runtimes[r].state = "live"
                      THEN [runtimes[r] EXCEPT !.state = "stopping"] ELSE runtimes[r]
<1>4. runtimes' = [r \in DOMAIN runtimes |-> next(r)]
  BY Zenon DEF Stopping
<1>5. \A r \in DOMAIN runtimes :
         /\ next(r) \in Runtime /\ next(r).host = runtimes[r].host
         /\ next(r).clientId = runtimes[r].clientId
         /\ next(r).state = IF r \in rs /\ runtimes[r].state = "live"
                            THEN "stopping" ELSE runtimes[r].state
  BY <1>2, <1>3, Zenon
<1> HIDE DEF next
<1>6. /\ runtimes' \in [DOMAIN runtimes -> Runtime]
      /\ \A r \in DOMAIN runtimes : runtimes'[r] = next(r)
  BY <1>4, <1>5, Zenon
<1>7. runtimes' \in Seq(Runtime) /\ Len(runtimes') = Len(runtimes) /\ DOMAIN runtimes' = DOMAIN runtimes
  BY <1>1, <1>6, RuntimesChange, Zenon
<1> QED BY <1>5, <1>6, <1>7, Zenon DEF SameIdentities

\* removeHost() stops the one runtime that is registered under the host id.
LEMMA RemoveHostKeeps ==
    ASSUME Hosted, NEW h \in HostIds, RemoveHost(h)
    PROVE  Hosted'
<1>1. /\ hosts[h] # None /\ hosts' = [hosts EXCEPT ![h] = None] /\ runtimes' = Stopping({hosts[h]})
      /\ removing' = removing \cup {hosts[h]}
      /\ UNCHANGED <<pendingHostIds, calls, shutDown, shutdownCall, store, generated>>
  BY Zenon DEF RemoveHost
<1>2. Typed /\ Registered
  BY Zenon DEF Hosted
<1>3. /\ hosts' \in [HostIds -> RuntimeIds \cup {None}] /\ hosts'[h] = None
      /\ \A g \in HostIds : g # h => hosts'[g] = hosts[g]
  BY <1>1, <1>2, Zenon DEF Typed
<1>4. \A g \in HostIds : hosts'[g] # None => (g # h /\ hosts'[g] = hosts[g])
  BY <1>3, Zenon
<1>5. /\ runtimes' \in Seq(Runtime) /\ Len(runtimes') = Len(runtimes) /\ SameIdentities
      /\ \A r \in DOMAIN runtimes :
            runtimes'[r].state = IF r \in {hosts[h]} /\ runtimes[r].state = "live"
                                 THEN "stopping" ELSE runtimes[r].state
  BY <1>1, StoppingRuntimes, Zenon
<1>6. Typed'
  BY <1>1, <1>2, <1>3, <1>5, Zenon DEF Typed
<1>7. Resolving' /\ Persisted'
  BY <1>1, <1>4, <1>5, CallsGoOn, IdentitiesPersist, Zenon
<1>8. HostsAreLive'
  <2> SUFFICES ASSUME NEW g \in HostIds, hosts'[g] # None
               PROVE  /\ hosts'[g] \in DOMAIN runtimes' /\ runtimes'[hosts'[g]].host = g
                      /\ runtimes'[hosts'[g]].state = "live"
    BY Zenon DEF HostsAreLive
  <2>1. g # h /\ hosts'[g] = hosts[g] /\ hosts[g] # None
    BY <1>4, Zenon
  <2>2. /\ hosts[g] \in DOMAIN runtimes /\ runtimes[hosts[g]].host = g
        /\ runtimes[hosts[g]].state = "live" /\ runtimes[hosts[h]].host = h
    BY <1>1, <1>2, <2>1, Zenon DEF Registered, HostsAreLive
  <2>3. hosts[g] # hosts[h]
    BY <2>1, <2>2, Zenon
  <2>4. runtimes'[hosts[g]].state = "live" /\ runtimes'[hosts[g]].host = g
    BY <1>5, <2>2, <2>3, Zenon DEF SameIdentities
  <2> QED BY <1>5, <2>1, <2>2, <2>4, Zenon DEF SameIdentities
<1>9. NoHostEscapes'
  <2>1. shutDown' => \A g \in HostIds : hosts'[g] = None
    BY <1>1, <1>2, <1>4, Zenon DEF Registered, NoHostEscapes
  <2> SUFFICES ASSUME NEW r \in DOMAIN runtimes'
               PROVE  /\ runtimes'[r].state = "live" => hosts'[runtimes'[r].host] = r
                      /\ (shutdownCall' = "returned" /\ runtimes'[r].state # "exited") => r \in removing'
    BY <2>1, Zenon DEF NoHostEscapes
  <2>2. r \in DOMAIN runtimes /\ runtimes'[r].host = runtimes[r].host /\ runtimes[r].host \in HostIds
    BY <1>2, <1>5, RuntimeShapes, Zenon DEF SameIdentities
  <2>3. /\ runtimes[r].state = "live" => hosts[runtimes[r].host] = r
        /\ (shutdownCall = "returned" /\ runtimes[r].state # "exited") => r \in removing
    BY <1>2, <2>2, Zenon DEF Registered, NoHostEscapes
  <2>4. ASSUME runtimes'[r].state = "live" PROVE hosts'[runtimes'[r].host] = r
    <3>1. r # hosts[h] /\ runtimes[r].state = "live"
      BY <1>5, <2>2, <2>4, Zenon
    <3>2. runtimes[r].host # h
      BY <2>3, <3>1, Zenon
    <3> QED BY <1>3, <2>2, <2>3, <3>1, <3>2, Zenon
  <2>5. runtimes'[r].state # "exited" => runtimes[r].state # "exited"
    BY <1>5, <2>2, Zenon
  <2> QED BY <1>1, <2>3, <2>4, <2>5, Zenon
<1>10. Registered'
  BY <1>1, <1>2, <1>8, <1>9, Zenon DEF Registered
<1> QED BY <1>6, <1>7, <1>10, Zenon DEF Hosted

\* Only a runtime that was told to stop exits, and none of those is registered.
LEMMA RuntimeExitsKeeps ==
    ASSUME Hosted, NEW r \in RuntimeIds, RuntimeExits(r)
    PROVE  Hosted'
<1>1. /\ r \in DOMAIN runtimes /\ runtimes[r].state = "stopping"
      /\ runtimes' = [runtimes EXCEPT ![r].state = "exited"]
      /\ UNCHANGED <<hosts, pendingHostIds, calls, removing, shutDown, shutdownCall, store, generated>>
  BY Zenon DEF RuntimeExits
<1>2. Typed /\ Registered
  BY Zenon DEF Hosted
<1>3. \A x \in Runtime : /\ [x EXCEPT !.state = "exited"] \in Runtime
                         /\ [x EXCEPT !.state = "exited"].state = "exited"
                         /\ [x EXCEPT !.state = "exited"].host = x.host
                         /\ [x EXCEPT !.state = "exited"].clientId = x.clientId
  BY DEF Runtime
<1>4. runtimes \in [DOMAIN runtimes -> Runtime]
  <2>1. PICK R, s : R = Runtime /\ s = runtimes
    OBVIOUS
  <2>2. s \in Seq(R)
    BY <1>2, <2>1, Zenon DEF Typed
  <2>3. s \in [DOMAIN s -> R]
    BY <2>2
  <2> QED BY <2>1, <2>3, Zenon
<1>5. runtimes[r] \in Runtime
  BY <1>1, <1>4, Zenon
<1>6. PICK x : x = [runtimes[r] EXCEPT !.state = "exited"]
  OBVIOUS
<1>7. /\ x \in Runtime /\ x.state = "exited" /\ x.host = runtimes[r].host
      /\ x.clientId = runtimes[r].clientId
  BY <1>3, <1>5, <1>6, Zenon
<1>8. runtimes' = [runtimes EXCEPT ![r] = x]
  BY <1>1, <1>4, <1>6, Zenon
<1>9. /\ runtimes' \in [DOMAIN runtimes -> Runtime] /\ runtimes'[r] = x
      /\ \A s \in DOMAIN runtimes : s # r => runtimes'[s] = runtimes[s]
  BY <1>1, <1>4, <1>7, <1>8, Zenon
<1>10. runtimes' \in Seq(Runtime) /\ Len(runtimes') = Len(runtimes)
         /\ DOMAIN runtimes' = DOMAIN runtimes
  BY <1>2, <1>9, RuntimesChange, Zenon
<1>11. SameIdentities
  BY <1>7, <1>9, <1>10, Zenon DEF SameIdentities
<1>12. Typed'
  BY <1>1, <1>2, <1>10, Zenon DEF Typed
<1>13. Resolving' /\ Persisted'
  BY <1>1, <1>11, ResolvingStays, IdentitiesPersist, Zenon DEF Hosted
<1>14. HostsAreLive'
  <2> SUFFICES ASSUME NEW g \in HostIds, hosts'[g] # None
               PROVE  /\ hosts'[g] \in DOMAIN runtimes' /\ runtimes'[hosts'[g]].host = g
                      /\ runtimes'[hosts'[g]].state = "live"
    BY Zenon DEF HostsAreLive
  <2>1. hosts'[g] = hosts[g] /\ hosts[g] # None
    BY <1>1, Zenon
  <2>2. /\ hosts[g] \in DOMAIN runtimes /\ runtimes[hosts[g]].host = g
        /\ runtimes[hosts[g]].state = "live"
    BY <1>2, <2>1, Zenon DEF Registered, HostsAreLive
  <2>3. hosts[g] # r
    BY <1>1, <2>2, Zenon
  <2> QED BY <1>9, <1>10, <2>1, <2>2, <2>3, Zenon
<1>15. NoHostEscapes'
  <2>1. shutDown' => \A g \in HostIds : hosts'[g] = None
    BY <1>1, <1>2, Zenon DEF Registered, NoHostEscapes
  <2> SUFFICES ASSUME NEW s \in DOMAIN runtimes'
               PROVE  /\ runtimes'[s].state = "live" => hosts'[runtimes'[s].host] = s
                      /\ (shutdownCall' = "returned" /\ runtimes'[s].state # "exited") => s \in removing'
    BY <2>1, Zenon DEF NoHostEscapes
  <2>2. CASE s = r
    BY <1>7, <1>9, <2>2, Zenon
  <2>3. CASE s # r
    <3>1. s \in DOMAIN runtimes /\ runtimes'[s] = runtimes[s]
      BY <1>9, <1>10, <2>3, Zenon
    <3>2. /\ runtimes[s].state = "live" => hosts[runtimes[s].host] = s
          /\ (shutdownCall = "returned" /\ runtimes[s].state # "exited") => s \in removing
      BY <1>2, <3>1, Zenon DEF Registered, NoHostEscapes
    <3> QED BY <1>1, <3>1, <3>2, Zenon
  <2> QED BY <2>2, <2>3, Zenon
<1>16. Registered'
  BY <1>1, <1>2, <1>14, <1>15, Zenon DEF Registered
<1> QED BY <1>12, <1>13, <1>16, Zenon DEF Hosted

\* removeHost() returns once its runtime has exited.
LEMMA RemovedKeeps ==
    ASSUME Hosted, NEW r \in RuntimeIds, Removed(r)
    PROVE  Hosted'
<1>1. /\ runtimes[r].state = "exited" /\ removing' = removing \ {r}
      /\ UNCHANGED <<hosts, pendingHostIds, calls, runtimes, shutDown, shutdownCall, store, generated>>
  BY Zenon DEF Removed
<1>2. Typed'
  BY <1>1, Zenon DEF Hosted, Typed
<1>3. Resolving' /\ Persisted'
  BY <1>1, ResolvingStays, PersistedStays, Zenon DEF Hosted
<1>4. HostsAreLive'
  BY <1>1, Zenon DEF Hosted, Registered, HostsAreLive
<1>5. NoHostEscapes'
  BY <1>1, Zenon DEF Hosted, Registered, NoHostEscapes
<1>6. Registered'
  BY <1>1, <1>4, <1>5, Zenon DEF Hosted, Registered
<1> QED BY <1>2, <1>3, <1>6, Zenon DEF Hosted

\* shutdown() stops every live runtime, since each of them is registered.
LEMMA ShutdownKeeps ==
    ASSUME Hosted, Shutdown
    PROVE  Hosted'
<1> DEFINE rs == {hosts[h] : h \in HostIds}
<1>1. /\ ~shutDown /\ shutDown' = TRUE /\ shutdownCall' = "waiting"
      /\ runtimes' = Stopping(rs) /\ hosts' = [h \in HostIds |-> None]
      /\ UNCHANGED <<pendingHostIds, calls, removing, store, generated>>
  BY Zenon DEF Shutdown
<1>2. Typed /\ Registered
  BY Zenon DEF Hosted
<1>3. \A g \in HostIds : hosts'[g] = None
  BY <1>1, Zenon
<1>4. hosts' \in [HostIds -> RuntimeIds \cup {None}]
  BY <1>1, Zenon
<1>5. /\ runtimes' \in Seq(Runtime) /\ Len(runtimes') = Len(runtimes) /\ SameIdentities
      /\ \A r \in DOMAIN runtimes :
            runtimes'[r].state = IF r \in rs /\ runtimes[r].state = "live"
                                 THEN "stopping" ELSE runtimes[r].state
  <2> HIDE DEF rs
  <2> QED BY <1>1, StoppingRuntimes, Zenon
<1>6. Typed'
  BY <1>1, <1>2, <1>4, <1>5, Zenon DEF Typed
<1>7. Resolving' /\ Persisted'
  BY <1>1, <1>3, <1>5, CallsGoOn, IdentitiesPersist, Zenon
<1>8. HostsAreLive'
  BY <1>3, Zenon DEF HostsAreLive
<1>9. ASSUME NEW r \in DOMAIN runtimes' PROVE runtimes'[r].state # "live"
  <2>1. r \in DOMAIN runtimes /\ runtimes[r].host \in HostIds
    BY <1>2, <1>5, RuntimeShapes, Zenon DEF SameIdentities
  <2>2. runtimes[r].state = "live" => r \in rs
    BY <1>2, <2>1, Zenon DEF Registered, NoHostEscapes
  <2> HIDE DEF rs
  <2> QED BY <1>5, <2>1, <2>2, Zenon
<1>10. NoHostEscapes'
  BY <1>1, <1>3, <1>9, Zenon DEF NoHostEscapes
<1>11. Registered'
  BY <1>1, <1>8, <1>10, Zenon DEF Registered
<1> QED BY <1>6, <1>7, <1>11, Zenon DEF Hosted

\* When shutdown() returns, no runtime is live: it would be registered.
LEMMA ShutdownReturnsKeeps ==
    ASSUME Hosted, ShutdownReturns
    PROVE  Hosted'
<1>1. /\ shutdownCall = "waiting" /\ shutdownCall' = "returned"
      /\ \A r \in DOMAIN runtimes : runtimes[r].state = "stopping" => r \in removing
      /\ UNCHANGED <<hosts, pendingHostIds, calls, runtimes, removing, shutDown, store, generated>>
  BY Zenon DEF ShutdownReturns
<1>2. Typed /\ Registered
  BY Zenon DEF Hosted
<1>3. Typed'
  BY <1>1, <1>2, Zenon DEF Typed
<1>4. Resolving' /\ Persisted'
  BY <1>1, ResolvingStays, PersistedStays, Zenon DEF Hosted
<1>5. shutDown /\ \A h \in HostIds : hosts[h] = None
  BY <1>1, <1>2, Zenon DEF Registered, NoHostEscapes
<1>6. HostsAreLive'
  BY <1>1, <1>5, Zenon DEF HostsAreLive
<1>7. ASSUME NEW r \in DOMAIN runtimes
      PROVE  runtimes[r].state # "live" /\ (runtimes[r].state # "exited" => r \in removing)
  <2>1. r # None /\ runtimes[r] \in Runtime /\ runtimes[r].host \in HostIds
    BY <1>2, RuntimeShapes, Zenon DEF None
  <2>2. runtimes[r].state # "live"
    BY <1>2, <1>5, <2>1, Zenon DEF Registered, NoHostEscapes
  <2>3. runtimes[r].state \in {"live", "stopping", "exited"}
    BY <2>1 DEF Runtime
  <2> QED BY <1>1, <2>2, <2>3, Zenon
<1>8. NoHostEscapes'
  BY <1>1, <1>5, <1>7, Zenon DEF NoHostEscapes
<1>9. Registered'
  BY <1>1, <1>5, <1>6, <1>8, Zenon DEF Registered
<1> QED BY <1>3, <1>4, <1>9, Zenon DEF Hosted

\* A restart keeps what the store holds.
LEMMA CrashKeeps ==
    ASSUME Hosted, Crash
    PROVE  Hosted'
<1>1. /\ hosts' = [h \in HostIds |-> None] /\ pendingHostIds' = {}
      /\ calls' = [c \in Calls |-> Idle]
      /\ runtimes' = [r \in DOMAIN runtimes |-> [runtimes[r] EXCEPT !.state = "exited"]]
      /\ shutDown' = FALSE /\ shutdownCall' = "none" /\ UNCHANGED <<store, generated>>
  BY Zenon DEF Crash
<1>2. Typed
  BY Zenon DEF Hosted
<1>3. \A h \in HostIds : hosts'[h] = None
  BY <1>1, Zenon
<1>4. hosts' \in [HostIds -> RuntimeIds \cup {None}]
  BY <1>1, Zenon
<1>5. Idle \in Call /\ Idle.pc = "idle"
  <2>1. (CHOOSE h \in HostIds : TRUE) \in HostIds
    BY HostIdAssumption, Zenon
  <2> QED BY <2>1 DEF Idle, Call, CallStates
<1>6. calls' \in [Calls -> Call] /\ \A c \in Calls : calls'[c].pc = "idle"
  BY <1>1, <1>5, Zenon
<1>7. \A x \in Runtime : /\ [x EXCEPT !.state = "exited"] \in Runtime
                         /\ [x EXCEPT !.state = "exited"].state = "exited"
                         /\ [x EXCEPT !.state = "exited"].host = x.host
                         /\ [x EXCEPT !.state = "exited"].clientId = x.clientId
  BY DEF Runtime
<1>8. \A r \in DOMAIN runtimes : runtimes[r] \in Runtime
  BY <1>2, RuntimeShapes, Zenon
<1>9. /\ runtimes' \in [DOMAIN runtimes -> Runtime]
      /\ \A r \in DOMAIN runtimes :
            /\ runtimes'[r].state = "exited" /\ runtimes'[r].host = runtimes[r].host
            /\ runtimes'[r].clientId = runtimes[r].clientId
  BY <1>1, <1>7, <1>8, Zenon
<1>10. runtimes' \in Seq(Runtime) /\ Len(runtimes') = Len(runtimes)
         /\ DOMAIN runtimes' = DOMAIN runtimes
  BY <1>2, <1>9, RuntimesChange, Zenon
<1>11. Typed'
  BY <1>1, <1>2, <1>4, <1>6, <1>10, Zenon DEF Typed
<1>12. Registered'
  BY <1>1, <1>3, <1>9, <1>10, Zenon DEF Registered, HostsAreLive, NoHostEscapes
<1>13. Resolving'
  BY <1>6, Zenon DEF Resolving, CallsPending, OneCallPerHost, StoringCalls, ResolvedCalls, Busy
<1>14. SameIdentities
  BY <1>9, <1>10, Zenon DEF SameIdentities
<1>15. Persisted'
  BY <1>1, <1>3, <1>14, IdentitiesPersist, Zenon
<1> QED BY <1>11, <1>12, <1>13, <1>15, Zenon DEF Hosted

\* A runtime is made for the host of a resolved call, with the id that was stored.
LEMMA NewRuntime ==
    ASSUME Hosted, NEW h \in HostIds, NEW id \in ClientIds \cup {None},
           Len(runtimes) < MaxRuntimes,
           runtimes' = Append(runtimes, [host |-> h, clientId |-> id, state |-> "live"])
    PROVE  LET n == Len(runtimes) + 1 IN
           /\ n \in RuntimeIds /\ n # None /\ n \notin DOMAIN runtimes
           /\ runtimes' \in Seq(Runtime) /\ Len(runtimes') <= MaxRuntimes
           /\ DOMAIN runtimes' = DOMAIN runtimes \cup {n}
           /\ runtimes'[n].host = h /\ runtimes'[n].clientId = id /\ runtimes'[n].state = "live"
           /\ \A r \in DOMAIN runtimes : runtimes'[r] = runtimes[r]
<1>1. PICK R, s, t, x : /\ R = Runtime /\ s = runtimes /\ t = runtimes'
                        /\ x = [host |-> h, clientId |-> id, state |-> "live"]
  OBVIOUS
<1>2. x \in R /\ x.host = h /\ x.clientId = id /\ x.state = "live"
  BY <1>1 DEF Runtime
<1>3. s \in Seq(R) /\ t = Append(s, x) /\ Len(s) < MaxRuntimes
  BY <1>1, Zenon DEF Hosted, Typed
<1>4. MaxRuntimes \in Nat
  BY BoundAssumption, Zenon
<1>5. /\ t \in Seq(R) /\ Len(s) \in Nat /\ Len(t) = Len(s) + 1 /\ t[Len(s) + 1] = x
      /\ DOMAIN s = 1..Len(s) /\ DOMAIN t = 1..(Len(s) + 1)
      /\ \A r \in 1..Len(s) : t[r] = s[r]
  BY <1>2, <1>3
<1>6. PICK k \in Nat : k = Len(s)
  BY <1>5, Zenon
<1>7. /\ k + 1 \in 1..MaxRuntimes /\ k + 1 # 0 /\ k + 1 \notin 1..k /\ k + 1 <= MaxRuntimes
      /\ 1..(k + 1) = 1..k \cup {k + 1}
  BY <1>3, <1>4, <1>6
<1> QED BY <1>1, <1>2, <1>5, <1>6, <1>7, Zenon DEF RuntimeIds, None

\* addHost() after its awaits: the runtime is made unless the client was shut down.
LEMMA RegisterKeeps ==
    ASSUME Hosted, NEW c \in Calls, Register(c)
    PROVE  Hosted'
<1>1. PICK h, id : h = calls[c].host /\ id = calls[c].clientId
  OBVIOUS
<1>2. /\ calls[c].pc = "resolved" /\ calls' = [calls EXCEPT ![c] = Idle]
      /\ pendingHostIds' = pendingHostIds \ {calls[c].host}
      /\ UNCHANGED <<removing, shutDown, shutdownCall, store, generated>>
  BY Zenon DEF Register
<1>3. \/ UNCHANGED <<hosts, runtimes>>
      \/ /\ ~shutDown /\ hosts[h] = None /\ Len(runtimes) < MaxRuntimes
         /\ runtimes' = Append(runtimes, [host |-> h, clientId |-> id, state |-> "live"])
         /\ hosts' = [hosts EXCEPT ![h] = Len(runtimes) + 1]
  BY <1>1, Zenon DEF Register
<1>4. Busy(c)
  BY <1>2, Zenon DEF Busy
<1>5. Typed /\ Registered /\ Resolving /\ Persisted /\ calls[c] \in Call
  BY Zenon DEF Hosted, Typed
<1>6. CASE UNCHANGED <<hosts, runtimes>>
  <2>1. calls' \in [Calls -> Call] /\ Resolving'
    BY <1>2, <1>4, <1>6, CallIsOver, Zenon
  <2>2. Typed'
    BY <1>2, <1>5, <1>6, <2>1, Zenon DEF Typed
  <2> QED BY <1>2, <1>5, <1>6, <2>1, <2>2, RegisteredStays, PersistedStays, Zenon DEF Hosted
<1>7. CASE /\ ~shutDown /\ hosts[h] = None /\ Len(runtimes) < MaxRuntimes
           /\ runtimes' = Append(runtimes, [host |-> h, clientId |-> id, state |-> "live"])
           /\ hosts' = [hosts EXCEPT ![h] = Len(runtimes) + 1]
  <2>1. h \in HostIds /\ id \in ClientIds \cup {None}
    BY <1>1, <1>5 DEF Call
  <2>2. id # None /\ store[h] = id
    BY <1>1, <1>2, <1>5, Zenon DEF Resolving, ResolvedCalls
  <2>3. PICK n : n = Len(runtimes) + 1
    OBVIOUS
  <2>4. /\ n \in RuntimeIds /\ n # None /\ n \notin DOMAIN runtimes
        /\ runtimes' \in Seq(Runtime) /\ Len(runtimes') <= MaxRuntimes
        /\ DOMAIN runtimes' = DOMAIN runtimes \cup {n}
        /\ runtimes'[n].host = h /\ runtimes'[n].clientId = id /\ runtimes'[n].state = "live"
        /\ \A r \in DOMAIN runtimes : runtimes'[r] = runtimes[r]
    BY <1>7, <2>1, <2>3, NewRuntime, Zenon
  <2>5. /\ hosts' \in [HostIds -> RuntimeIds \cup {None}] /\ hosts'[h] = n
        /\ \A g \in HostIds : g # h => hosts'[g] = hosts[g]
    BY <1>5, <1>7, <2>1, <2>3, <2>4, Zenon DEF Typed
  <2>6. \A d \in Calls : calls[d].host \in HostIds
    <3>1. \A x \in Call : x.host \in HostIds
      BY DEF Call
    <3> QED BY <1>5, <3>1, Zenon DEF Typed
  <2>7. \A d \in Calls : (d # c /\ Busy(d)) => hosts'[calls[d].host] = hosts[calls[d].host]
    BY <1>1, <1>4, <1>5, <2>5, <2>6, Zenon DEF Resolving, OneCallPerHost
  <2>8. calls' \in [Calls -> Call] /\ Resolving'
    BY <1>2, <1>4, <2>7, CallIsOver, Zenon
  <2>9. Typed'
    BY <1>2, <1>5, <2>4, <2>5, <2>8, Zenon DEF Typed
  <2>10. HostsAreLive'
    <3> SUFFICES ASSUME NEW g \in HostIds, hosts'[g] # None
                 PROVE  /\ hosts'[g] \in DOMAIN runtimes' /\ runtimes'[hosts'[g]].host = g
                        /\ runtimes'[hosts'[g]].state = "live"
      BY Zenon DEF HostsAreLive
    <3>1. CASE g = h
      BY <2>4, <2>5, <3>1, Zenon
    <3>2. CASE g # h
      <4>1. hosts'[g] = hosts[g]
        BY <2>5, <3>2, Zenon
      <4>2. /\ hosts[g] \in DOMAIN runtimes /\ runtimes[hosts[g]].host = g
            /\ runtimes[hosts[g]].state = "live"
        BY <1>5, <4>1, Zenon DEF Registered, HostsAreLive
      <4> QED BY <2>4, <4>1, <4>2, Zenon
    <3> QED BY <3>1, <3>2, Zenon
  <2>11. NoHostEscapes'
    <3>1. ~shutDown' /\ shutdownCall' # "returned"
      BY <1>2, <1>5, <1>7, Zenon DEF Registered
    <3>2. ASSUME NEW r \in DOMAIN runtimes', runtimes'[r].state = "live"
          PROVE  hosts'[runtimes'[r].host] = r
      <4>1. CASE r = n
        BY <2>4, <2>5, <4>1, Zenon
      <4>2. CASE r \in DOMAIN runtimes
        <5>1. runtimes'[r] = runtimes[r] /\ runtimes[r].host \in HostIds /\ r # None
          BY <1>5, <2>4, <4>2, RuntimeShapes, Zenon DEF None
        <5>2. hosts[runtimes[r].host] = r
          BY <1>5, <3>2, <4>2, <5>1, Zenon DEF Registered, NoHostEscapes
        <5>3. runtimes[r].host # h
          BY <1>7, <5>1, <5>2, Zenon
        <5> QED BY <2>5, <5>1, <5>2, <5>3, Zenon
      <4> QED BY <2>4, <4>1, <4>2, Zenon
    <3> QED BY <3>1, <3>2, Zenon DEF NoHostEscapes
  <2>12. Registered'
    BY <1>2, <1>5, <2>10, <2>11, Zenon DEF Registered
  <2>13. RegisteredIsStored'
    <3> SUFFICES ASSUME NEW g \in HostIds, hosts'[g] # None
                 PROVE  store'[g] = runtimes'[hosts'[g]].clientId
      BY Zenon DEF RegisteredIsStored
    <3>1. CASE g = h
      BY <1>2, <2>2, <2>4, <2>5, <3>1, Zenon
    <3>2. CASE g # h
      <4>1. hosts'[g] = hosts[g]
        BY <2>5, <3>2, Zenon
      <4>2. hosts[g] \in DOMAIN runtimes /\ store[g] = runtimes[hosts[g]].clientId
        BY <1>5, <4>1, Zenon DEF Registered, HostsAreLive, Persisted, RegisteredIsStored
      <4> QED BY <1>2, <2>4, <4>1, <4>2, Zenon
    <3> QED BY <3>1, <3>2, Zenon
  <2>14. UsedIsStored'
    <3> SUFFICES ASSUME NEW r \in DOMAIN runtimes'
                 PROVE  /\ store'[runtimes'[r].host] # None
                        /\ \/ runtimes'[r].clientId \in Explicit
                           \/ store'[runtimes'[r].host] \in Explicit
                           \/ store'[runtimes'[r].host] = runtimes'[r].clientId
      BY Zenon DEF UsedIsStored
    <3>1. CASE r = n
      BY <1>2, <2>2, <2>4, <3>1, Zenon
    <3>2. CASE r \in DOMAIN runtimes
      <4>1. runtimes'[r] = runtimes[r] /\ store' = store
        BY <1>2, <2>4, <3>2, Zenon
      <4> QED BY <1>5, <3>2, <4>1, Zenon DEF Persisted, UsedIsStored
    <3> QED BY <2>4, <3>1, <3>2, Zenon
  <2>15. ASSUME NEW r \in DOMAIN runtimes, runtimes[r].host = h,
                {runtimes[r].clientId, id} \cap Explicit = {}
         PROVE  runtimes[r].clientId = id
    BY <1>5, <2>2, <2>15, Zenon DEF Persisted, UsedIsStored
  <2>16. OneGenerated'
    <3> SUFFICES ASSUME NEW r \in DOMAIN runtimes', NEW s \in DOMAIN runtimes',
                        runtimes'[r].host = runtimes'[s].host,
                        {runtimes'[r].clientId, runtimes'[s].clientId} \cap Explicit = {}
                 PROVE  runtimes'[r].clientId = runtimes'[s].clientId
      BY Zenon DEF OneGenerated
    <3>1. PICK a, b, a1, b1 : /\ a = runtimes'[r].host /\ b = runtimes'[s].host
                              /\ a1 = runtimes'[r].clientId /\ b1 = runtimes'[s].clientId
      OBVIOUS
    <3>2. a1 \notin Explicit /\ b1 \notin Explicit /\ a = b
      BY <3>1, Zenon
    <3>3. CASE r = n /\ s = n
      BY <3>3, Zenon
    <3>4. CASE r = n /\ s \in DOMAIN runtimes
      <4>1. a = h /\ a1 = id /\ runtimes[s].host = b /\ runtimes[s].clientId = b1
        BY <2>4, <3>1, <3>4, Zenon
      <4>2. {runtimes[s].clientId, id} \cap Explicit = {}
        BY <3>2, <4>1, Zenon
      <4>3. runtimes[s].clientId = id
        BY <2>15, <3>2, <3>4, <4>1, <4>2, Zenon
      <4> QED BY <3>1, <4>1, <4>3, Zenon
    <3>5. CASE s = n /\ r \in DOMAIN runtimes
      <4>1. b = h /\ b1 = id /\ runtimes[r].host = a /\ runtimes[r].clientId = a1
        BY <2>4, <3>1, <3>5, Zenon
      <4>2. {runtimes[r].clientId, id} \cap Explicit = {}
        BY <3>2, <4>1, Zenon
      <4>3. runtimes[r].clientId = id
        BY <2>15, <3>2, <3>5, <4>1, <4>2, Zenon
      <4> QED BY <3>1, <4>1, <4>3, Zenon
    <3>6. CASE r \in DOMAIN runtimes /\ s \in DOMAIN runtimes
      <4>1. runtimes'[r] = runtimes[r] /\ runtimes'[s] = runtimes[s]
        BY <2>4, <3>6, Zenon
      <4>2. /\ runtimes[r].host = runtimes[s].host
            /\ {runtimes[r].clientId, runtimes[s].clientId} \cap Explicit = {}
        BY <3>1, <3>2, <4>1, Zenon
      <4>3. runtimes[r].clientId = runtimes[s].clientId
        BY <1>5, <3>6, <4>2, Zenon DEF Persisted, OneGenerated
      <4> QED BY <4>1, <4>3, Zenon
    <3> QED BY <2>4, <3>3, <3>4, <3>5, <3>6, Zenon
  <2> QED BY <1>2, <2>8, <2>9, <2>12, <2>13, <2>14, <2>16, Zenon DEF Hosted, Persisted
<1> QED BY <1>3, <1>6, <1>7, Zenon

\* Every step keeps the registry's invariant.
LEMMA HostedNext == Hosted /\ [Next]_vars => Hosted'
<1> SUFFICES ASSUME Hosted, [Next]_vars PROVE Hosted'
  OBVIOUS
<1>1. ASSUME NEW c \in Calls,
             \/ \E h \in HostIds, x \in Explicit \cup {None} : AddHost(c, h, x)
             \/ Loaded(c) \/ Stored(c) \/ StoreFails(c) \/ Register(c)
      PROVE  Hosted'
  BY <1>1, AddHostKeeps, LoadedKeeps, StoredKeeps, StoreFailsKeeps, RegisterKeeps, Zenon
<1>2. ASSUME NEW h \in HostIds, RemoveHost(h) PROVE Hosted'
  BY <1>2, RemoveHostKeeps, Zenon
<1>3. ASSUME NEW r \in RuntimeIds, RuntimeExits(r) \/ Removed(r) PROVE Hosted'
  BY <1>3, RuntimeExitsKeeps, RemovedKeeps, Zenon
<1>4. CASE Shutdown \/ ShutdownReturns \/ Crash
  BY <1>4, ShutdownKeeps, ShutdownReturnsKeeps, CrashKeeps, Zenon
<1>5. ASSUME \/ \E h \in HostIds : resetHost(h)
             \/ \E h \in HostIds, u \in Uris : applySnapshot(h, u) \/ applyEnvelope(h, u)
             \/ \E h \in HostIds, entries \in SUBSET Automations : setAutomationCatalog(h, entries)
             \/ UNCHANGED vars
      PROVE  UNCHANGED registryVars
  BY <1>5, Zenon DEF resetHost, applySnapshot, applyEnvelope, setAutomationCatalog, vars
<1>6. ASSUME UNCHANGED registryVars PROVE Hosted'
  BY <1>6, HostedStays, Zenon
<1> QED BY <1>1, <1>2, <1>3, <1>4, <1>5, <1>6, Zenon DEF Next

\* A registered host connects with the client id the store holds, and an id that
\* was generated for it is used again, whichever addHost() calls overlap, stores
\* fail and restarts happen.
THEOREM IdentityKept == Spec => []IdentityPersisted
<1>1. Hosted => IdentityPersisted
  <2> SUFFICES ASSUME Hosted PROVE IdentityPersisted
    OBVIOUS
  <2>1. \A r \in DOMAIN runtimes : runtimes[r].state \in {"live", "stopping", "exited"}
    <3>1. \A x \in Runtime : x.state \in {"live", "stopping", "exited"}
      BY DEF Runtime
    <3> QED BY <3>1, RuntimeShapes, Zenon DEF Hosted
  <2>2. TypeOK
    BY <2>1, Zenon DEF Hosted, Typed, TypeOK, Call, CallStates
  <2> QED BY <2>2, Zenon DEF IdentityPersisted, Hosted, Persisted, RegisteredIsStored, OneGenerated
<1> QED BY <1>1, HostedInit, HostedNext, PTL DEF Spec

\* After shutdown() no host is registered and none is started, not even by an
\* addHost() that was waiting for the store, and a live runtime is a registered one.
THEOREM HostsContained == Spec => []NoHostEscapes
<1>1. Hosted => NoHostEscapes
  BY Zenon DEF Hosted, Registered
<1> QED BY <1>1, HostedInit, HostedNext, PTL DEF Spec

=============================================================================
