-------------------------- MODULE SubsequenceProofs --------------------------
(***************************************************************************)
(* What filter() returns, for every sequence and every set, and facts about *)
(* the ends of a sequence.                                                  *)
(*                                                                          *)
(* The library's induction theorems take the formula to prove as an         *)
(* operator; here induction is the absence of a least counterexample.       *)
(***************************************************************************)
EXTENDS Integers, SequencesExt, Subsequence, SequenceTheorems, WellFoundedInduction, TLAPS

(* A set of numbers that does not hold its own least element is empty:      *)
(* induction over the numbers, with S the set of counterexamples.           *)
LEMMA NoLeast ==
    ASSUME NEW S \in SUBSET Nat, \A n \in S : \E m \in S : m < n
    PROVE  S = {}
  <1> DEFINE R == OpToRel(<, Nat)
  <1>1. \A n, m \in Nat : n < m => <<n, m>> \in R
    BY DEF OpToRel
  <1>2. IsWellFoundedOn(R, Nat)
    BY NatLessThanWellFounded
  <1> HIDE DEF R
  <1> SUFFICES ASSUME S # {} PROVE FALSE
    OBVIOUS
  <1>3. PICK m \in S : \A n \in S : ~(<<n, m>> \in R)
    BY <1>2, WFMin
  <1>4. \A n \in S : n \in Nat /\ m \in Nat /\ ~(n < m)
    BY <1>1, <1>3
  <1> QED
    BY <1>4

\* One step of filter() on element x, with `acc` kept so far.
Step(acc, x, S) == IF x \in S THEN Append(acc, x) ELSE acc

\* f holds the intermediate results of filter() on the first n elements of s.
IsRun(f, n, s, S) ==
    /\ f = [i \in 0..n |-> f[i]]
    /\ f[0] = <<>>
    /\ \A i \in 1..n : f[i] = Step(f[i - 1], s[i], S)

(* filter() has intermediate results up to every element.                   *)
LEMMA RunExists ==
    ASSUME NEW s, NEW S
    PROVE  \A n \in Nat : \E f : IsRun(f, n, s, S)
  <1> DEFINE Bad == {n \in Nat : ~\E f : IsRun(f, n, s, S)}
  <1>1. \A n \in Bad : \E m \in Bad : m < n
    <2> SUFFICES ASSUME NEW n \in Nat, ~\E f : IsRun(f, n, s, S),
                        \A m \in Nat : m < n => \E f : IsRun(f, m, s, S)
                 PROVE  FALSE
      OBVIOUS
    <2>1. CASE n = 0
      <3> DEFINE f == [i \in 0..0 |-> <<>>]
      <3>1. IsRun(f, 0, s, S)
        BY DEF IsRun
      <3> QED
        BY <2>1, <3>1
    <2>2. CASE n # 0
      <3>1. n - 1 \in Nat /\ n - 1 < n
        BY <2>2
      <3>2. PICK g : IsRun(g, n - 1, s, S)
        BY <3>1
      <3> DEFINE f == [i \in 0..n |-> IF i = n THEN Step(g[n - 1], s[n], S) ELSE g[i]]
      <3>3. f = [i \in 0..n |-> f[i]]
        OBVIOUS
      <3>4. f[0] = <<>>
        BY <2>2, <3>1, <3>2 DEF IsRun
      <3>5. ASSUME NEW i \in 1..n PROVE f[i] = Step(f[i - 1], s[i], S)
        <4>1. f[i - 1] = g[i - 1]
          BY <3>1
        <4>2. CASE i = n
          BY <4>1, <4>2
        <4>3. CASE i # n
          <5>1. i \in 1..(n - 1) /\ f[i] = g[i]
            BY <4>3
          <5> QED
            BY <4>1, <5>1, <3>2 DEF IsRun
        <4> QED
          BY <4>2, <4>3
      <3> HIDE DEF f
      <3>6. IsRun(f, n, s, S)
        BY <3>3, <3>4, <3>5 DEF IsRun
      <3> QED
        BY <3>6
    <2> QED
      BY <2>1, <2>2
  <1>2. Bad \in SUBSET Nat
    OBVIOUS
  <1> HIDE DEF Bad
  <1>3. Bad = {}
    BY <1>1, <1>2, NoLeast
  <1> QED
    BY <1>3 DEF Bad

(* The recursive function of filter() is such a run.                        *)
LEMMA KeptIsRun ==
    ASSUME NEW T, NEW s \in Seq(T), NEW S
    PROVE  IsRun(KeptUpTo(s, S), Len(s), s, S)
  <1> DEFINE n == Len(s)
             Body(f) == [i \in 0..n |-> IF i = 0 THEN <<>>
                                        ELSE IF s[i] \in S THEN Append(f[i - 1], s[i]) ELSE f[i - 1]]
             k == CHOOSE f : f = Body(f)
  <1>1. n \in Nat
    OBVIOUS
  <1> HIDE DEF n
  <1>2. PICK f : IsRun(f, n, s, S)
    BY <1>1, RunExists
  <1>3. f = Body(f)
    <2>1. \A i \in 0..n : f[i] = Body(f)[i]
      BY <1>1, <1>2 DEF IsRun, Step
    <2>2. f = [i \in 0..n |-> f[i]]
      BY <1>2 DEF IsRun
    <2> QED
      BY <2>1, <2>2
  <1>4. k = Body(k)
    BY <1>3
  <1>5. KeptUpTo(s, S) = k
    BY DEF KeptUpTo, n
  <1> HIDE DEF k
  <1>6. k = [i \in 0..n |-> k[i]]
    BY <1>4
  <1>7. k[0] = <<>>
    BY <1>1, <1>4
  <1>8. ASSUME NEW i \in 1..n PROVE k[i] = Step(k[i - 1], s[i], S)
    <2>1. i \in 0..n /\ i # 0
      BY <1>1
    <2>2. k[i] = Body(k)[i]
      BY <1>4
    <2>3. Body(k)[i] = IF s[i] \in S THEN Append(k[i - 1], s[i]) ELSE k[i - 1]
      BY <2>1
    <2> QED
      BY <2>2, <2>3 DEF Step
  <1>9. IsRun(k, n, s, S)
    BY <1>6, <1>7, <1>8 DEF IsRun
  <1> QED
    BY <1>5, <1>9 DEF n

\* g gives the positions in s of the elements that filter() kept of the first n.
IsIndex(g, kept, n, s, S) ==
    /\ g \in [1..Len(kept) -> 1..n]
    /\ \A i, j \in 1..Len(kept) : i < j => g[i] < g[j]
    /\ \A i \in 1..Len(kept) : kept[i] = s[g[i]] /\ s[g[i]] \in S
    /\ \A j \in 1..n : s[j] \in S => \E i \in 1..Len(kept) : g[i] = j

(* One step of filter() keeps an index.                                     *)
LEMMA IndexStep ==
    ASSUME NEW T, NEW s \in Seq(T), NEW S, NEW n \in 1..Len(s),
           NEW kept \in Seq(T), NEW g, IsIndex(g, kept, n - 1, s, S)
    PROVE  /\ Step(kept, s[n], S) \in Seq(T)
           /\ \E h : IsIndex(h, Step(kept, s[n], S), n, s, S)
  <1>1. s[n] \in T
    OBVIOUS
  <1>2. CASE s[n] \notin S
    <2>1. Step(kept, s[n], S) = kept
      BY <1>2 DEF Step
    <2>2. g \in [1..Len(kept) -> 1..(n - 1)] /\ 1..(n - 1) \subseteq 1..n
      BY DEF IsIndex
    <2>3. g \in [1..Len(kept) -> 1..n]
      BY <2>2
    <2>4. \A j \in 1..n : s[j] \in S => j \in 1..(n - 1)
      BY <1>2
    <2>5. IsIndex(g, kept, n, s, S)
      BY <2>3, <2>4 DEF IsIndex
    <2> QED
      BY <2>1, <2>5
  <1>3. CASE s[n] \in S
    <2> DEFINE len == Len(kept)
               more == Append(kept, s[n])
               h == [i \in 1..(len + 1) |-> IF i = len + 1 THEN n ELSE g[i]]
    <2>1. Step(kept, s[n], S) = more
      BY <1>3 DEF Step
    <2>2. /\ more \in Seq(T) /\ Len(more) = len + 1 /\ more[len + 1] = s[n]
          /\ \A i \in 1..len : more[i] = kept[i]
      BY <1>1
    <2>3. len \in Nat
      OBVIOUS
    <2> HIDE DEF len, more
    <2>4. \A i \in 1..len : h[i] = g[i] /\ g[i] \in 1..(n - 1)
      BY <2>3 DEF IsIndex, len
    <2>5. h[len + 1] = n
      BY <2>3
    <2>6. h \in [1..(len + 1) -> 1..n]
      <3>1. \A i \in 1..(len + 1) : i = len + 1 \/ i \in 1..len
        BY <2>3
      <3>2. n \in 1..n /\ 1..(n - 1) \subseteq 1..n
        OBVIOUS
      <3>3. \A i \in 1..(len + 1) : h[i] \in 1..n
        BY <3>1, <3>2, <2>4, <2>5
      <3> QED
        BY <3>3
    <2> HIDE DEF h
    <2>7. ASSUME NEW i \in 1..(len + 1), NEW j \in 1..(len + 1), i < j
          PROVE  h[i] < h[j]
      <3>1. i \in 1..len
        BY <2>3, <2>7
      <3>2. CASE j = len + 1
        BY <3>1, <3>2, <2>4, <2>5
      <3>3. CASE j # len + 1
        <4>1. j \in 1..len
          BY <2>3, <3>3
        <4> QED
          BY <3>1, <4>1, <2>4, <2>7 DEF IsIndex, len
      <3> QED
        BY <3>2, <3>3
    <2>8. ASSUME NEW i \in 1..(len + 1)
          PROVE  more[i] = s[h[i]] /\ s[h[i]] \in S
      <3>1. CASE i = len + 1
        BY <3>1, <2>2, <2>5, <1>3
      <3>2. CASE i # len + 1
        <4>1. i \in 1..len
          BY <2>3, <3>2
        <4> QED
          BY <4>1, <2>2, <2>4 DEF IsIndex, len
      <3> QED
        BY <3>1, <3>2
    <2>9. ASSUME NEW j \in 1..n, s[j] \in S
          PROVE  \E i \in 1..(len + 1) : h[i] = j
      <3>1. CASE j = n
        BY <3>1, <2>3, <2>5
      <3>2. CASE j # n
        <4>1. j \in 1..(n - 1)
          BY <3>2
        <4>2. PICK i \in 1..len : g[i] = j
          BY <4>1, <2>9 DEF IsIndex, len
        <4> QED
          BY <4>2, <2>3, <2>4
      <3> QED
        BY <3>1, <3>2
    <2>10. IsIndex(h, more, n, s, S)
      BY <2>2, <2>6, <2>7, <2>8, <2>9 DEF IsIndex
    <2> QED
      BY <2>1, <2>2, <2>10
  <1> QED
    BY <1>2, <1>3

(* filter() returns the elements that pass its test, each as often as it    *)
(* occurs, in their order, and nothing else.                                *)
LEMMA KeptIndex ==
    ASSUME NEW T, NEW s \in Seq(T), NEW S
    PROVE  /\ Kept(s, S) \in Seq(T)
           /\ \E g : IsIndex(g, Kept(s, S), Len(s), s, S)
  <1> DEFINE k == KeptUpTo(s, S)
             n == Len(s)
             Good(i) == k[i] \in Seq(T) /\ \E g : IsIndex(g, k[i], i, s, S)
             Bad == {i \in 0..n : ~Good(i)}
  <1>1. IsRun(k, n, s, S)
    BY KeptIsRun
  <1>2. n \in Nat
    OBVIOUS
  <1> HIDE DEF k
  <1>3. Good(0)
    <2> DEFINE g == [i \in 1..0 |-> 0]
    <2>1. k[0] = <<>>
      BY <1>1 DEF IsRun
    <2>2. IsIndex(g, <<>>, 0, s, S)
      BY DEF IsIndex
    <2> QED
      BY <2>1, <2>2
  <1>4. ASSUME NEW i \in 1..n, Good(i - 1) PROVE Good(i)
    <2>1. k[i] = Step(k[i - 1], s[i], S)
      BY <1>1 DEF IsRun
    <2>2. PICK g : IsIndex(g, k[i - 1], i - 1, s, S)
      BY <1>4
    <2>3. k[i - 1] \in Seq(T) /\ i \in 1..Len(s)
      BY <1>4
    <2> QED
      BY <2>1, <2>2, <2>3, IndexStep
  <1> HIDE DEF Good
  <1>5. ASSUME NEW i \in Bad PROVE \E m \in Bad : m < i
    <2>1. i # 0 /\ i \in 0..n /\ ~Good(i)
      BY <1>3
    <2>2. i \in 1..n /\ i - 1 \in 0..n /\ i - 1 < i
      BY <1>2, <2>1
    <2>3. ~Good(i - 1)
      BY <1>4, <2>1, <2>2
    <2> QED
      BY <2>2, <2>3
  <1>6. Bad \in SUBSET Nat
    BY <1>2
  <1>7. n \in 0..n
    BY <1>2
  <1> HIDE DEF Bad
  <1>8. Bad = {}
    BY <1>5, <1>6, NoLeast
  <1>9. Good(n)
    BY <1>7, <1>8 DEF Bad
  <1> QED
    BY <1>9 DEF Good, Kept, k

(* An element is returned exactly when it occurs and passes the test.       *)
LEMMA KeptElements ==
    ASSUME NEW T, NEW s \in Seq(T), NEW S
    PROVE  /\ \A i \in 1..Len(Kept(s, S)) :
                 Kept(s, S)[i] \in S /\ \E j \in 1..Len(s) : s[j] = Kept(s, S)[i]
           /\ \A j \in 1..Len(s) : s[j] \in S =>
                 \E i \in 1..Len(Kept(s, S)) : Kept(s, S)[i] = s[j]
  <1>1. PICK g : IsIndex(g, Kept(s, S), Len(s), s, S)
    BY KeptIndex
  <1> QED
    BY <1>1 DEF IsIndex

(* filter() keeps an increasing sequence increasing.                        *)
LEMMA KeptIncreasing ==
    ASSUME NEW s \in Seq(Nat), NEW S,
           \A i, j \in 1..Len(s) : i < j => s[i] < s[j]
    PROVE  \A i, j \in 1..Len(Kept(s, S)) : i < j => Kept(s, S)[i] < Kept(s, S)[j]
  <1> DEFINE k == Kept(s, S)
  <1>1. PICK g : IsIndex(g, k, Len(s), s, S)
    BY KeptIndex
  <1> HIDE DEF k
  <1>2. ASSUME NEW i \in 1..Len(k), NEW j \in 1..Len(k), i < j PROVE k[i] < k[j]
    <2>1. /\ g[i] \in 1..Len(s) /\ g[j] \in 1..Len(s) /\ g[i] < g[j]
          /\ k[i] = s[g[i]] /\ k[j] = s[g[j]]
      BY <1>1, <1>2 DEF IsIndex
    <2> QED
      BY <2>1
  <1> QED
    BY <1>2 DEF k

(* An increasing sequence of all the numbers beyond a up to b counts them.  *)
LEMMA Counting ==
    ASSUME NEW a \in Int, NEW b \in Int, a <= b, NEW s \in Seq(Int),
           \A i, j \in 1..Len(s) : i < j => s[i] < s[j],
           \A i \in 1..Len(s) : s[i] \in (a + 1)..b,
           \A n \in (a + 1)..b : \E i \in 1..Len(s) : s[i] = n
    PROVE  s = [i \in 1..(b - a) |-> a + i]
  <1> DEFINE l == Len(s)
             Bad == {i \in 1..l : s[i] # a + i}
  <1>1. l \in Nat /\ s = [i \in 1..l |-> s[i]] /\ \A i \in 1..l : s[i] \in Int
    OBVIOUS
  <1> HIDE DEF l
  <1>2. ASSUME NEW i \in Bad PROVE \E m \in Bad : m < i
    <2> SUFFICES ASSUME \A m \in 1..l : m < i => s[m] = a + m PROVE FALSE
      OBVIOUS
    <2>1. i \in 1..l /\ s[i] # a + i /\ s[i] \in (a + 1)..b
      BY DEF l
    <2>2. s[i] >= a + i
      <3>1. CASE i = 1
        BY <2>1, <3>1
      <3>2. CASE i # 1
        <4>1. i - 1 \in 1..l /\ i - 1 < i
          BY <1>1, <2>1, <3>2
        <4>2. s[i - 1] = a + (i - 1) /\ s[i - 1] < s[i]
          BY <2>1, <4>1 DEF l
        <4> QED
          BY <2>1, <4>2
      <3> QED
        BY <3>1, <3>2
    <2>3. a + i \in (a + 1)..b
      BY <1>1, <2>1, <2>2
    <2>4. PICK k \in 1..l : s[k] = a + i
      BY <2>3 DEF l
    <2>5. k # i
      BY <2>1, <2>4
    <2>6. k \in Int /\ i \in Int /\ ~(k < i)
      <3>1. k \in Int /\ i \in Int
        BY <1>1, <2>1, <2>4
      <3>2. k < i => a + k = a + i
        BY <2>4
      <3> QED
        BY <3>1, <3>2
    <2>7. s[i] < s[k]
      <3>1. i < k
        BY <2>5, <2>6
      <3> QED
        BY <2>1, <2>4, <3>1 DEF l
    <2> QED
      BY <2>1, <2>2, <2>4, <2>7
  <1>3. Bad \in SUBSET Nat
    BY <1>1
  <1> HIDE DEF Bad
  <1>4. Bad = {}
    BY <1>2, <1>3, NoLeast
  <1>5. \A i \in 1..l : s[i] = a + i
    BY <1>4 DEF Bad
  <1>6. l = b - a
    <2>1. CASE l > b - a
      <3>1. l \in 1..l /\ s[l] = a + l
        BY <1>1, <1>5, <2>1
      <3>2. s[l] \in (a + 1)..b
        BY <3>1 DEF l
      <3> QED
        BY <1>1, <2>1, <3>1, <3>2
    <2>2. CASE l < b - a
      <3>1. b \in (a + 1)..b
        BY <1>1, <2>2
      <3>2. PICK k \in 1..l : s[k] = b
        BY <3>1 DEF l
      <3> QED
        BY <1>1, <1>5, <2>2, <3>2
    <2> QED
      BY <1>1, <2>1, <2>2
  <1> QED
    BY <1>1, <1>5, <1>6

-----------------------------------------------------------------------------
(* The ends of a sequence.                                                 *)

(* The first n elements.                                                    *)
LEMMA PrefixProperties ==
    ASSUME NEW T, NEW s \in Seq(T), NEW n \in 0..Len(s)
    PROVE  /\ SubSeq(s, 1, n) \in Seq(T) /\ Len(SubSeq(s, 1, n)) = n
           /\ \A i \in 1..n : SubSeq(s, 1, n)[i] = s[i]
  <1> DEFINE l == Len(s)
             f == SubSeq(s, 1, n)
             m == Len(f)
  <1>1. l \in Nat /\ \A i \in 1..l : s[i] \in T
    OBVIOUS
  <1>2. n \in 0..l
    OBVIOUS
  <1> HIDE DEF l
  <1>3. n \in Nat /\ \A i \in 1..n : i \in 1..l
    BY ONLY <1>1, <1>2
  <1>4. 1 \in Int /\ n \in Int /\ \A i \in 1..n : s[i] \in T
    BY <1>1, <1>3
  <1>5. /\ f \in Seq(T) /\ m = IF 1 <= n THEN n - 1 + 1 ELSE 0
        /\ \A i \in 1..(n - 1 + 1) : f[i] = s[1 + i - 1]
    BY <1>4, SubSeqProperties
  <1> HIDE DEF m, f
  <1>6. m = n
    BY ONLY <1>3, <1>5
  <1>7. \A i \in 1..n : i \in 1..(n - 1 + 1) /\ 1 + i - 1 = i
    BY ONLY <1>3
  <1>8. \A i \in 1..n : f[i] = s[i]
    BY <1>5, <1>7
  <1> QED
    BY <1>5, <1>6, <1>8 DEF m, f

(* The last of a non-empty sequence taken away.                             *)
LEMMA FrontProperties ==
    ASSUME NEW T, NEW s \in Seq(T), s # <<>>
    PROVE  /\ Len(s) \in 1..Len(s) /\ Last(s) = s[Len(s)]
           /\ Front(s) \in Seq(T) /\ Len(Front(s)) = Len(s) - 1
           /\ \A i \in 1..(Len(s) - 1) : Front(s)[i] = s[i]
  <1>1. Len(s) \in Nat /\ Len(s) >= 1
    BY EmptySeq, LenProperties
  <1>2. Len(s) - 1 \in 0..Len(s) /\ Len(s) \in 1..Len(s)
    BY <1>1
  <1>3. /\ SubSeq(s, 1, Len(s) - 1) \in Seq(T) /\ Len(SubSeq(s, 1, Len(s) - 1)) = Len(s) - 1
        /\ \A i \in 1..(Len(s) - 1) : SubSeq(s, 1, Len(s) - 1)[i] = s[i]
    BY <1>2, PrefixProperties
  <1> QED
    BY <1>2, <1>3 DEF Front, Last

(* The first of a non-empty sequence taken away.                            *)
LEMMA TailFacts ==
    ASSUME NEW T, NEW q \in Seq(T), q # <<>>
    PROVE  /\ Len(q) \in Nat /\ 1 \in 1..Len(q) /\ Head(q) = q[1]
           /\ Tail(q) \in Seq(T) /\ Len(Tail(q)) = Len(q) - 1
           /\ \A i \in 1..Len(Tail(q)) : Tail(q)[i] = q[i + 1] /\ i + 1 \in 1..Len(q) /\ 1 < i + 1
           /\ \A i \in 1..Len(q) : i = 1 \/ (i - 1 \in 1..Len(Tail(q)) /\ Tail(q)[i - 1] = q[i])
  <1>1. /\ Len(q) \in Nat /\ Len(q) >= 1 /\ Head(q) = q[1]
        /\ Tail(q) \in Seq(T) /\ Len(Tail(q)) = Len(q) - 1
        /\ \A i \in 1..Len(Tail(q)) : Tail(q)[i] = q[i + 1]
    BY HeadTailProperties, EmptySeq, LenProperties
  <1>2. ASSUME NEW i \in 1..Len(q), i # 1
        PROVE  i - 1 \in 1..Len(Tail(q)) /\ Tail(q)[i - 1] = q[i]
    <2>1. i - 1 \in 1..Len(Tail(q)) /\ (i - 1) + 1 = i
      BY <1>1, <1>2
    <2> QED
      BY <2>1, <1>1
  <1>3. \A i \in 1..Len(Tail(q)) : i + 1 \in 1..Len(q) /\ 1 < i + 1
    BY <1>1
  <1> QED
    BY <1>1, <1>2, <1>3

(* One sequence after another.                                              *)
LEMMA ConcatFacts ==
    ASSUME NEW T, NEW s \in Seq(T), NEW t \in Seq(T)
    PROVE  /\ s \o t \in Seq(T) /\ Len(s \o t) = Len(s) + Len(t)
           /\ Len(s) \in Nat /\ Len(t) \in Nat
           /\ \A i \in 1..Len(s) : i \in 1..Len(s \o t) /\ (s \o t)[i] = s[i]
           /\ \A i \in 1..Len(t) : Len(s) + i \in 1..Len(s \o t) /\ (s \o t)[Len(s) + i] = t[i]
           /\ \A i \in 1..Len(s \o t) : i \in 1..Len(s) \/ i - Len(s) \in 1..Len(t)
  <1> DEFINE c == s \o t
             m == Len(s)
             n == Len(t)
  <1>1. /\ c \in Seq(T) /\ Len(c) = m + n
        /\ \A i \in 1..(m + n) : c[i] = IF i <= m THEN s[i] ELSE t[i - m]
    BY ConcatProperties
  <1>2. m \in Nat /\ n \in Nat
    OBVIOUS
  <1> HIDE DEF c, m, n
  <1>3. \A i \in 1..m : i \in 1..(m + n) /\ i <= m
    BY ONLY <1>2
  <1>4. \A i \in 1..n : m + i \in 1..(m + n) /\ ~(m + i <= m) /\ (m + i) - m = i
    BY ONLY <1>2
  <1>5. \A i \in 1..(m + n) : i \in 1..m \/ i - m \in 1..n
    BY ONLY <1>2
  <1>6. /\ \A i \in 1..m : c[i] = s[i]
        /\ \A i \in 1..n : c[m + i] = t[i]
    BY <1>1, <1>3, <1>4
  <1> QED
    BY <1>1, <1>2, <1>3, <1>4, <1>5, <1>6 DEF c, m, n

(* An increasing sequence is determined by its elements.                    *)
LEMMA SameStart ==
    ASSUME NEW s \in Seq(Int), NEW t \in Seq(Int),
           \A i, j \in 1..Len(s) : i < j => s[i] < s[j],
           \A i, j \in 1..Len(t) : i < j => t[i] < t[j],
           \A i \in 1..Len(s) : \E j \in 1..Len(t) : t[j] = s[i],
           \A j \in 1..Len(t) : \E i \in 1..Len(s) : s[i] = t[j]
    PROVE  \A i \in 1..Len(s) : i \in 1..Len(t) /\ t[i] = s[i]
  <1> DEFINE m == Len(s)
             n == Len(t)
             Bad == {i \in 1..m : ~(i \in 1..n /\ t[i] = s[i])}
  <1>1. /\ m \in Nat /\ n \in Nat
        /\ \A i \in 1..m : s[i] \in Int
        /\ \A j \in 1..n : t[j] \in Int
    OBVIOUS
  <1>2. \A i, j \in 1..m : i < j => s[i] < s[j]
    OBVIOUS
  <1>3. \A i, j \in 1..n : i < j => t[i] < t[j]
    OBVIOUS
  <1>4. /\ \A i \in 1..m : \E j \in 1..n : t[j] = s[i]
        /\ \A j \in 1..n : \E i \in 1..m : s[i] = t[j]
    OBVIOUS
  <1> HIDE DEF m, n
  <1>5. ASSUME NEW i \in 1..m, ~(i \in 1..n /\ t[i] = s[i]),
               \A k \in 1..m : k < i => k \in 1..n /\ t[k] = s[k]
        PROVE  FALSE
    <2>1. PICK j \in 1..n : t[j] = s[i]
      BY <1>4
    <2>2. i \in 1..m /\ j \in 1..n /\ s[i] \in Int
      BY <1>1
    <2>3. ~(j < i)
      <3> SUFFICES ASSUME j < i PROVE FALSE
        OBVIOUS
      <3>1. j \in 1..m /\ j < i
        BY ONLY <1>1, <2>2, j < i
      <3>2. t[j] = s[j]
        BY <1>5, <3>1
      <3>3. s[j] < s[i] /\ s[j] \in Int
        BY ONLY <1>1, <1>2, <2>2, <3>1
      <3> QED BY ONLY <2>1, <2>2, <3>2, <3>3
    <2>4. i \in 1..n /\ (i < j \/ i = j)
      BY ONLY <1>1, <2>2, <2>3
    <2>5. t[i] <= s[i] /\ t[i] \in Int
      BY ONLY <1>1, <1>3, <2>1, <2>2, <2>4
    <2>6. PICK k \in 1..m : s[k] = t[i]
      BY <1>4, <2>4
    <2>7. k \in 1..m
      OBVIOUS
    <2>8. ~(k < i)
      <3> SUFFICES ASSUME k < i PROVE FALSE
        OBVIOUS
      <3>1. k \in 1..n /\ t[k] = s[k] /\ k < i
        BY <1>5, <2>7
      <3>2. t[k] < t[i]
        BY ONLY <1>3, <2>4, <3>1
      <3> QED BY ONLY <2>5, <2>6, <3>1, <3>2
    <2>9. s[i] <= t[i]
      BY ONLY <1>1, <1>2, <2>2, <2>6, <2>7, <2>8
    <2>10. t[i] = s[i]
      BY ONLY <2>2, <2>5, <2>9
    <2> QED BY <1>5, <2>4, <2>10
  <1>6. \A i \in Bad : \E k \in Bad : k < i
    BY <1>5
  <1>7. Bad \in SUBSET Nat
    BY <1>1
  <1> HIDE DEF Bad
  <1>8. Bad = {}
    BY <1>6, <1>7, NoLeast
  <1> QED BY <1>8 DEF Bad, m, n

LEMMA SameElements ==
    ASSUME NEW s \in Seq(Int), NEW t \in Seq(Int),
           \A i, j \in 1..Len(s) : i < j => s[i] < s[j],
           \A i, j \in 1..Len(t) : i < j => t[i] < t[j],
           \A i \in 1..Len(s) : \E j \in 1..Len(t) : t[j] = s[i],
           \A j \in 1..Len(t) : \E i \in 1..Len(s) : s[i] = t[j]
    PROVE  s = t
  <1>1. \A i \in 1..Len(s) : i \in 1..Len(t) /\ t[i] = s[i]
    BY SameStart
  <1>2. \A j \in 1..Len(t) : j \in 1..Len(s) /\ s[j] = t[j]
    BY SameStart
  <1>3. Len(s) \in Nat /\ Len(t) \in Nat
    OBVIOUS
  <1>4. Len(s) = Len(t)
    <2>1. ~(Len(s) < Len(t))
      <3> SUFFICES ASSUME Len(s) < Len(t) PROVE FALSE
        OBVIOUS
      <3>1. Len(t) \in 1..Len(t) /\ ~(Len(t) \in 1..Len(s))
        BY ONLY <1>3, Len(s) < Len(t)
      <3> QED BY <1>2, <3>1
    <2>2. ~(Len(t) < Len(s))
      <3> SUFFICES ASSUME Len(t) < Len(s) PROVE FALSE
        OBVIOUS
      <3>1. Len(s) \in 1..Len(s) /\ ~(Len(s) \in 1..Len(t))
        BY ONLY <1>3, Len(t) < Len(s)
      <3> QED BY <1>1, <3>1
    <2> QED BY <1>3, <2>1, <2>2
  <1> QED BY <1>1, <1>4

(* A set of numbers up to n that is not empty has a greatest one.           *)
LEMMA Greatest ==
    ASSUME NEW n \in Nat, NEW S \in SUBSET (1..n), S # {}
    PROVE  \E k \in S : \A l \in S : l <= k
  <1> DEFINE T == {n - k : k \in S}
  <1> SUFFICES ASSUME \A k \in S : \E l \in S : ~(l <= k) PROVE FALSE
    OBVIOUS
  <1>1. T \in SUBSET Nat
    OBVIOUS
  <1>2. ASSUME NEW d \in T PROVE \E e \in T : e < d
    <2>1. PICK k \in S : d = n - k
      BY <1>2
    <2>2. PICK l \in S : ~(l <= k)
      OBVIOUS
    <2>3. n - l \in T /\ n - l < d
      BY <2>1, <2>2
    <2> QED BY <2>3
  <1>3. T # {}
    OBVIOUS
  <1> HIDE DEF T
  <1> QED BY <1>1, <1>2, <1>3, NoLeast

=============================================================================
