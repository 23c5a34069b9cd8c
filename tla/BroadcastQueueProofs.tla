------------------------ MODULE BroadcastQueueProofs ------------------------
(***************************************************************************)
(* Proofs about BroadcastQueue, for any set of readers and any limit.       *)
(*                                                                          *)
(* The argument: the buffer is always the stretch base+1 .. published of    *)
(* the stream (Window), every attached cursor lies in it, and the slowest   *)
(* cursor is at its start.  So what a reader has before it is the stretch   *)
(* from its own position, whatever the other readers did.                   *)
(***************************************************************************)
EXTENDS BroadcastQueue, SequenceTheorems, WellFoundedInduction, TLAPS

\* The values published at positions lo .. hi - 1.
Window(lo, hi) == [i \in 1..(hi - lo) |-> lo + i]

(* A stretch of the stream is a sequence of that length.                   *)
LEMMA WindowType ==
    ASSUME NEW lo \in Nat, NEW hi \in Nat, lo <= hi
    PROVE  /\ Window(lo, hi) \in Seq(Nat)
           /\ Len(Window(lo, hi)) = hi - lo
           /\ \A i \in 1..(hi - lo) : Window(lo, hi)[i] = lo + i
  BY DEF Window

(* Two sequences of numbers that agree with the stream are equal.          *)
LEMMA WindowUnique ==
    ASSUME NEW lo \in Nat, NEW hi \in Nat, lo <= hi, NEW s \in Seq(Nat),
           Len(s) = hi - lo, \A i \in 1..Len(s) : s[i] = lo + i
    PROVE  s = Window(lo, hi)
  <1> DEFINE w == Window(lo, hi)
  <1>1. /\ w \in Seq(Nat)
        /\ Len(w) = hi - lo
        /\ \A i \in 1..(hi - lo) : w[i] = lo + i
    BY WindowType
  <1> HIDE DEF w
  <1>2. Len(s) = Len(w) /\ \A i \in 1..Len(s) : s[i] = w[i]
    BY <1>1
  <1>3. s = w
    BY <1>1, <1>2, SeqEqual
  <1> QED
    BY <1>3 DEF w

(* Publishing extends the stretch by one.                                  *)
LEMMA WindowAppend ==
    ASSUME NEW lo \in Nat, NEW hi \in Nat, lo <= hi
    PROVE  Append(Window(lo, hi), hi + 1) = Window(lo, hi + 1)
  <1> DEFINE w == Window(lo, hi)
             s == Append(w, hi + 1)
  <1>1. /\ w \in Seq(Nat)
        /\ Len(w) = hi - lo
        /\ \A i \in 1..(hi - lo) : w[i] = lo + i
    BY WindowType
  <1> HIDE DEF w
  <1>2. s \in Seq(Nat) /\ Len(s) = (hi + 1) - lo
    BY <1>1
  <1>3. \A i \in 1..Len(s) : s[i] = lo + i
    BY <1>1, <1>2
  <1> HIDE DEF s
  <1>4. s = Window(lo, hi + 1)
    BY <1>2, <1>3, WindowUnique
  <1> QED
    BY <1>4 DEF s, w

(* Dropping d values from the front moves the start of the stretch by d.   *)
LEMMA WindowDrop ==
    ASSUME NEW lo \in Nat, NEW hi \in Nat, NEW to \in Nat, lo <= to, to <= hi
    PROVE  SubSeq(Window(lo, hi), to - lo + 1, Len(Window(lo, hi)))
             = Window(to, hi)
  <1> DEFINE w == Window(lo, hi)
             s == SubSeq(w, to - lo + 1, Len(w))
  <1>1. w \in Seq(Nat) /\ Len(w) = hi - lo
        /\ \A i \in 1..(hi - lo) : w[i] = lo + i
    BY WindowType
  <1> HIDE DEF w
  <1>2. \A i \in (to - lo + 1)..Len(w) : w[i] \in Nat
    BY <1>1
  <1>3. /\ s \in Seq(Nat)
        /\ Len(s) = IF to - lo + 1 <= Len(w) THEN Len(w) - (to - lo + 1) + 1 ELSE 0
        /\ \A i \in 1..(Len(w) - (to - lo + 1) + 1) : s[i] = w[(to - lo + 1) + i - 1]
    BY <1>1, <1>2, SubSeqProperties
  <1> HIDE DEF s
  <1>4. Len(s) = hi - to
    BY <1>1, <1>3
  <1>5. \A i \in 1..Len(s) : s[i] = to + i
    BY <1>1, <1>3, <1>4
  <1>6. s = Window(to, hi)
    BY <1>3, <1>4, <1>5, WindowUnique
  <1> QED
    BY <1>6 DEF s, w

(* Reading the first value of a non-empty stretch.                         *)
LEMMA WindowHeadTail ==
    ASSUME NEW lo \in Nat, NEW hi \in Nat, lo < hi
    PROVE  /\ Window(lo, hi) # <<>>
           /\ Head(Window(lo, hi)) = lo + 1
           /\ Tail(Window(lo, hi)) = Window(lo + 1, hi)
  <1> DEFINE w == Window(lo, hi)
  <1>1. w \in Seq(Nat) /\ Len(w) = hi - lo
        /\ \A i \in 1..(hi - lo) : w[i] = lo + i
    BY WindowType
  <1>2. Window(lo + 1, hi) = SubSeq(w, 2, Len(w))
    <2>1. SubSeq(w, (lo + 1) - lo + 1, Len(w)) = Window(lo + 1, hi)
      BY WindowDrop, lo + 1 \in Nat, lo <= lo + 1, lo + 1 <= hi
    <2> HIDE DEF w
    <2>2. (lo + 1) - lo + 1 = 2
      OBVIOUS
    <2> QED
      BY <2>1, <2>2
  <1> HIDE DEF w
  <1>3. w # <<>> /\ Head(w) = w[1]
    BY <1>1
  <1>4. Tail(w) = SubSeq(w, 2, Len(w))
    BY <1>1, <1>3, TailIsSubSeq
  <1>5. w[1] = lo + 1
    BY <1>1
  <1>6. w # <<>> /\ Head(w) = lo + 1 /\ Tail(w) = Window(lo + 1, hi)
    BY <1>2, <1>3, <1>4, <1>5
  <1> QED
    BY <1>6 DEF w

(* An empty stretch.                                                       *)
LEMMA WindowEmpty ==
    ASSUME NEW lo \in Nat
    PROVE  Window(lo, lo) = <<>>
  BY WindowType, EmptySeq

(* A non-empty set of numbers has a least element.                         *)
LEMMA LeastExists ==
    ASSUME NEW S \in SUBSET Nat, S # {}
    PROVE  \E m \in S : IsMin(m, S)
  <1> DEFINE R == OpToRel(<, Nat)
  <1>1. \A n, m \in Nat : n < m => <<n, m>> \in R
    BY DEF OpToRel
  <1>2. IsWellFoundedOn(R, Nat)
    BY NatLessThanWellFounded
  <1> HIDE DEF R
  <1>3. PICK m \in S : \A n \in S : ~(<<n, m>> \in R)
    BY <1>2, WFMin
  <1>4. \A n \in S : n \in Nat /\ m \in Nat /\ ~(n < m)
    BY <1>1, <1>3
  <1>5. \A n \in S : m <= n
    BY <1>4
  <1> QED
    BY <1>5 DEF IsMin

(* trim() moves the base forward, past no cursor, and up to the slowest    *)
(* one (or to the end when there is none).                                 *)
LEMMA TrimBaseBounds ==
    ASSUME NEW cursors \in SUBSET Readers, NEW pos \in [Readers -> Nat],
           NEW b \in Nat, NEW end \in Nat, b <= end,
           \A r \in cursors : b <= pos[r] /\ pos[r] <= end
    PROVE  /\ TrimBase(cursors, pos, b, end) \in Nat
           /\ b <= TrimBase(cursors, pos, b, end)
           /\ TrimBase(cursors, pos, b, end) <= end
           /\ \A r \in cursors : TrimBase(cursors, pos, b, end) <= pos[r]
           /\ TrimBase(cursors, pos, b, end) # end =>
                 \E r \in cursors : pos[r] = TrimBase(cursors, pos, b, end)
  <1>1. CASE cursors = {}
    BY <1>1 DEF TrimBase
  <1>2. CASE cursors # {}
    <2> DEFINE S == {pos[r] : r \in cursors}
               minPos == CHOOSE m \in S : IsMin(m, S)
    <2>1. S \in SUBSET Nat /\ S # {}
      BY <1>2
    <2>2. minPos \in S /\ IsMin(minPos, S)
      BY <2>1, LeastExists
    <2>3. TrimBase(cursors, pos, b, end) = IF minPos > b THEN minPos ELSE b
      BY <1>2 DEF TrimBase
    <2>4. PICK r \in cursors : minPos = pos[r]
      BY <2>2
    <2>5. \A q \in cursors : minPos <= pos[q]
      BY <2>2 DEF IsMin
    <2> HIDE DEF minPos, S
    <2>6. minPos = TrimBase(cursors, pos, b, end)
      BY <2>3, <2>4
    <2> QED
      BY <2>4, <2>5, <2>6
  <1> QED
    BY <1>1, <1>2

-----------------------------------------------------------------------------
(* The inductive invariant.                                                *)

\* A parked call is counted, so resolving it never counts below zero.
WaiterCounted == \A r \in Attached : waiter[r] => outstanding[r] >= 1

\* A reader that was not created has no position, no call and no history.
Fresh ==
    \A r \in Readers : status[r] = "none" =>
       position[r] = 0 /\ ~waiter[r] /\ ~ended[r] /\ delivered[r] = <<>>

IInv ==
    /\ TypeOK
    /\ WindowOfStream
    /\ CursorInWindow
    /\ SlowestBacklog
    /\ ParkedHasNothing
    /\ WaiterCounted
    /\ Fresh
    /\ InOrderNoDuplicate
    /\ DrainedBeforeEnd

(* The buffer is the stretch of the stream from base.                      *)
LEMMA BufferIsWindow ==
    ASSUME TypeOK, WindowOfStream
    PROVE  /\ base \in Nat /\ published \in Nat /\ base <= published
           /\ Len(buffer) = published - base
           /\ buffer = Window(base, published)
  <1>1. Len(buffer) \in Nat /\ base \in Nat /\ published \in Nat
    BY LenProperties DEF TypeOK
  <1>2. base <= published /\ Len(buffer) = published - base
    BY <1>1 DEF WindowOfStream, End
  <1>3. buffer \in Seq(Nat) /\ \A i \in 1..Len(buffer) : buffer[i] = base + i
    BY DEF TypeOK, WindowOfStream
  <1>4. buffer = Window(base, published)
    BY <1>1, <1>2, <1>3, WindowUnique
  <1> QED
    BY <1>1, <1>2, <1>4

(* What trim() makes of a stretch of the stream.                           *)
LEMMA TrimWindow ==
    ASSUME NEW cursors \in SUBSET Readers, NEW pos \in [Readers -> Nat],
           NEW b \in Nat, NEW end \in Nat, b <= end,
           \A r \in cursors : b <= pos[r] /\ pos[r] <= end,
           Trim(cursors, pos, b, Window(b, end))
    PROVE  /\ base' \in Nat /\ b <= base' /\ base' <= end
           /\ buffer' = Window(base', end)
           /\ buffer' \in Seq(Nat) /\ Len(buffer') = end - base'
           /\ \A i \in 1..Len(buffer') : buffer'[i] = base' + i
           /\ \A r \in cursors : base' <= pos[r]
           /\ base' # end => \E r \in cursors : pos[r] = base'
  <1>1. Len(Window(b, end)) = end - b
    BY WindowType
  <1>2. b + Len(Window(b, end)) = end
    BY <1>1
  <1>3. /\ base' = TrimBase(cursors, pos, b, end)
        /\ buffer' = SubSeq(Window(b, end), base' - b + 1, Len(Window(b, end)))
    BY <1>2 DEF Trim
  <1>4. /\ base' \in Nat /\ b <= base' /\ base' <= end
        /\ \A r \in cursors : base' <= pos[r]
        /\ base' # end => \E r \in cursors : pos[r] = base'
    BY <1>3, TrimBaseBounds
  <1>5. buffer' = Window(base', end)
    BY <1>3, <1>4, WindowDrop
  <1>6. /\ buffer' \in Seq(Nat) /\ Len(buffer') = end - base'
        /\ \A i \in 1..(end - base') : buffer'[i] = base' + i
    BY <1>4, <1>5, WindowType
  <1> QED
    BY <1>4, <1>5, <1>6

\* Where publish() leaves the window and the cursors: the window starts at b
\* before trimming, and woken are the readers it hands the new value.
Published(b, woken) ==
    /\ b \in Nat /\ base <= b /\ b <= published + 1
    /\ (published + 1) - b <= BufferLimit
    /\ b # base => b = base + 1 /\ Len(buffer) = BufferLimit
    /\ woken = {r \in Attached : waiter[r] /\ b <= published}
    /\ position' \in [Readers -> Nat]
    /\ \A r \in Readers : position'[r] =
          IF r \in woken THEN published + 1
          ELSE IF r \in Attached /\ position[r] < b THEN b ELSE position[r]
    /\ waiter' = [r \in Readers |-> waiter[r] /\ r \notin woken]
    /\ outstanding' = [r \in Readers |->
           IF r \in woken THEN outstanding[r] - 1 ELSE outstanding[r]]
    /\ delivered' = [r \in Readers |->
           IF r \in woken THEN Append(delivered[r], published + 1)
           ELSE delivered[r]]
    /\ Trim(Attached, position', b, Window(b, published + 1))

(* publish() in terms of the stream.                                       *)
LEMMA PublishFacts ==
    ASSUME IInv, Publish
    PROVE  \E b, woken : Published(b, woken)
  <1> DEFINE p1     == published + 1
             pushed == Append(buffer, p1)
             drop   == Overflow(Len(pushed))
             kept   == SubSeq(pushed, drop + 1, Len(pushed))
             b      == base + drop
             pos    == FastForward(b)
             woken  == Woken(pos, b + Len(kept) - 1)
             after  == [r \in Readers |-> IF r \in woken THEN pos[r] + 1
                                                         ELSE pos[r]]
  <1>1. /\ position' = after
        /\ waiter' = [r \in Readers |-> waiter[r] /\ r \notin woken]
        /\ outstanding' = [r \in Readers |->
               IF r \in woken THEN outstanding[r] - 1 ELSE outstanding[r]]
        /\ delivered' = [r \in Readers |->
               IF r \in woken
               THEN Append(delivered[r], kept[pos[r] - b + 1])
               ELSE delivered[r]]
        /\ Trim(Attached, after, b, kept)
    BY Zenon DEF Publish
  <1>2. /\ base \in Nat /\ published \in Nat /\ base <= published
        /\ Len(buffer) = published - base /\ buffer = Window(base, published)
    BY BufferIsWindow DEF IInv
  <1>3. pushed = Window(base, p1) /\ Len(pushed) = p1 - base
    <2>1. pushed = Window(base, p1)
      BY <1>2, WindowAppend
    <2>2. Len(Window(base, p1)) = p1 - base
      BY <1>2, WindowType
    <2> QED
      BY <2>1, <2>2
  <1> HIDE DEF pushed
  <1>4. Len(buffer) <= BufferLimit /\ BufferLimit \in Nat
    BY LimitAssumption DEF IInv, SlowestBacklog
  <1>5. /\ drop \in Nat /\ b \in Nat /\ base <= b /\ b <= p1
        /\ drop + 1 = b - base + 1 /\ p1 \in Nat
        /\ p1 - b <= BufferLimit
        /\ b # base => b = base + 1 /\ Len(buffer) = BufferLimit
    BY <1>2, <1>3, <1>4 DEF Overflow
  <1> HIDE DEF drop, b, p1
  <1>6. kept = Window(b, p1)
    <2>1. SubSeq(Window(base, p1), b - base + 1, Len(Window(base, p1)))
            = Window(b, p1)
      BY <1>2, <1>5, WindowDrop
    <2> QED
      BY <1>3, <1>5, <2>1
  <1>7. /\ Len(kept) = p1 - b
        /\ \A i \in 1..(p1 - b) : kept[i] = b + i
    <2>1. /\ Len(Window(b, p1)) = p1 - b
          /\ \A i \in 1..(p1 - b) : Window(b, p1)[i] = b + i
      BY <1>2, <1>5, WindowType
    <2> QED
      BY <1>6, <2>1, Zenon
  <1> HIDE DEF kept
  <1> USE DEF p1
  <1>8. b + Len(kept) - 1 = published
    BY <1>2, <1>5, <1>7
  <1>9. /\ pos \in [Readers -> Nat]
        /\ \A r \in Readers : pos[r] =
              IF r \in Attached /\ position[r] < b THEN b ELSE position[r]
    BY <1>5 DEF FastForward, IInv, TypeOK
  <1> HIDE DEF pos
  <1>10. \A r \in Attached : waiter[r] => position[r] = published
    BY DEF IInv, ParkedHasNothing, WindowOfStream
  <1>11. \A r \in Attached : waiter[r] => pos[r] = IF b <= published THEN published ELSE b
    BY <1>2, <1>5, <1>9, <1>10 DEF Attached
  <1>12. woken = {r \in Attached : waiter[r] /\ b <= published}
    <2>1. woken = {r \in Attached : waiter[r] /\ pos[r] <= published}
      BY <1>8 DEF Woken
    <2>2. \A r \in Attached : waiter[r] => (pos[r] <= published <=> b <= published)
      <3> SUFFICES ASSUME NEW r \in Attached, waiter[r]
                   PROVE  pos[r] <= published <=> b <= published
        OBVIOUS
      <3>1. pos[r] = IF b <= published THEN published ELSE b
        BY <1>11
      <3>2. published \in Nat /\ b \in Nat
        BY <1>2, <1>5
      <3> QED
        BY <3>1, <3>2
    <2> QED
      BY <2>1, <2>2
  <1> HIDE DEF woken
  <1>13. \A r \in woken : pos[r] = published /\ kept[pos[r] - b + 1] = p1
    <2> SUFFICES ASSUME NEW r \in woken
                 PROVE  pos[r] = published /\ kept[pos[r] - b + 1] = p1
      OBVIOUS
    <2>1. pos[r] = published /\ b <= published
      BY <1>11, <1>12
    <2>2. pos[r] - b + 1 \in 1..(p1 - b) /\ b + (pos[r] - b + 1) = p1
      BY <1>2, <1>5, <2>1
    <2> QED
      BY <1>7, <2>1, <2>2
  <1>14. /\ after \in [Readers -> Nat]
         /\ \A r \in Readers : after[r] =
               IF r \in woken THEN p1
               ELSE IF r \in Attached /\ position[r] < b THEN b ELSE position[r]
    BY <1>2, <1>9, <1>13
  <1> HIDE DEF after
  <1>15. delivered' = [r \in Readers |->
               IF r \in woken THEN Append(delivered[r], p1) ELSE delivered[r]]
    BY <1>1, <1>13
  <1>16. Trim(Attached, position', b, Window(b, p1))
    BY <1>1, <1>6
  <1>17. /\ position' \in [Readers -> Nat]
         /\ \A r \in Readers : position'[r] =
               IF r \in woken THEN p1
               ELSE IF r \in Attached /\ position[r] < b THEN b ELSE position[r]
    BY <1>1, <1>14, Zenon
  <1>18. /\ b \in Nat /\ base <= b /\ b <= published + 1
         /\ (published + 1) - b <= BufferLimit
         /\ b # base => b = base + 1 /\ Len(buffer) = BufferLimit
    BY <1>5
  <1>19. Published(b, woken)
    BY <1>1, <1>12, <1>15, <1>16, <1>17, <1>18, Zenon DEF Published
  <1> QED
    BY <1>19

(* Appending a value beyond a reader's position keeps its history in order. *)
LEMMA DeliveryInOrder ==
    ASSUME NEW d \in Seq(Nat), NEW p \in Nat, NEW v \in Nat, p < v,
           \A i, j \in DOMAIN d : i < j => d[i] < d[j],
           \A i \in DOMAIN d : d[i] <= p
    PROVE  /\ Append(d, v) \in Seq(Nat)
           /\ \A i, j \in DOMAIN Append(d, v) :
                 i < j => Append(d, v)[i] < Append(d, v)[j]
           /\ \A i \in DOMAIN Append(d, v) : Append(d, v)[i] <= v
  <1> DEFINE e == Append(d, v)
  <1>1. /\ e \in Seq(Nat) /\ Len(e) = Len(d) + 1 /\ DOMAIN e = 1..Len(e)
        /\ DOMAIN d = 1..Len(d) /\ Len(d) \in Nat
        /\ e[Len(d) + 1] = v
        /\ \A i \in 1..Len(d) : e[i] = d[i] /\ d[i] \in Nat
    OBVIOUS
  <1> HIDE DEF e
  <1>2. \A i \in DOMAIN e : e[i] <= v
    BY <1>1
  <1>3. \A i, j \in DOMAIN e : i < j => e[i] < e[j]
    <2> SUFFICES ASSUME NEW i \in DOMAIN e, NEW j \in DOMAIN e, i < j
                 PROVE  e[i] < e[j]
      OBVIOUS
    <2>1. i \in 1..Len(d) /\ e[i] = d[i] /\ d[i] <= p /\ d[i] \in Nat
      BY <1>1
    <2>2. CASE j = Len(d) + 1
      BY <1>1, <2>1, <2>2
    <2>3. CASE j \in 1..Len(d)
      BY <1>1, <2>1, <2>3
    <2> QED
      BY <1>1, <2>2, <2>3
  <1> QED
    BY <1>1, <1>2, <1>3 DEF e

LEMMA InitInv == Init => IInv
  <1> SUFFICES ASSUME Init PROVE IInv
    OBVIOUS
  <1>1. Attached = {}
    BY DEF Init, Attached
  <1>2. TypeOK
    BY EmptySeq DEF Init, TypeOK
  <1>3. WindowOfStream /\ SlowestBacklog
    BY LimitAssumption DEF Init, WindowOfStream, End, SlowestBacklog
  <1>4. InOrderNoDuplicate /\ Fresh
    BY DEF Init, InOrderNoDuplicate, Fresh
  <1> QED
    BY <1>1, <1>2, <1>3, <1>4 DEF IInv, CursorInWindow, ParkedHasNothing,
       WaiterCounted, DrainedBeforeEnd

LEMMA PublishInv ==
    ASSUME IInv, Publish
    PROVE  IInv'
  <1> DEFINE p1 == published + 1
  <1>1. PICK b, woken : Published(b, woken)
    BY PublishFacts
  <1>2. /\ published' = p1 /\ closed' = closed /\ status' = status
        /\ ended' = ended /\ ~closed
    BY DEF Publish, CanPublish
  <1>3. Attached' = Attached /\ woken \subseteq Attached /\ Attached \subseteq Readers
    BY <1>1, <1>2 DEF Attached, Published
  <1>4. /\ base \in Nat /\ published \in Nat /\ base <= published
        /\ p1 \in Nat /\ p1 = published + 1 /\ Len(buffer) = published - base
    BY BufferIsWindow DEF IInv
  <1>5. /\ b \in Nat /\ b <= p1 /\ p1 - b <= BufferLimit /\ base <= b
        /\ position' \in [Readers -> Nat]
        /\ Trim(Attached, position', b, Window(b, p1))
    BY <1>1 DEF Published
  <1>6. \A r \in Attached : /\ base <= position[r] /\ position[r] <= published
                            /\ position[r] \in Nat
    BY <1>3 DEF IInv, CursorInWindow, WindowOfStream, TypeOK
  <1>7. \A r \in Attached : /\ b <= position'[r] /\ position'[r] <= p1
                            /\ position[r] <= position'[r]
    <2> SUFFICES ASSUME NEW r \in Attached
                 PROVE  /\ b <= position'[r] /\ position'[r] <= p1
                        /\ position[r] <= position'[r]
      OBVIOUS
    <2>1. position'[r] = IF r \in woken THEN p1
                         ELSE IF position[r] < b THEN b ELSE position[r]
      BY <1>1, <1>3 DEF Published
    <2> QED
      BY <1>4, <1>5, <1>6, <2>1
  <1> HIDE DEF p1
  <1>8. /\ base' \in Nat /\ b <= base' /\ base' <= p1
        /\ buffer' \in Seq(Nat) /\ Len(buffer') = p1 - base'
        /\ \A i \in 1..Len(buffer') : buffer'[i] = base' + i
        /\ \A r \in Attached : base' <= position'[r]
        /\ base' # p1 => \E r \in Attached : position'[r] = base'
    BY <1>3, <1>4, <1>5, <1>7, TrimWindow
  <1>end. base' + Len(buffer') = p1
    <2>1. \A n \in Nat : n + (p1 - n) = p1
      BY <1>4
    <2> QED
      BY <1>8, <2>1, Zenon
  <1>9. \A r \in woken : /\ position[r] = published /\ position'[r] = p1
                         /\ waiter[r] /\ outstanding[r] >= 1
    BY <1>1, <1>3, <1>4 DEF Published, IInv, ParkedHasNothing, WaiterCounted,
       WindowOfStream
  <1>10. delivered' = [r \in Readers |->
             IF r \in woken THEN Append(delivered[r], p1) ELSE delivered[r]]
    BY <1>1, <1>4 DEF Published
  <1>11. \A r \in Readers :
            /\ delivered[r] \in Seq(Nat)
            /\ \A i, j \in DOMAIN delivered[r] :
                  i < j => delivered[r][i] < delivered[r][j]
            /\ \A i \in DOMAIN delivered[r] :
                  delivered[r][i] <= position[r]
    BY DEF IInv, InOrderNoDuplicate, TypeOK
  <1>12. \A r \in Readers : position[r] \in Nat /\ position'[r] \in Nat /\ position[r] <= position'[r]
    <2> SUFFICES ASSUME NEW r \in Readers, r \notin Attached
                 PROVE  position'[r] = position[r]
      BY <1>5, <1>7 DEF IInv, TypeOK
    <2> QED
      BY <1>1, <1>3 DEF Published
  <1>13. /\ InOrderNoDuplicate'
         /\ delivered' \in [Readers -> Seq(Nat)]
    <2> SUFFICES ASSUME NEW r \in Readers
                 PROVE  /\ delivered'[r] \in Seq(Nat)
                        /\ \A i, j \in DOMAIN delivered'[r] :
                              i < j => delivered'[r][i] < delivered'[r][j]
                        /\ \A i \in DOMAIN delivered'[r] :
                              delivered'[r][i] <= position'[r]
      BY <1>10 DEF InOrderNoDuplicate
    <2>1. CASE r \in woken
      <3>1. delivered'[r] = Append(delivered[r], p1)
        BY <1>10, <2>1
      <3>2. position[r] \in Nat /\ position[r] < p1 /\ position'[r] = p1
        BY <1>4, <1>9, <1>12, <2>1
      <3> QED
        BY <1>4, <1>11, <3>1, <3>2, DeliveryInOrder
    <2>2. CASE r \notin woken
      <3>1. delivered'[r] = delivered[r]
        BY <1>10, <2>2
      <3>2. \A i \in DOMAIN delivered[r] : delivered[r][i] <= position'[r]
        <4>1. \A i \in DOMAIN delivered[r] : delivered[r][i] \in Nat
          BY <1>11
        <4> QED
          BY <1>11, <1>12, <4>1
      <3> QED
        BY <1>11, <3>1, <3>2
    <2> QED
      BY <2>1, <2>2
  <1>14. outstanding' \in [Readers -> Nat]
    BY <1>1, <1>9 DEF Published, IInv, TypeOK
  <1>15. waiter' \in [Readers -> BOOLEAN]
    BY <1>1 DEF Published, IInv, TypeOK
  <1>16. TypeOK'
    BY <1>2, <1>4, <1>5, <1>8, <1>13, <1>14, <1>15 DEF IInv, TypeOK
  <1>17. WindowOfStream'
    BY <1>2, <1>8, <1>end, Zenon DEF WindowOfStream, End
  <1>18. CursorInWindow'
    BY <1>3, <1>7, <1>8, <1>end, Zenon DEF CursorInWindow, End
  <1>19. SlowestBacklog'
    <2>1. Len(buffer') <= BufferLimit
      <3>1. \A n \in Nat : b <= n => p1 - n <= BufferLimit
        BY <1>4, <1>5, LimitAssumption
      <3> QED
        BY <1>8, <3>1, Zenon
    <2>2. buffer' # <<>> => base' # p1
      BY <1>4, <1>8
    <2> QED
      BY <1>3, <1>8, <2>1, <2>2 DEF SlowestBacklog
  <1>20. ParkedHasNothing' /\ WaiterCounted'
    <2> SUFFICES ASSUME NEW r \in Attached, waiter'[r]
                 PROVE  /\ position'[r] = End' /\ ~closed'
                        /\ outstanding'[r] >= 1
      BY <1>3 DEF ParkedHasNothing, WaiterCounted
    <2>1. r \notin woken /\ waiter[r] /\ ~(b <= published)
      BY <1>1, <1>3 DEF Published
    <2>2. position'[r] = p1
      <3>1. position'[r] = IF position[r] < b THEN b ELSE position[r]
        BY <1>1, <1>3, <2>1 DEF Published
      <3>2. position[r] = published
        BY <1>4, <2>1 DEF IInv, ParkedHasNothing, WindowOfStream
      <3>3. published < b
        BY <1>4, <1>5, <2>1
      <3>4. b = p1
        BY <1>4, <1>5, <3>3
      <3> QED
        BY <3>1, <3>2, <3>3, <3>4
    <2>3. outstanding'[r] = outstanding[r] /\ outstanding[r] >= 1
      BY <1>1, <1>3, <2>1 DEF Published, IInv, WaiterCounted
    <2> QED
      BY <1>2, <1>end, <2>2, <2>3, Zenon DEF End
  <1>21. Fresh'
    <2> SUFFICES ASSUME NEW r \in Readers, status[r] = "none"
                 PROVE  /\ position'[r] = 0 /\ ~waiter'[r] /\ ~ended'[r]
                        /\ delivered'[r] = <<>>
      BY <1>2 DEF Fresh
    <2>1. r \notin Attached
      BY DEF Attached
    <2>2. position'[r] = 0
      BY <1>1, <1>3, <2>1 DEF Published, IInv, Fresh
    <2>3. delivered'[r] = <<>>
      BY <1>3, <1>10, <2>1 DEF IInv, Fresh
    <2>4. ~waiter'[r] /\ ~ended'[r]
      BY <1>1, <1>2 DEF Published, IInv, Fresh
    <2> QED
      BY <2>2, <2>3, <2>4
  <1>22. DrainedBeforeEnd'
    BY <1>2, <1>3 DEF IInv, DrainedBeforeEnd
  <1> QED
    BY <1>13, <1>16, <1>17, <1>18, <1>19, <1>20, <1>21, <1>22 DEF IInv

LEMMA CloseInv ==
    ASSUME IInv, Close
    PROVE  IInv'
  <1>1. /\ buffer' = buffer /\ base' = base /\ status' = status
        /\ position' = position /\ published' = published
        /\ delivered' = delivered /\ closed' = TRUE
        /\ waiter' = [r \in Readers |-> waiter[r] /\ r \notin Drained]
        /\ outstanding' = [r \in Readers |->
              IF r \in Drained THEN outstanding[r] - 1 ELSE outstanding[r]]
        /\ ended' = [r \in Readers |-> ended[r] \/ r \in Drained]
    BY DEF Close
  <1>2. Attached' = Attached /\ End' = End
    BY <1>1 DEF Attached, End
  <1>3. \A r \in Attached : waiter[r] => r \in Drained /\ position[r] = End
    BY BufferIsWindow DEF IInv, ParkedHasNothing, Drained, End, TypeOK, Attached
  <1>4. \A r \in Drained : r \in Attached /\ waiter[r] /\ outstanding[r] >= 1
    BY DEF Drained, IInv, WaiterCounted
  <1>5. TypeOK'
    BY <1>1, <1>4 DEF IInv, TypeOK
  <1>6. ParkedHasNothing' /\ WaiterCounted'
    BY <1>1, <1>2, <1>3 DEF ParkedHasNothing, WaiterCounted, Attached
  <1>7. DrainedBeforeEnd'
    BY <1>1, <1>2, <1>3, <1>4 DEF DrainedBeforeEnd, IInv, Attached
  <1>8. /\ WindowOfStream' /\ CursorInWindow' /\ SlowestBacklog'
        /\ InOrderNoDuplicate'
    BY <1>1, <1>2 DEF IInv, WindowOfStream, CursorInWindow, SlowestBacklog,
       InOrderNoDuplicate
  <1>9. Fresh'
    BY <1>1, <1>4 DEF IInv, Fresh, Attached
  <1> QED
    BY <1>5, <1>6, <1>7, <1>8, <1>9 DEF IInv

LEMMA ReaderInv ==
    ASSUME IInv, NEW q \in Readers, Reader(q)
    PROVE  IInv'
  <1>1. /\ buffer' = buffer /\ base' = base /\ closed' = closed
        /\ waiter' = waiter /\ published' = published
        /\ outstanding' = outstanding /\ delivered' = delivered /\ ended' = ended
        /\ status[q] = "none" /\ position' = [position EXCEPT ![q] = End]
        /\ status' = [status EXCEPT ![q] = IF closed THEN "detached" ELSE "attached"]
    BY DEF Reader, callVars
  <1>2. /\ base \in Nat /\ published \in Nat /\ base <= published
        /\ End = published /\ position[q] = 0
        /\ ~waiter[q] /\ ~ended[q] /\ delivered[q] = <<>>
    BY <1>1, BufferIsWindow DEF IInv, WindowOfStream, Fresh
  <1>3. \A r \in Readers \ {q} : position'[r] = position[r] /\ status'[r] = status[r]
    BY <1>1 DEF IInv, TypeOK
  <1>4. position'[q] = published /\ status'[q] = IF closed THEN "detached" ELSE "attached"
    BY <1>1, <1>2 DEF IInv, TypeOK
  <1>5. Attached \subseteq Attached' /\ Attached' \subseteq Attached \cup {q}
        /\ (q \in Attached' => ~closed) /\ q \notin Attached
    BY <1>1, <1>3, <1>4 DEF Attached
  <1>6. End' = End
    BY <1>1 DEF End
  <1>7. TypeOK'
    BY <1>1, <1>2 DEF IInv, TypeOK
  <1>8. WindowOfStream' /\ CursorInWindow' /\ SlowestBacklog'
    <2>1. WindowOfStream'
      BY <1>1, <1>6 DEF IInv, WindowOfStream
    <2>2. CursorInWindow'
      BY <1>1, <1>2, <1>3, <1>4, <1>5, <1>6 DEF IInv, CursorInWindow, Attached
    <2>3. SlowestBacklog'
      <3>1. \A r \in Attached : position'[r] = position[r]
        BY <1>3, <1>5 DEF Attached
      <3> QED
        BY <1>1, <1>5, <3>1 DEF IInv, SlowestBacklog
    <2> QED
      BY <2>1, <2>2, <2>3
  <1>9. ParkedHasNothing' /\ DrainedBeforeEnd' /\ WaiterCounted'
    <2>1. \A r \in Attached' : (r \in Attached /\ position'[r] = position[r]) \/ r = q
      BY <1>3, <1>5 DEF Attached
    <2> QED
      BY <1>1, <1>2, <1>4, <1>5, <1>6, <2>1 DEF IInv, ParkedHasNothing,
         DrainedBeforeEnd, WaiterCounted
  <1>10. Fresh'
    BY <1>1, <1>3, <1>4 DEF IInv, Fresh
  <1>11. InOrderNoDuplicate'
    BY <1>1, <1>2, <1>3 DEF IInv, InOrderNoDuplicate
  <1> QED
    BY <1>7, <1>8, <1>9, <1>10, <1>11 DEF IInv

LEMMA NextValueInv ==
    ASSUME IInv, NEW q \in Readers, NextValue(q)
    PROVE  IInv'
  <1>1. /\ closed' = closed /\ status' = status /\ waiter' = waiter
        /\ published' = published /\ outstanding' = outstanding /\ ended' = ended
        /\ q \in Attached /\ HasValue(q)
        /\ position' = [position EXCEPT ![q] = position[q] + 1]
        /\ delivered' = [delivered EXCEPT
              ![q] = Append(delivered[q], buffer[position[q] - base + 1])]
        /\ Trim(Attached, position', base, buffer)
    BY DEF NextValue
  <1>2. /\ base \in Nat /\ published \in Nat /\ base <= published
        /\ Len(buffer) = published - base /\ buffer = Window(base, published)
        /\ \A i \in 1..Len(buffer) : buffer[i] = base + i
    BY BufferIsWindow DEF IInv, WindowOfStream
  <1>3. /\ position[q] \in Nat /\ base <= position[q] /\ position[q] < published
        /\ \A r \in Readers : position[r] \in Nat
    <2>1. \A r \in Readers : position[r] \in Nat
      BY DEF IInv, TypeOK
    <2>2. position[q] - base >= 0 /\ position[q] - base < Len(buffer)
      BY <1>1 DEF HasValue
    <2>3. Len(buffer) = published - base /\ base \in Nat /\ published \in Nat
      BY <1>2
    <2> QED
      BY <2>1, <2>2, <2>3
  <1>4. buffer[position[q] - base + 1] = position[q] + 1
    <2>1. position[q] - base + 1 \in 1..Len(buffer)
      BY <1>2, <1>3
    <2> QED
      BY <1>2, <1>3, <2>1
  <1>5. Attached' = Attached /\ Attached \subseteq Readers
    BY <1>1 DEF Attached
  <1>6. /\ position' \in [Readers -> Nat]
        /\ \A r \in Readers : position'[r] =
              IF r = q THEN position[q] + 1 ELSE position[r]
    BY <1>1, <1>3 DEF IInv, TypeOK
  <1>7. \A r \in Attached : base <= position[r] /\ position[r] <= published
    BY DEF IInv, CursorInWindow, WindowOfStream
  <1>8. \A r \in Attached : base <= position'[r] /\ position'[r] <= published
    BY <1>2, <1>3, <1>5, <1>6, <1>7
  <1>9. /\ base' \in Nat /\ base <= base' /\ base' <= published
        /\ buffer' \in Seq(Nat) /\ Len(buffer') = published - base'
        /\ \A i \in 1..Len(buffer') : buffer'[i] = base' + i
        /\ \A r \in Attached : base' <= position'[r]
        /\ base' # published => \E r \in Attached : position'[r] = base'
    <2>1. Trim(Attached, position', base, Window(base, published))
      BY <1>1, <1>2
    <2> QED
      BY <1>2, <1>5, <1>6, <1>8, <2>1, TrimWindow
  <1>10. base' + Len(buffer') = published
    <2>1. \A n \in Nat : n + (published - n) = published
      BY <1>2
    <2> QED
      BY <1>9, <2>1, Zenon
  <1>11. WindowOfStream' /\ CursorInWindow'
    BY <1>1, <1>5, <1>8, <1>9, <1>10, Zenon DEF WindowOfStream, CursorInWindow, End
  <1>12. SlowestBacklog'
    <2>1. \A n \in Nat : base <= n => published - n <= Len(buffer)
      BY <1>2
    <2>2. Len(buffer') <= Len(buffer)
      BY <1>9, <2>1, Zenon
    <2>3. Len(buffer') \in Nat /\ Len(buffer) \in Nat /\ Len(buffer) <= BufferLimit
      BY <1>9, LenProperties DEF IInv, SlowestBacklog, TypeOK
    <2>4. Len(buffer') <= BufferLimit
      BY <2>2, <2>3, LimitAssumption
    <2>5. buffer' # <<>> => base' # published
      BY <1>2, <1>9
    <2> QED
      BY <1>5, <1>9, <2>4, <2>5 DEF SlowestBacklog
  <1>13. \A r \in Attached : waiter[r] => r # q /\ position'[r] = published
    <2> SUFFICES ASSUME NEW r \in Attached, waiter[r]
                 PROVE  r # q /\ position'[r] = published
      OBVIOUS
    <2>1. position[r] = published
      BY DEF IInv, ParkedHasNothing, WindowOfStream
    <2> QED
      BY <1>3, <1>5, <1>6, <2>1
  <1>14. ParkedHasNothing' /\ WaiterCounted'
    BY <1>1, <1>5, <1>10, <1>13, Zenon DEF ParkedHasNothing, WaiterCounted, IInv, End
  <1>15. DrainedBeforeEnd'
    <2> SUFFICES ASSUME NEW r \in Attached, ended[r]
                 PROVE  closed /\ position'[r] = base' + Len(buffer')
      BY <1>1, <1>5, Zenon DEF DrainedBeforeEnd, End
    <2>1. closed /\ position[r] = published
      BY DEF IInv, DrainedBeforeEnd, WindowOfStream
    <2> QED
      BY <1>3, <1>5, <1>6, <1>10, <2>1
  <1>16. InOrderNoDuplicate' /\ delivered' \in [Readers -> Seq(Nat)]
    <2>1. \A r \in Readers :
            /\ delivered[r] \in Seq(Nat)
            /\ \A i, j \in DOMAIN delivered[r] :
                  i < j => delivered[r][i] < delivered[r][j]
            /\ \A i \in DOMAIN delivered[r] : delivered[r][i] <= position[r]
      BY DEF IInv, InOrderNoDuplicate, TypeOK
    <2>2. delivered' = [delivered EXCEPT ![q] = Append(delivered[q], position[q] + 1)]
      BY <1>1, <1>4
    <2>3. \A r \in Readers : delivered'[r] =
             IF r = q THEN Append(delivered[q], position[q] + 1) ELSE delivered[r]
      BY <2>2 DEF IInv, TypeOK
    <2>4. delivered' \in [Readers -> Seq(Nat)]
      BY <1>3, <2>2 DEF IInv, TypeOK
    <2>5. ASSUME NEW r \in Readers
          PROVE  /\ \A i, j \in DOMAIN delivered'[r] :
                       i < j => delivered'[r][i] < delivered'[r][j]
                 /\ \A i \in DOMAIN delivered'[r] : delivered'[r][i] <= position'[r]
      <3>1. CASE r = q
        <4>1. position[q] + 1 \in Nat /\ position[q] < position[q] + 1
          BY <1>3
        <4>2. delivered'[r] = Append(delivered[q], position[q] + 1)
              /\ position'[r] = position[q] + 1
          BY <1>6, <2>3, <3>1
        <4> QED
          BY <1>3, <2>1, <4>1, <4>2, DeliveryInOrder
      <3>2. CASE r # q
        BY <1>6, <2>1, <2>3, <3>2
      <3> QED
        BY <3>1, <3>2
    <2> QED
      BY <2>4, <2>5 DEF InOrderNoDuplicate
  <1>17. Fresh'
    <2> SUFFICES ASSUME NEW r \in Readers, status[r] = "none"
                 PROVE  /\ position'[r] = 0 /\ ~waiter[r] /\ ~ended[r]
                        /\ delivered'[r] = <<>>
      BY <1>1 DEF Fresh
    <2>1. r # q
      BY <1>1 DEF Attached
    <2> QED
      BY <1>1, <1>6, <2>1 DEF IInv, Fresh, TypeOK
  <1>18. TypeOK'
    BY <1>1, <1>6, <1>9, <1>16 DEF IInv, TypeOK
  <1> QED
    BY <1>11, <1>12, <1>14, <1>15, <1>16, <1>17, <1>18 DEF IInv

LEMMA NextDetachedInv ==
    ASSUME IInv, NEW q \in Readers, NextDetached(q)
    PROVE  IInv'
  <1>1. /\ UNCHANGED <<queueVars, published, outstanding, delivered>>
        /\ ended' = [ended EXCEPT ![q] = TRUE]
        /\ status[q] = "detached" /\ q \notin Attached
    BY DEF NextDetached, Attached
  <1>2. Attached' = Attached /\ End' = End
    BY <1>1 DEF Attached, End, queueVars
  <1>3. TypeOK' /\ DrainedBeforeEnd' /\ Fresh'
    BY <1>1, <1>2 DEF queueVars, IInv, TypeOK, DrainedBeforeEnd, Fresh, Attached
  <1> QED
    BY <1>1, <1>2, <1>3 DEF queueVars, IInv, WindowOfStream, CursorInWindow,
       SlowestBacklog, ParkedHasNothing, WaiterCounted, InOrderNoDuplicate

LEMMA NextEndInv ==
    ASSUME IInv, NEW q \in Readers, NextEnd(q)
    PROVE  IInv'
  <1>1. /\ UNCHANGED <<queueVars, published, outstanding, delivered>>
        /\ ended' = [ended EXCEPT ![q] = TRUE]
        /\ q \in Attached /\ ~HasValue(q) /\ closed
    BY DEF NextEnd
  <1>2. Attached' = Attached /\ End' = End
    BY <1>1 DEF Attached, End, queueVars
  <1>3. position[q] = End
    <2>1. position[q] \in Nat /\ base \in Nat /\ Len(buffer) \in Nat
      BY LenProperties DEF IInv, TypeOK
    <2>2. base <= position[q] /\ position[q] <= base + Len(buffer)
      BY <1>1 DEF IInv, CursorInWindow, End
    <2> QED
      BY <1>1, <2>1, <2>2 DEF HasValue, End
  <1>4. DrainedBeforeEnd'
    BY <1>1, <1>2, <1>3 DEF queueVars, IInv, TypeOK, DrainedBeforeEnd, Attached
  <1>5. TypeOK' /\ Fresh'
    BY <1>1, <1>2 DEF queueVars, IInv, TypeOK, Fresh, Attached
  <1> QED
    BY <1>1, <1>2, <1>4, <1>5 DEF queueVars, IInv, WindowOfStream, CursorInWindow,
       SlowestBacklog, ParkedHasNothing, WaiterCounted, InOrderNoDuplicate

LEMMA NextParkInv ==
    ASSUME IInv, NEW q \in Readers, NextPark(q)
    PROVE  IInv'
  <1>1. /\ UNCHANGED <<buffer, base, closed, status, position,
                       published, delivered, ended>>
        /\ waiter' = [waiter EXCEPT ![q] = TRUE]
        /\ outstanding' = [outstanding EXCEPT ![q] = outstanding[q] + 1]
        /\ q \in Attached /\ ~HasValue(q) /\ ~closed
    BY DEF NextPark
  <1>2. Attached' = Attached /\ End' = End
    BY <1>1 DEF Attached, End
  <1>3. position[q] = End
    <2>1. position[q] \in Nat /\ base \in Nat /\ Len(buffer) \in Nat
      BY LenProperties DEF IInv, TypeOK
    <2>2. base <= position[q] /\ position[q] <= base + Len(buffer)
      BY <1>1 DEF IInv, CursorInWindow, End
    <2> QED
      BY <1>1, <2>1, <2>2 DEF HasValue, End
  <1>4. ParkedHasNothing' /\ WaiterCounted'
    BY <1>1, <1>2, <1>3 DEF IInv, TypeOK, ParkedHasNothing, WaiterCounted, Attached
  <1>5. TypeOK' /\ Fresh'
    BY <1>1, <1>2 DEF IInv, TypeOK, Fresh, Attached
  <1> QED
    BY <1>1, <1>2, <1>4, <1>5 DEF IInv, WindowOfStream, CursorInWindow,
       SlowestBacklog, DrainedBeforeEnd, InOrderNoDuplicate

LEMMA ReturnInv ==
    ASSUME IInv, NEW q \in Readers, Return(q)
    PROVE  IInv'
  <1>1. /\ closed' = closed /\ position' = position /\ waiter' = waiter
        /\ published' = published /\ outstanding' = outstanding
        /\ delivered' = delivered /\ ended' = ended
        /\ q \in Attached /\ status' = [status EXCEPT ![q] = "detached"]
        /\ Trim(Attached \ {q}, position, base, buffer)
    BY DEF Return, callVars
  <1>2. /\ base \in Nat /\ published \in Nat /\ base <= published
        /\ Len(buffer) = published - base /\ buffer = Window(base, published)
    BY BufferIsWindow DEF IInv
  <1>3. Attached' = Attached \ {q} /\ Attached \subseteq Readers
    BY <1>1 DEF Attached, IInv, TypeOK
  <1>4. /\ position \in [Readers -> Nat]
        /\ \A r \in Attached \ {q} : base <= position[r] /\ position[r] <= published
    BY DEF IInv, TypeOK, CursorInWindow, WindowOfStream
  <1>5. /\ base' \in Nat /\ base <= base' /\ base' <= published
        /\ buffer' \in Seq(Nat) /\ Len(buffer') = published - base'
        /\ \A i \in 1..Len(buffer') : buffer'[i] = base' + i
        /\ \A r \in Attached \ {q} : base' <= position[r]
        /\ base' # published => \E r \in Attached \ {q} : position[r] = base'
    <2>1. Trim(Attached \ {q}, position, base, Window(base, published))
      BY <1>1, <1>2
    <2>2. Attached \ {q} \in SUBSET Readers
      BY <1>3
    <2> QED
      BY <1>2, <1>4, <2>1, <2>2, TrimWindow
  <1>6. base' + Len(buffer') = published /\ End = published
    <2>1. \A n \in Nat : n + (published - n) = published
      BY <1>2
    <2>2. base' + Len(buffer') = published
      BY <1>5, <2>1, Zenon
    <2> QED
      BY <2>2 DEF IInv, WindowOfStream
  <1>7. End' = published
    BY <1>6 DEF End
  <1>8. WindowOfStream' /\ CursorInWindow'
    <2>1. WindowOfStream'
      BY <1>1, <1>5, <1>7, Zenon DEF WindowOfStream
    <2>2. CursorInWindow'
      BY <1>1, <1>3, <1>4, <1>5, <1>7, Zenon DEF CursorInWindow
    <2> QED
      BY <2>1, <2>2
  <1>9. SlowestBacklog'
    <2>1. \A n \in Nat : base <= n => published - n <= Len(buffer)
      BY <1>2
    <2>2. Len(buffer') <= Len(buffer)
      BY <1>5, <2>1, Zenon
    <2>3. Len(buffer') \in Nat /\ Len(buffer) \in Nat /\ Len(buffer) <= BufferLimit
      BY <1>5, LenProperties DEF IInv, SlowestBacklog, TypeOK
    <2>4. Len(buffer') <= BufferLimit
      BY <2>2, <2>3, LimitAssumption
    <2>5. buffer' # <<>> => base' # published
      BY <1>2, <1>5
    <2> QED
      BY <1>1, <1>3, <1>5, <2>4, <2>5 DEF SlowestBacklog
  <1>10. ParkedHasNothing' /\ WaiterCounted' /\ DrainedBeforeEnd'
    BY <1>1, <1>3, <1>6, <1>7 DEF IInv, ParkedHasNothing, WaiterCounted, DrainedBeforeEnd
  <1>11. TypeOK' /\ Fresh'
    BY <1>1, <1>5 DEF IInv, TypeOK, Fresh
  <1> QED
    BY <1>1, <1>8, <1>9, <1>10, <1>11 DEF IInv, InOrderNoDuplicate

(* No step of the queue breaks the invariant.                              *)
LEMMA StepInv == IInv /\ [Next]_vars => IInv'
  <1> SUFFICES ASSUME IInv, [Next]_vars PROVE IInv'
    OBVIOUS
  <1>1. CASE Publish
    BY <1>1, PublishInv
  <1>2. CASE Close
    BY <1>2, CloseInv
  <1>3. ASSUME NEW r \in Readers, Reader(r) PROVE IInv'
    BY <1>3, ReaderInv
  <1>4. ASSUME NEW r \in Readers, NextDetached(r) PROVE IInv'
    BY <1>4, NextDetachedInv
  <1>5. ASSUME NEW r \in Readers, NextValue(r) PROVE IInv'
    BY <1>5, NextValueInv
  <1>6. ASSUME NEW r \in Readers, NextEnd(r) PROVE IInv'
    BY <1>6, NextEndInv
  <1>7. ASSUME NEW r \in Readers, NextPark(r) PROVE IInv'
    BY <1>7, NextParkInv
  <1>8. ASSUME NEW r \in Readers, Return(r) PROVE IInv'
    BY <1>8, ReturnInv
  <1>9. CASE UNCHANGED vars
    BY <1>9 DEF vars, queueVars, callVars, IInv, TypeOK, WindowOfStream,
       CursorInWindow, SlowestBacklog, ParkedHasNothing, WaiterCounted, Fresh,
       InOrderNoDuplicate, DrainedBeforeEnd, Attached, End
  <1> QED
    BY <1>1, <1>2, <1>3, <1>4, <1>5, <1>6, <1>7, <1>8, <1>9 DEF Next

(* The invariant holds in every state of every behaviour.                  *)
THEOREM Invariance == Spec => []IInv
  BY InitInv, StepInv, PTL DEF Spec

(* publish(), trim(), reader() and return() keep the variables' types and   *)
(* the buffer aligned with the stream, and take no unread value away from a *)
(* cursor, for any number of readers and any limit.                         *)
THEOREM BufferSound == Spec => []BufferAligned
  <1>1. IInv => BufferAligned
    BY DEF IInv, BufferAligned
  <1> QED
    BY <1>1, Invariance, PTL

(* No publish() and no close() is missed by a parked reader, and every      *)
(* reader's stream is ordered, without repetition, and ends only once it is *)
(* drained.                                                                 *)
THEOREM StreamsOrdered == Spec => []StreamsSound
  <1>1. IInv => StreamsSound
    BY DEF IInv, StreamsSound
  <1> QED
    BY <1>1, Invariance, PTL

-----------------------------------------------------------------------------
(* The refinement: the shared buffer implements one private bounded mailbox *)
(* per reader.  The part of the buffer from a cursor on is the stretch of   *)
(* the stream from the cursor's position (Boxes), so each step of the queue *)
(* is read off as a step on stretches.                                      *)

\* What each reader has before it, as a stretch of the stream.
Boxes ==
    \A r \in Readers :
       Mailbox(r) = IF r \in Attached THEN Window(position[r], published) ELSE <<>>

(* The refinement mapping in terms of the stream.                          *)
LEMMA BoxesHold == IInv => Boxes
  <1> SUFFICES ASSUME IInv, NEW r \in Readers
               PROVE  Mailbox(r) = IF r \in Attached
                                   THEN Window(position[r], published) ELSE <<>>
    BY DEF Boxes
  <1>1. CASE r \in Attached
    <2>1. /\ base \in Nat /\ published \in Nat /\ buffer = Window(base, published)
      BY BufferIsWindow DEF IInv
    <2>2. /\ position[r] \in Nat /\ base <= position[r] /\ position[r] <= published
      BY <1>1 DEF IInv, TypeOK, CursorInWindow, WindowOfStream
    <2>3. SubSeq(Window(base, published), position[r] - base + 1, Len(Window(base, published)))
            = Window(position[r], published)
      BY <2>1, <2>2, WindowDrop
    <2>4. Mailbox(r) = SubSeq(buffer, position[r] - base + 1, Len(buffer))
      BY <1>1 DEF Mailbox, Attached
    <2> QED
      BY <1>1, <2>1, <2>3, <2>4, Zenon
  <1>2. CASE r \notin Attached
    BY <1>2 DEF Mailbox, Attached
  <1> QED
    BY <1>1, <1>2

(* The same after a step.                                                  *)
LEMMA BoxesNext == IInv' => Boxes'
  BY BoxesHold, PTL

(* Where an attached cursor stands.                                        *)
LEMMA CursorBounds ==
    ASSUME IInv, NEW r \in Attached
    PROVE  /\ r \in Readers /\ position[r] \in Nat /\ base \in Nat /\ published \in Nat
           /\ base <= position[r] /\ position[r] <= published
           /\ published - base <= BufferLimit /\ Len(buffer) = published - base
           /\ waiter[r] => position[r] = published
  <1>1. r \in Readers
    BY DEF Attached
  <1>2. /\ base \in Nat /\ published \in Nat /\ Len(buffer) = published - base
    BY BufferIsWindow DEF IInv
  <1>3. /\ position[r] \in Nat /\ base <= position[r] /\ position[r] <= published
        /\ waiter[r] => position[r] = published
    BY <1>1 DEF IInv, TypeOK, CursorInWindow, WindowOfStream, ParkedHasNothing
  <1>4. published - base <= BufferLimit
    BY <1>2 DEF IInv, SlowestBacklog
  <1> QED
    BY <1>1, <1>2, <1>3, <1>4

(* next() finds a value exactly when the mailbox is not empty.             *)
LEMMA HasValueBox ==
    ASSUME IInv, NEW r \in Attached
    PROVE  /\ HasValue(r) <=> position[r] < published
           /\ HasValue(r) => Mailbox(r) # <<>>
           /\ ~HasValue(r) => Mailbox(r) = <<>>
  <1>1. /\ r \in Readers /\ position[r] \in Nat /\ base \in Nat /\ published \in Nat
        /\ base <= position[r] /\ position[r] <= published
        /\ Len(buffer) = published - base
    BY CursorBounds
  <1>2. HasValue(r) <=> position[r] < published
    BY <1>1 DEF HasValue
  <1>3. Mailbox(r) = Window(position[r], published)
    BY <1>1, BoxesHold DEF Boxes
  <1>4. position[r] < published => Window(position[r], published) # <<>>
    BY <1>1, WindowHeadTail
  <1>5. ~(position[r] < published) => position[r] = published
    BY <1>1
  <1> QED
    BY <1>1, <1>2, <1>3, <1>4, <1>5, WindowEmpty

-----------------------------------------------------------------------------
(* The initial state.                                                      *)
LEMMA InitRefines == Init => Private!Init
  <1> SUFFICES ASSUME Init PROVE Private!Init
    OBVIOUS
  <1>1. [r \in Readers |-> Mailbox(r)] = [r \in Readers |-> <<>>]
    BY DEF Init, Mailbox
  <1> QED
    BY <1>1 DEF Init, Private!Init

(* close() ends the parked readers, all of which have nothing left.        *)
LEMMA CloseRefines ==
    ASSUME IInv, IInv', Close
    PROVE  Private!Close
  <1>1. Drained = {r \in Attached : waiter[r]}
    <2> SUFFICES ASSUME NEW r \in Attached, waiter[r]
                 PROVE  position[r] - base >= Len(buffer)
      BY DEF Drained
    <2> QED
      BY CursorBounds
  <1>2. Private!Attached = Attached
    BY DEF Private!Attached, Attached
  <1>3. [r \in Readers |-> Mailbox(r)]' = [r \in Readers |-> Mailbox(r)]
    BY DEF Close, Mailbox
  <1> QED
    BY <1>1, <1>2, <1>3, Zenon DEF Close, Private!Close

(* reader() starts with an empty mailbox.                                  *)
LEMMA ReaderRefines ==
    ASSUME IInv, IInv', NEW q \in Readers, Reader(q)
    PROVE  Private!Reader(q)
  <1>1. /\ published' = published /\ published \in Nat /\ End = published
        /\ position' = [position EXCEPT ![q] = End] /\ position \in [Readers -> Nat]
        /\ status' = [status EXCEPT ![q] = IF closed THEN "detached" ELSE "attached"]
        /\ status \in [Readers -> {"none", "attached", "detached"}] /\ status[q] = "none"
    BY DEF Reader, callVars, IInv, TypeOK, WindowOfStream
  <1>2. \A r \in Readers : Mailbox(r)' = Mailbox(r)
    <2> SUFFICES ASSUME NEW r \in Readers PROVE Mailbox(r)' = Mailbox(r)
      OBVIOUS
    <2>1. Mailbox(r) = IF r \in Attached THEN Window(position[r], published) ELSE <<>>
      BY BoxesHold DEF Boxes
    <2>2. Mailbox(r)' = IF r \in Attached' THEN Window(position'[r], published') ELSE <<>>
      BY BoxesNext DEF Boxes
    <2>3. CASE r = q
      <3>1. position'[q] = published /\ q \notin Attached
        BY <1>1 DEF Attached
      <3> QED
        BY <1>1, <2>1, <2>2, <2>3, <3>1, WindowEmpty
    <2>4. CASE r # q
      <3>1. position'[r] = position[r] /\ (r \in Attached' <=> r \in Attached)
        BY <1>1, <2>4 DEF Attached
      <3> QED
        BY <1>1, <2>1, <2>2, <3>1
    <2> QED
      BY <2>3, <2>4
  <1>3. [r \in Readers |-> Mailbox(r)]' = [r \in Readers |-> Mailbox(r)]
    BY <1>2, Zenon
  <1> QED
    BY <1>3 DEF Reader, Private!Reader, callVars, Private!callVars

(* next() of a detached reader ends the stream.                            *)
LEMMA NextDetachedRefines ==
    ASSUME NEW q \in Readers, NextDetached(q)
    PROVE  Private!NextEnd(q)
  <1>1. [r \in Readers |-> Mailbox(r)]' = [r \in Readers |-> Mailbox(r)]
    BY DEF NextDetached, queueVars, Mailbox
  <1> QED
    BY <1>1 DEF NextDetached, queueVars, CanCall, Private!NextEnd, Private!CanCall

(* next() on a closed queue ends the stream when the mailbox is empty.     *)
LEMMA NextEndRefines ==
    ASSUME IInv, NEW q \in Readers, NextEnd(q)
    PROVE  Private!NextEnd(q)
  <1>1. [r \in Readers |-> Mailbox(r)]' = [r \in Readers |-> Mailbox(r)]
    BY DEF NextEnd, queueVars, Mailbox
  <1>2. q \in Attached /\ ~HasValue(q)
    BY DEF NextEnd
  <1>3. [r \in Readers |-> Mailbox(r)][q] = <<>>
    BY <1>2, HasValueBox
  <1> QED
    BY <1>1, <1>3 DEF NextEnd, queueVars, CanCall, Private!NextEnd, Private!CanCall

(* next() parks exactly when the mailbox is empty.                         *)
LEMMA NextParkRefines ==
    ASSUME IInv, NEW q \in Readers, NextPark(q)
    PROVE  Private!NextPark(q)
  <1>1. [r \in Readers |-> Mailbox(r)]' = [r \in Readers |-> Mailbox(r)]
    BY DEF NextPark, Mailbox
  <1>2. q \in Attached /\ ~HasValue(q)
    BY DEF NextPark
  <1>3. [r \in Readers |-> Mailbox(r)][q] = <<>>
    BY <1>2, HasValueBox
  <1>4. Private!Attached = Attached
    BY DEF Private!Attached, Attached
  <1> QED
    BY <1>1, <1>2, <1>3, <1>4 DEF NextPark, CanCall, Private!NextPark, Private!CanCall

(* next() takes the first value of the mailbox; trimming the shared buffer  *)
(* leaves the other mailboxes as they are.                                  *)
LEMMA NextValueRefines ==
    ASSUME IInv, IInv', NEW q \in Readers, NextValue(q)
    PROVE  Private!NextValue(q)
  <1> DEFINE box == [r \in Readers |-> Mailbox(r)]
  <1>1. /\ q \in Attached /\ HasValue(q) /\ CanCall(q)
        /\ closed' = closed /\ status' = status /\ waiter' = waiter
        /\ published' = published /\ outstanding' = outstanding /\ ended' = ended
        /\ position' = [position EXCEPT ![q] = position[q] + 1]
        /\ delivered' = [delivered EXCEPT
              ![q] = Append(delivered[q], buffer[position[q] - base + 1])]
    BY DEF NextValue
  <1>2. /\ position[q] \in Nat /\ base \in Nat /\ published \in Nat
        /\ base <= position[q] /\ position[q] < published
        /\ Len(buffer) = published - base
    BY <1>1, CursorBounds, HasValueBox
  <1>3. box[q] = Window(position[q], published)
    BY <1>1, BoxesHold DEF Boxes
  <1>4. /\ box[q] # <<>> /\ Head(box[q]) = position[q] + 1
        /\ Tail(box[q]) = Window(position[q] + 1, published)
    BY <1>2, <1>3, WindowHeadTail
  <1>5. buffer[position[q] - base + 1] = position[q] + 1
    <2>1. position[q] - base + 1 \in 1..Len(buffer)
      BY <1>2
    <2>2. \A i \in 1..Len(buffer) : buffer[i] = base + i
      BY DEF IInv, WindowOfStream
    <2> QED
      BY <1>2, <2>1, <2>2
  <1>6. Attached' = Attached
    BY <1>1 DEF Attached
  <1>7. \A r \in Readers : Mailbox(r)' = IF r = q THEN Tail(box[q]) ELSE box[r]
    <2> SUFFICES ASSUME NEW r \in Readers
                 PROVE  Mailbox(r)' = IF r = q THEN Tail(box[q]) ELSE box[r]
      OBVIOUS
    <2>1. Mailbox(r)' = IF r \in Attached' THEN Window(position'[r], published') ELSE <<>>
      BY BoxesNext DEF Boxes
    <2>2. box[r] = IF r \in Attached THEN Window(position[r], published) ELSE <<>>
      BY BoxesHold DEF Boxes
    <2>3. position'[r] = IF r = q THEN position[q] + 1 ELSE position[r]
      BY <1>1 DEF IInv, TypeOK
    <2> HIDE DEF box
    <2> QED
      BY <1>1, <1>4, <1>6, <2>1, <2>2, <2>3
  <1>8. box' = [box EXCEPT ![q] = Tail(box[q])]
    BY <1>7
  <1>9. delivered' = [delivered EXCEPT ![q] = Append(delivered[q], Head(box[q]))]
    BY <1>1, <1>4, <1>5
  <1>10. Private!Attached = Attached /\ Private!CanCall(q)
    BY <1>1 DEF Private!Attached, Attached, CanCall, Private!CanCall
  <1> QED
    BY <1>1, <1>4, <1>8, <1>9, <1>10 DEF Private!NextValue

(* return() throws the reader's mailbox away, and no other one.            *)
LEMMA ReturnRefines ==
    ASSUME IInv, IInv', NEW q \in Readers, Return(q)
    PROVE  Private!Return(q)
  <1> DEFINE box == [r \in Readers |-> Mailbox(r)]
  <1>1. /\ q \in Attached /\ closed' = closed /\ position' = position /\ waiter' = waiter
        /\ published' = published /\ outstanding' = outstanding
        /\ delivered' = delivered /\ ended' = ended
        /\ status' = [status EXCEPT ![q] = "detached"]
    BY DEF Return, callVars
  <1>2. Attached' = Attached \ {q}
    BY <1>1 DEF Attached, IInv, TypeOK
  <1>3. \A r \in Readers : Mailbox(r)' = IF r = q THEN <<>> ELSE box[r]
    <2> SUFFICES ASSUME NEW r \in Readers
                 PROVE  Mailbox(r)' = IF r = q THEN <<>> ELSE box[r]
      OBVIOUS
    <2>1. Mailbox(r)' = IF r \in Attached' THEN Window(position'[r], published') ELSE <<>>
      BY BoxesNext DEF Boxes
    <2>2. box[r] = IF r \in Attached THEN Window(position[r], published) ELSE <<>>
      BY BoxesHold DEF Boxes
    <2> HIDE DEF box
    <2> QED
      BY <1>1, <1>2, <2>1, <2>2
  <1>4. box' = [box EXCEPT ![q] = <<>>]
    BY <1>3
  <1>5. Private!Attached = Attached
    BY DEF Private!Attached, Attached
  <1> QED
    BY <1>1, <1>4, <1>5 DEF Private!Return, Private!callVars

(* What a mailbox keeps of a stretch that was within the limit.            *)
LEMMA KeepWindow ==
    ASSUME NEW lo \in Nat, NEW hi \in Nat, lo <= hi, hi - lo <= BufferLimit
    PROVE  Private!Keep(Window(lo, hi), hi + 1)
             = IF (hi + 1) - lo > BufferLimit
               THEN Window(lo + 1, hi + 1) ELSE Window(lo, hi + 1)
  <1> DEFINE w == Window(lo, hi + 1)
  <1>1. Append(Window(lo, hi), hi + 1) = w
    BY WindowAppend
  <1>2. Len(w) = (hi + 1) - lo
    BY WindowType
  <1>3. SubSeq(w, (lo + 1) - lo + 1, Len(w)) = Window(lo + 1, hi + 1)
    <2>1. lo + 1 \in Nat /\ hi + 1 \in Nat /\ lo <= lo + 1 /\ lo + 1 <= hi + 1
      OBVIOUS
    <2> QED
      BY <2>1, WindowDrop
  <1> HIDE DEF w
  <1>4. Private!Keep(Window(lo, hi), hi + 1)
          = IF Len(w) > BufferLimit
            THEN SubSeq(w, Len(w) - BufferLimit + 1, Len(w)) ELSE w
    BY <1>1 DEF Private!Keep
  <1>5. CASE (hi + 1) - lo > BufferLimit
    <2>1. Len(w) - BufferLimit + 1 = (lo + 1) - lo + 1
      BY <1>2, <1>5, LimitAssumption
    <2> QED
      BY <1>2, <1>3, <1>4, <1>5, <2>1
  <1>6. CASE ~((hi + 1) - lo > BufferLimit)
    BY <1>2, <1>4, <1>6 DEF w
  <1> QED
    BY <1>5, <1>6

(* publish() does to every attached reader's stretch what it would do to a  *)
(* private mailbox: the overflow of the shared buffer costs a value exactly *)
(* to the readers whose own mailbox would have overflowed.                  *)
LEMMA PublishBox ==
    ASSUME IInv, Publish, NEW b, NEW woken, Published(b, woken), NEW r \in Attached
    PROVE  /\ Private!Keep(Mailbox(r), published + 1)
                = Window(IF position[r] < b THEN b ELSE position[r], published + 1)
           /\ r \in woken <=>
                 waiter[r] /\ Private!Keep(Mailbox(r), published + 1) # <<>>
           /\ r \in woken =>
                 /\ Head(Private!Keep(Mailbox(r), published + 1)) = published + 1
                 /\ Tail(Private!Keep(Mailbox(r), published + 1)) = <<>>
  <1> DEFINE pos == position[r]
             p   == published
             lo  == IF pos < b THEN b ELSE pos
             box == Private!Keep(Mailbox(r), published + 1)
  <1>1. /\ r \in Readers /\ pos \in Nat /\ base \in Nat /\ p \in Nat
        /\ base <= pos /\ pos <= p /\ p - base <= BufferLimit
        /\ Len(buffer) = p - base
        /\ waiter[r] => pos = p
    BY CursorBounds
  <1>2. /\ b \in Nat /\ base <= b /\ b <= p + 1 /\ (p + 1) - b <= BufferLimit
        /\ b # base => b = base + 1 /\ p - base = BufferLimit
        /\ r \in woken <=> waiter[r] /\ b <= p
    BY <1>1 DEF Published
  <1>3. Mailbox(r) = Window(pos, p)
    BY <1>1, BoxesHold DEF Boxes
  <1>4. box = IF (p + 1) - pos > BufferLimit
              THEN Window(pos + 1, p + 1) ELSE Window(pos, p + 1)
    <2>1. p - pos <= BufferLimit
      BY <1>1, LimitAssumption
    <2> QED
      BY <1>1, <1>3, <2>1, KeepWindow
  <1>5. lo = IF (p + 1) - pos > BufferLimit THEN pos + 1 ELSE pos
    BY <1>1, <1>2, LimitAssumption
  <1>6. box = Window(lo, p + 1)
    BY <1>4, <1>5
  <1>7. lo \in Nat /\ lo <= p + 1
    BY <1>1, <1>2
  <1>8. waiter[r] => (lo < p + 1 <=> b <= p) /\ (lo < p + 1 => lo = p)
    BY <1>1, <1>2
  <1> HIDE DEF lo, box
  <1>9. lo < p + 1 => /\ box # <<>> /\ Head(box) = lo + 1
                      /\ Tail(box) = Window(lo + 1, p + 1)
    <2>1. p + 1 \in Nat
      BY <1>1
    <2> QED
      BY <1>6, <1>7, <2>1, WindowHeadTail
  <1>10. ~(lo < p + 1) => box = <<>>
    <2>1. ~(lo < p + 1) => lo = p + 1
      BY <1>1, <1>7
    <2> QED
      BY <1>6, <1>7, <2>1, WindowEmpty
  <1>11. r \in woken <=> waiter[r] /\ box # <<>>
    BY <1>2, <1>8, <1>9, <1>10
  <1>12. r \in woken => Head(box) = p + 1 /\ Tail(box) = <<>>
    <2>1. p + 1 \in Nat
      BY <1>1
    <2>2. Window(p + 1, p + 1) = <<>>
      BY <2>1, WindowEmpty
    <2> QED
      BY <1>2, <1>8, <1>9, <2>2
  <1> QED
    BY <1>6, <1>11, <1>12 DEF lo, box

(* publish() adds the value to every attached reader's mailbox and hands it *)
(* to the parked ones.                                                      *)
LEMMA PublishRefines ==
    ASSUME IInv, IInv', Publish
    PROVE  Private!Publish
  <1> DEFINE mail   == [r \in Readers |-> Mailbox(r)]
             box(r) == Private!Keep(mail[r], published + 1)
             W      == {r \in Attached : waiter[r] /\ box(r) # <<>>}
  <1>1. PICK b, woken : Published(b, woken)
    BY PublishFacts
  <1>2. /\ published < MaxPublished /\ ~closed /\ published' = published + 1
        /\ closed' = closed /\ status' = status /\ ended' = ended
    BY DEF Publish, CanPublish
  <1>3. Private!Attached = Attached /\ Attached' = Attached /\ Attached \subseteq Readers
    BY <1>2 DEF Private!Attached, Attached
  <1>4. \A r \in Attached :
           /\ box(r) = Window(IF position[r] < b THEN b ELSE position[r], published + 1)
           /\ r \in woken <=> waiter[r] /\ box(r) # <<>>
           /\ r \in woken => Head(box(r)) = published + 1 /\ Tail(box(r)) = <<>>
    BY <1>1, <1>3, PublishBox
  <1>5. woken \subseteq Attached
    BY <1>1 DEF Published
  <1>6. W = woken
    BY <1>4, <1>5
  <1>7. /\ waiter' = [r \in Readers |-> waiter[r] /\ r \notin woken]
        /\ outstanding' = [r \in Readers |->
               IF r \in woken THEN outstanding[r] - 1 ELSE outstanding[r]]
        /\ delivered' = [r \in Readers |->
               IF r \in woken THEN Append(delivered[r], published + 1)
               ELSE delivered[r]]
    BY <1>1 DEF Published
  <1> HIDE DEF box
  <1>8. delivered' = [r \in Readers |->
            IF r \in woken THEN Append(delivered[r], Head(box(r))) ELSE delivered[r]]
    BY <1>4, <1>5, <1>7
  <1>9. \A r \in Readers : Mailbox(r)' = IF r \in woken THEN Tail(box(r))
                                         ELSE IF r \in Attached THEN box(r) ELSE mail[r]
    <2> SUFFICES ASSUME NEW r \in Readers
                 PROVE  Mailbox(r)' = IF r \in woken THEN Tail(box(r))
                                      ELSE IF r \in Attached THEN box(r) ELSE mail[r]
      OBVIOUS
    <2>1. Mailbox(r)' = IF r \in Attached THEN Window(position'[r], published + 1) ELSE <<>>
      BY <1>2, <1>3, BoxesNext DEF Boxes
    <2>2. position'[r] = IF r \in woken THEN published + 1
                         ELSE IF r \in Attached /\ position[r] < b THEN b ELSE position[r]
      BY <1>1 DEF Published
    <2>3. CASE r \in woken
      <3>1. published + 1 \in Nat
        BY DEF IInv, TypeOK
      <3>2. Window(published + 1, published + 1) = <<>>
        BY <3>1, WindowEmpty
      <3> QED
        BY <1>4, <1>5, <2>1, <2>2, <2>3, <3>2
    <2>4. CASE r \in Attached \ woken
      BY <1>4, <2>1, <2>2, <2>4
    <2>5. CASE r \notin Attached
      <3>1. mail[r] = <<>>
        BY <2>5, BoxesHold DEF Boxes
      <3> QED
        BY <1>5, <2>1, <2>5, <3>1
    <2> QED
      BY <2>3, <2>4, <2>5
  <1>10. mail' = [r \in Readers |-> IF r \in woken THEN Tail(box(r))
                                    ELSE IF r \in Attached THEN box(r) ELSE mail[r]]
    BY <1>9
  <1> QED
    BY <1>2, <1>3, <1>6, <1>7, <1>8, <1>10 DEF Private!Publish, box

-----------------------------------------------------------------------------
(* Every step of the queue is a step of the mailboxes or leaves them alone. *)
LEMMA StepRefines == IInv /\ IInv' /\ [Next]_vars => [Private!Next]_(Private!vars)
  <1> SUFFICES ASSUME IInv, IInv', [Next]_vars PROVE [Private!Next]_(Private!vars)
    OBVIOUS
  <1>1. CASE Publish
    BY <1>1, PublishRefines DEF Private!Next
  <1>2. CASE Close
    BY <1>2, CloseRefines DEF Private!Next
  <1>3. ASSUME NEW r \in Readers, Reader(r) PROVE Private!Next
    BY <1>3, ReaderRefines DEF Private!Next
  <1>4. ASSUME NEW r \in Readers, NextDetached(r) PROVE Private!Next
    BY <1>4, NextDetachedRefines DEF Private!Next
  <1>5. ASSUME NEW r \in Readers, NextValue(r) PROVE Private!Next
    BY <1>5, NextValueRefines DEF Private!Next
  <1>6. ASSUME NEW r \in Readers, NextEnd(r) PROVE Private!Next
    BY <1>6, NextEndRefines DEF Private!Next
  <1>7. ASSUME NEW r \in Readers, NextPark(r) PROVE Private!Next
    BY <1>7, NextParkRefines DEF Private!Next
  <1>8. ASSUME NEW r \in Readers, Return(r) PROVE Private!Next
    BY <1>8, ReturnRefines DEF Private!Next
  <1>9. CASE UNCHANGED vars
    <2>1. [r \in Readers |-> Mailbox(r)]' = [r \in Readers |-> Mailbox(r)]
      BY <1>9 DEF vars, queueVars, Mailbox
    <2> QED
      BY <1>9, <2>1 DEF vars, queueVars, callVars, Private!vars, Private!callVars
  <1> QED
    BY <1>1, <1>2, <1>3, <1>4, <1>5, <1>6, <1>7, <1>8, <1>9 DEF Next

(* AsyncBroadcastQueue gives each reader what a private bounded mailbox     *)
(* would: publish(), trim() and return() on the shared buffer never make    *)
(* one reader lose, repeat or reorder a value on account of another.        *)
THEOREM Refinement == Spec => ImplementsMailboxes
  BY InitRefines, StepRefines, Invariance, PTL
     DEF Spec, ImplementsMailboxes, Private!Spec

=============================================================================
