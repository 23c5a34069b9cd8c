--------------------------- MODULE BroadcastQueue ---------------------------
(***************************************************************************)
(* AsyncBroadcastQueue of clients/typescript/src/client/async-queue.ts: one *)
(* publisher, many readers, each with a cursor of its own over one shared,  *)
(* bounded buffer.  Every subscription and the client's event and state     *)
(* streams are readers of such a queue.                                     *)
(*                                                                          *)
(* The n-th published value is the number n, so a value also says where it  *)
(* belongs in the stream.  Absolute positions count from 0 as in the code:  *)
(* the value at position p is p + 1.  JavaScript runs each method to its    *)
(* end, so a method is one action.                                          *)
(***************************************************************************)
EXTENDS Integers, Sequences

CONSTANTS
    Readers,         \* iterators that reader() may hand out
    BufferLimit,     \* bufferLimit of the constructor
    MaxPublished,    \* bound: publish() calls that push a value
    MaxOutstanding   \* bound: next() calls of one reader not yet settled;
                     \* 1 is a `for await` consumer

ASSUME LimitAssumption == BufferLimit \in Nat
ASSUME BoundAssumption == MaxPublished \in Nat /\ MaxOutstanding \in Nat \ {0}

VARIABLES
    buffer, base,    \* the retained values and the position of the first
    closed,
    status,          \* per reader: "none" (not created), "attached", "detached"
    position,        \* per reader: position of the next value it will read
    waiter,          \* per reader: a parked next() will be resolved by the queue
    published,       \* values published so far
    outstanding,     \* per reader: promises of next() not settled yet
    delivered,       \* per reader: the values its promises settled with
    ended            \* per reader: some promise settled with done: true

queueVars == <<buffer, base, closed, status, position, waiter>>
callVars  == <<published, outstanding, delivered, ended>>
vars      == <<queueVars, callVars>>

\* The cursors in `this.cursors`: detach() deletes the cursor it detaches, and
\* a reader of a closed queue is born detached.
Attached == {r \in Readers : status[r] = "attached"}

\* Position after the newest value.
End == base + Len(buffer)

Init ==
    /\ buffer = <<>> /\ base = 0 /\ closed = FALSE
    /\ status = [r \in Readers |-> "none"]
    /\ position = [r \in Readers |-> 0]
    /\ waiter = [r \in Readers |-> FALSE]
    /\ published = 0
    /\ outstanding = [r \in Readers |-> 0]
    /\ delivered = [r \in Readers |-> <<>>]
    /\ ended = [r \in Readers |-> FALSE]

-----------------------------------------------------------------------------
(* trim(): the base it moves to, given the cursors and their positions.    *)

IsMin(m, S) == m \in S /\ \A n \in S : m <= n

\* Faulty: trims to the fastest cursor.
FaultyTrimToFastest(cursors, pos, b, end) ==
    IF cursors = {} THEN end
    ELSE CHOOSE m \in {pos[r] : r \in cursors} : \A r \in cursors : pos[r] <= m

TrimBase(cursors, pos, b, end) ==
    IF cursors = {} THEN end
    ELSE LET minPos == CHOOSE m \in {pos[r] : r \in cursors} :
                           IsMin(m, {pos[r] : r \in cursors})
         IN  IF minPos > b THEN minPos ELSE b

\* The buffer buf starting at position b, after trim().
Trim(cursors, pos, b, buf) ==
    LET to == TrimBase(cursors, pos, b, b + Len(buf))
    IN  /\ base' = to
        /\ buffer' = SubSeq(buf, to - b + 1, Len(buf))

-----------------------------------------------------------------------------
(* publish(value).  On a closed queue it returns at once.                  *)

CanPublish == published < MaxPublished /\ ~closed

\* Faulty: drops when the buffer is merely full.
FaultyOverflow(n) == IF n >= BufferLimit THEN n - BufferLimit + 1 ELSE 0

\* How many of n buffered values exceed the limit.
Overflow(n) == IF n > BufferLimit THEN n - BufferLimit ELSE 0

\* Cursors the drop ran past are moved to the oldest value left.
FastForward(b) ==
    [r \in Readers |-> IF r \in Attached /\ position[r] < b
                       THEN b ELSE position[r]]

\* Faulty: off by one at the newest value.
FaultyWoken(pos, lastPos) ==
    {r \in Attached : waiter[r] /\ pos[r] < lastPos}

\* Cursors with a parked next() that now has a value.
Woken(pos, lastPos) == {r \in Attached : waiter[r] /\ pos[r] <= lastPos}

Publish ==
    /\ CanPublish
    /\ published' = published + 1
    /\ LET pushed == Append(buffer, published + 1)
           drop   == Overflow(Len(pushed))
           kept   == SubSeq(pushed, drop + 1, Len(pushed))
           b      == base + drop
           pos    == FastForward(b)
           woken  == Woken(pos, b + Len(kept) - 1)
           after  == [r \in Readers |-> IF r \in woken THEN pos[r] + 1
                                                       ELSE pos[r]]
       IN  /\ position' = after
           /\ waiter' = [r \in Readers |-> waiter[r] /\ r \notin woken]
           /\ outstanding' = [r \in Readers |->
                  IF r \in woken THEN outstanding[r] - 1 ELSE outstanding[r]]
           /\ delivered' = [r \in Readers |->
                  IF r \in woken
                  THEN Append(delivered[r], kept[pos[r] - b + 1])
                  ELSE delivered[r]]
           /\ Trim(Attached, after, b, kept)
    /\ UNCHANGED <<closed, status, ended>>

-----------------------------------------------------------------------------
\* Faulty: wakes no one.
FaultyDrainedNone == {}

\* The parked cursors that close() ends: those with nothing left to read.
Drained == {r \in Attached : waiter[r] /\ position[r] - base >= Len(buffer)}

\* close(): buffered values stay for the cursors that have not read them.
Close ==
    /\ ~closed
    /\ closed' = TRUE
    /\ waiter' = [r \in Readers |-> waiter[r] /\ r \notin Drained]
    /\ outstanding' = [r \in Readers |->
           IF r \in Drained THEN outstanding[r] - 1 ELSE outstanding[r]]
    /\ ended' = [r \in Readers |-> ended[r] \/ r \in Drained]
    /\ UNCHANGED <<buffer, base, status, position, published, delivered>>

\* reader(): starts after the newest value; detached at once if closed.
Reader(r) ==
    /\ status[r] = "none"
    /\ position' = [position EXCEPT ![r] = End]
    /\ status' = [status EXCEPT ![r] = IF closed THEN "detached" ELSE "attached"]
    /\ UNCHANGED <<buffer, base, closed, waiter, callVars>>

-----------------------------------------------------------------------------
(* next() has four outcomes, in the order of the code.                     *)

CanCall(r) == status[r] # "none" /\ outstanding[r] < MaxOutstanding

\* A value of the shared buffer is there for the cursor.
HasValue(r) == position[r] - base >= 0 /\ position[r] - base < Len(buffer)

NextDetached(r) ==
    /\ CanCall(r) /\ status[r] = "detached"
    /\ ended' = [ended EXCEPT ![r] = TRUE]
    /\ UNCHANGED <<queueVars, published, outstanding, delivered>>

NextValue(r) ==
    /\ CanCall(r) /\ r \in Attached /\ HasValue(r)
    /\ delivered' = [delivered EXCEPT
           ![r] = Append(@, buffer[position[r] - base + 1])]
    /\ position' = [position EXCEPT ![r] = @ + 1]
    /\ Trim(Attached, position', base, buffer)
    /\ UNCHANGED <<closed, status, waiter, published, outstanding, ended>>

NextEnd(r) ==
    /\ CanCall(r) /\ r \in Attached /\ ~HasValue(r) /\ closed
    /\ ended' = [ended EXCEPT ![r] = TRUE]
    /\ UNCHANGED <<queueVars, published, outstanding, delivered>>

\* The promise parks; a second concurrent next() replaces the waiter of the
\* first, whose promise nothing can settle any more.
NextPark(r) ==
    /\ CanCall(r) /\ r \in Attached /\ ~HasValue(r) /\ ~closed
    /\ waiter' = [waiter EXCEPT ![r] = TRUE]
    /\ outstanding' = [outstanding EXCEPT ![r] = @ + 1]
    /\ UNCHANGED <<buffer, base, closed, status, position,
                   published, delivered, ended>>

\* return(): detaches the cursor and trims; a parked next() is left as it is.
Return(r) ==
    /\ r \in Attached
    /\ status' = [status EXCEPT ![r] = "detached"]
    /\ Trim(Attached \ {r}, position, base, buffer)
    /\ UNCHANGED <<closed, position, waiter, callVars>>

Next ==
    \/ Publish
    \/ Close
    \/ \E r \in Readers :
          \/ Reader(r)
          \/ NextDetached(r)
          \/ NextValue(r)
          \/ NextEnd(r)
          \/ NextPark(r)
          \/ Return(r)

Spec == Init /\ [][Next]_vars

\* A consumer that goes on calling next() on its reader until it is told the
\* stream ended, as `for await` does.
Consume(r) == NextDetached(r) \/ NextValue(r) \/ NextEnd(r) \/ NextPark(r)

FairSpec == Spec /\ \A r \in Readers : WF_vars(Consume(r))

-----------------------------------------------------------------------------
(* Properties.                                                             *)

\* Every variable has its type.
TypeOK ==
    /\ buffer \in Seq(Nat) /\ base \in Nat /\ closed \in BOOLEAN
    /\ status \in [Readers -> {"none", "attached", "detached"}]
    /\ position \in [Readers -> Nat]
    /\ waiter \in [Readers -> BOOLEAN]
    /\ published \in Nat
    /\ outstanding \in [Readers -> Nat]
    /\ delivered \in [Readers -> Seq(Nat)]
    /\ ended \in [Readers -> BOOLEAN]

\* The buffer is the newest part of the published stream, aligned with base:
\* no splice of publish() or trim() shifts a value away from its position.
WindowOfStream ==
    /\ End = published
    /\ \A i \in 1..Len(buffer) : buffer[i] = base + i

\* No cursor points outside the buffer: neither the overflow of publish() nor
\* trim() on behalf of a faster reader takes a value away from under a cursor.
CursorInWindow == \A r \in Attached : base <= position[r] /\ position[r] <= End

\* The buffer holds exactly the backlog of the slowest reader, and never more
\* than the limit: what everyone has read is freed at once, also when the
\* slowest reader leaves.
SlowestBacklog ==
    /\ Len(buffer) <= BufferLimit
    /\ buffer # <<>> => \E r \in Attached : position[r] = base

\* No lost wake-up: a reader is parked only while there is nothing to read and
\* the queue is open, so publish() and close() never leave one asleep.
ParkedHasNothing ==
    \A r \in Attached : waiter[r] => position[r] = End /\ ~closed

\* Each reader gets values in the order of publication, none of them twice,
\* and none from before its cursor was created or beyond its position.
InOrderNoDuplicate ==
    \A r \in Readers :
       /\ \A i, j \in DOMAIN delivered[r] :
             i < j => delivered[r][i] < delivered[r][j]
       /\ \A i \in DOMAIN delivered[r] : delivered[r][i] <= position[r]

\* A reader that was not detached sees the end of the stream only after close()
\* and only once it has been given everything still buffered for it.
DrainedBeforeEnd ==
    \A r \in Attached : ended[r] => closed /\ position[r] = End

\* The shared buffer is sound: aligned with the published stream, exactly the
\* slowest backlog, and under every cursor, however publish(), trim(), return()
\* and new readers interleave.
BufferAligned == TypeOK /\ WindowOfStream /\ CursorInWindow /\ SlowestBacklog

\* Every reader's stream is sound: no wake-up is lost, values come in order and
\* once, and the end comes after close() and the last value.
StreamsSound == ParkedHasNothing /\ InOrderNoDuplicate /\ DrainedBeforeEnd

\* The shared buffer gives every reader what a private bounded mailbox would:
\* a slow reader never makes another one lose or repeat a value.
Mailbox(r) ==
    IF status[r] = "attached"
    THEN SubSeq(buffer, position[r] - base + 1, Len(buffer)) ELSE <<>>

Private == INSTANCE PrivateMailboxes WITH
               mailbox <- [r \in Readers |-> Mailbox(r)]

ImplementsMailboxes == Private!Spec

\* Once the queue is closed, every consumer that keeps calling next() is told
\* that the stream ended.
ClosedReachesReaders ==
    \A r \in Readers : (closed /\ r \in Attached) ~> (ended[r] \/ r \notin Attached)

\* Subscription.close() promises to terminate the consumer's iterator, and
\* return() is documented as terminal: no next() of a detached reader may stay
\* unsettled.
ReturnSettlesNext ==
    \A r \in Readers : status[r] = "detached" => outstanding[r] = 0

=============================================================================
