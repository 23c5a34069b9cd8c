-------------------------- MODULE PrivateMailboxes --------------------------
(***************************************************************************)
(* What AsyncBroadcastQueue (async-queue.ts) promises its readers: each     *)
(* reader behaves as if it owned a private first-in first-out mailbox that  *)
(* keeps the newest BufferLimit values, whatever the other readers do.  No  *)
(* buffer is shared here and no position exists.                            *)
(***************************************************************************)
EXTENDS Integers, Sequences

CONSTANTS Readers, BufferLimit, MaxPublished, MaxOutstanding

VARIABLES mailbox, closed, status, waiter,
          published, outstanding, delivered, ended

callVars == <<published, outstanding, delivered, ended>>
vars     == <<mailbox, closed, status, waiter, callVars>>

Init ==
    /\ mailbox = [r \in Readers |-> <<>>]
    /\ closed = FALSE
    /\ status = [r \in Readers |-> "none"]
    /\ waiter = [r \in Readers |-> FALSE]
    /\ published = 0
    /\ outstanding = [r \in Readers |-> 0]
    /\ delivered = [r \in Readers |-> <<>>]
    /\ ended = [r \in Readers |-> FALSE]

Attached == {r \in Readers : status[r] = "attached"}

\* The mailbox s with v added, cut down to the newest BufferLimit values.
Keep(s, v) ==
    LET t == Append(s, v)
    IN  IF Len(t) > BufferLimit
        THEN SubSeq(t, Len(t) - BufferLimit + 1, Len(t)) ELSE t

\* A parked reader takes the first value of its mailbox at once.
Publish ==
    /\ published < MaxPublished
    /\ ~closed
    /\ published' = published + 1
    /\ LET box(r) == Keep(mailbox[r], published + 1)
           woken  == {r \in Attached : waiter[r] /\ box(r) # <<>>}
       IN  /\ mailbox' = [r \in Readers |->
                  IF r \in woken THEN Tail(box(r))
                  ELSE IF r \in Attached THEN box(r) ELSE mailbox[r]]
           /\ waiter' = [r \in Readers |-> waiter[r] /\ r \notin woken]
           /\ outstanding' = [r \in Readers |->
                  IF r \in woken THEN outstanding[r] - 1 ELSE outstanding[r]]
           /\ delivered' = [r \in Readers |->
                  IF r \in woken THEN Append(delivered[r], Head(box(r)))
                  ELSE delivered[r]]
    /\ UNCHANGED <<closed, status, ended>>

Close ==
    /\ ~closed
    /\ closed' = TRUE
    /\ LET idle == {r \in Attached : waiter[r]}
       IN  /\ waiter' = [r \in Readers |-> waiter[r] /\ r \notin idle]
           /\ outstanding' = [r \in Readers |->
                  IF r \in idle THEN outstanding[r] - 1 ELSE outstanding[r]]
           /\ ended' = [r \in Readers |-> ended[r] \/ r \in idle]
    /\ UNCHANGED <<mailbox, status, published, delivered>>

Reader(r) ==
    /\ status[r] = "none"
    /\ status' = [status EXCEPT ![r] = IF closed THEN "detached" ELSE "attached"]
    /\ UNCHANGED <<mailbox, closed, waiter, callVars>>

CanCall(r) == status[r] # "none" /\ outstanding[r] < MaxOutstanding

NextValue(r) ==
    /\ CanCall(r) /\ r \in Attached /\ mailbox[r] # <<>>
    /\ delivered' = [delivered EXCEPT ![r] = Append(@, Head(mailbox[r]))]
    /\ mailbox' = [mailbox EXCEPT ![r] = Tail(@)]
    /\ UNCHANGED <<closed, status, waiter, published, outstanding, ended>>

\* The end of the stream: a closed stream that is drained, or a detached reader.
NextEnd(r) ==
    /\ CanCall(r)
    /\ status[r] = "detached" \/ (closed /\ mailbox[r] = <<>>)
    /\ ended' = [ended EXCEPT ![r] = TRUE]
    /\ UNCHANGED <<mailbox, closed, status, waiter,
                   published, outstanding, delivered>>

NextPark(r) ==
    /\ CanCall(r) /\ r \in Attached /\ mailbox[r] = <<>> /\ ~closed
    /\ waiter' = [waiter EXCEPT ![r] = TRUE]
    /\ outstanding' = [outstanding EXCEPT ![r] = @ + 1]
    /\ UNCHANGED <<mailbox, closed, status, published, delivered, ended>>

Return(r) ==
    /\ r \in Attached
    /\ status' = [status EXCEPT ![r] = "detached"]
    /\ mailbox' = [mailbox EXCEPT ![r] = <<>>]
    /\ UNCHANGED <<closed, waiter, callVars>>

Next ==
    \/ Publish
    \/ Close
    \/ \E r \in Readers : \/ Reader(r)
                          \/ NextValue(r)
                          \/ NextEnd(r)
                          \/ NextPark(r)
                          \/ Return(r)

Spec == Init /\ [][Next]_vars

=============================================================================
