----------------------------- MODULE ChatTurns -----------------------------
(***************************************************************************)
(* The turn machine of chatReducer (types/channels-chat/reducer.ts): turns,  *)
(* their response parts, the tool-call states, input requests and the        *)
(* derived status.                                                           *)
(*                                                                           *)
(* Every chat/* action reaches the reducer in the order the host gave it, but*)
(* clients choose most of them from an older state: each action is taken with*)
(* any turn and tool-call id, also one that is over.  Text, inputs, results, *)
(* usage, titles and times are payload and are left out, and with them the   *)
(* actions that only change payload.  The status bit set is its activity and *)
(* the set of its flags.                                                     *)
(***************************************************************************)
EXTENDS Integers, Sequences, FiniteSets, SequencesExt, Subsequence

CONSTANTS
    OlderTurns,         \* turns of the chat before the window first loaded
    MaxTurns,           \* bound: turns started
    MaxParts,           \* bound: response parts of a turn
    ToolIds, InputIds,  \* toolCallId and input request id values
    Flags,              \* flag bits of the status that are looked at
    GenericParts        \* parts a host sends in chat/responsePart

ASSUME TurnBoundAssumption == {OlderTurns, MaxTurns, MaxParts} \subseteq Nat
ASSUME FlagAssumption == Flags \subseteq {"read", "archived"}

TurnIds == 1..(OlderTurns + MaxTurns)
NoTurn  == [id |-> 0, parts |-> <<>>]

Contributors == {"none", "client", "mcp"}
Terminal     == {"completed", "cancelled"}
Blocking     == {"pendingConfirmation", "pendingResultConfirmation", "authRequired"}
ToolStatus   == {"streaming", "running"} \cup Blocking \cup Terminal

\* A response part; only a tool call has a contributor.
Tool(k, s, by) == [kind |-> "tool", id |-> k, status |-> s, by |-> by]
Input(r, s)    == [kind |-> "input", id |-> r, status |-> s, by |-> "none"]
Text           == [kind |-> "text", id |-> "none", status |-> "final", by |-> "none"]
Error(s)       == [kind |-> "error", id |-> "none", status |-> s, by |-> "none"]

ToolParts  == [kind : {"tool"}, id : ToolIds, status : ToolStatus, by : Contributors]
InputParts == [kind : {"input"}, id : InputIds, status : {"open", "answered"}, by : {"none"}]
Parts      == ToolParts \cup InputParts \cup {Text, Error("resumable"), Error("final")}

\* The host may send any part: also a tool call in any state, an input request.
ASSUME GenericAssumption == GenericParts \subseteq Parts

VARIABLES
    active,     \* activeTurn, or NoTurn
    turns,      \* completed turns of the loaded window, oldest first
    activity,   \* the activity bits of status
    flags,      \* the flag bits of status
    cursor,     \* turnsNextCursor is present
    nextTurn,   \* id of the next turn a client or the host starts
    unseen      \* history: positions of the parts that chat/responsePart
                \* appended since the status was last computed

vars == <<active, turns, activity, flags, cursor, nextTurn, unseen>>

Loaded(i) == [id |-> i, parts |-> <<>>, state |-> "complete"]

\* The turns lo..hi of the chat's history.
History(lo, hi) == [k \in 1..(hi - lo + 1) |-> Loaded(lo + k - 1)]

\* A snapshot of an idle chat, with a tail of its history.
Init ==
    /\ active = NoTurn
    /\ \E lo \in 1..(OlderTurns + 1) :
          turns = History(lo, OlderTurns) /\ cursor = (lo > 1)
    /\ activity = "idle"
    /\ flags \in SUBSET Flags
    /\ nextTurn = OlderTurns + 1
    /\ unseen = {}

-----------------------------------------------------------------------------
(* Status.                                                                 *)

\* The part waits for something outside the turn.
Blocks(part) ==
    \/ part.kind = "tool" /\ part.status \in Blocking
    \/ part.kind = "input" /\ part.status = "open"

\* hasBlockingToolCall() or hasOpenInputRequest().
Blocked(turn) == \E k \in DOMAIN turn.parts : Blocks(turn.parts[k])

\* Faulty: a tool call that waits for authentication does not block.
FaultySummaryStatus(turn) ==
    IF turn = NoTurn THEN "idle"
    ELSE IF \E k \in DOMAIN turn.parts :
                Blocks(turn.parts[k]) /\ turn.parts[k].status # "authRequired"
         THEN "inputNeeded" ELSE "inProgress"

\* summaryStatus() of a state with this active turn and no terminal status.
SummaryStatus(turn) ==
    IF turn = NoTurn THEN "idle"
    ELSE IF Blocked(turn) THEN "inputNeeded" ELSE "inProgress"

\* The status is computed from the new state.
Refresh == activity' = SummaryStatus(active') /\ unseen' = {}

-----------------------------------------------------------------------------
(* Turn lifecycle.                                                         *)

\* chat/turnStarted: replaces whatever turn is active.
TurnStarted ==
    /\ nextTurn \in TurnIds
    /\ active' = [id |-> nextTurn, parts |-> <<>>]
    /\ Refresh
    /\ flags' = flags \ {"read"}
    /\ nextTurn' = nextTurn + 1
    /\ UNCHANGED <<turns, cursor>>

\* endTurn(): tool calls that are not terminal are cancelled.
Closed(part) ==
    IF part.kind = "tool" /\ part.status \notin Terminal
    THEN [part EXCEPT !.status = "cancelled"] ELSE part

\* endTurn() of turn t; `last` holds the error part of chat/error.
EndTurn(t, state, last, terminal) ==
    /\ active.id = t
    /\ turns' = Append(turns,
          [id |-> t, parts |-> [k \in DOMAIN active.parts |-> Closed(active.parts[k])] \o last,
           state |-> state])
    /\ active' = NoTurn
    /\ activity' = terminal
    /\ unseen' = {}
    /\ UNCHANGED <<flags, cursor, nextTurn>>

TurnComplete(t)  == EndTurn(t, "complete", <<>>, "idle")
TurnCancelled(t) == EndTurn(t, "cancelled", <<>>, "idle")
ChatError(t, resumable) ==
    /\ Len(active.parts) < MaxParts
    /\ EndTurn(t, "error", <<Error(IF resumable THEN "resumable" ELSE "final")>>, "error")

\* The turn ended in an error that can be resumed: hasResumableError().
Resumable(turn) ==
    turn.state = "error" /\ turn.parts # <<>> /\ Last(turn.parts) = Error("resumable")

\* chat/turnResume: reopens the latest turn.
TurnResume(t) ==
    /\ active = NoTurn /\ turns # <<>> /\ Last(turns).id = t /\ Resumable(Last(turns))
    /\ turns' = Front(turns)
    /\ active' = [id |-> t, parts |-> Last(turns).parts]
    /\ Refresh
    /\ flags' = flags \ {"read"}
    /\ UNCHANGED <<cursor, nextTurn>>

\* chat/truncated: keeps the turns up to t, or none (t = 0).
Truncated(t) ==
    /\ t = 0 \/ \E k \in DOMAIN turns : turns[k].id = t
    /\ turns' = IF t = 0 THEN <<>>
                ELSE SubSeq(turns, 1, CHOOSE k \in DOMAIN turns : turns[k].id = t)
    /\ active' = NoTurn
    /\ cursor' = (cursor /\ t # 0)
    /\ Refresh
    /\ UNCHANGED <<flags, nextTurn>>

\* Faulty: no check for turns that are already there.
FaultyNewTurns(page) == page

\* The turns of a page that are not in the window yet.
NewTurns(page) ==
    Kept(page, {turn \in ToSet(page) : \A k \in DOMAIN turns : turns[k].id # turn.id})

\* chat/turnsLoaded: a page of older turns, which reaches the window and may
\* overlap it, but holds no turn the host has dropped.
TurnsLoaded(lo, hi) ==
    LET first == IF turns = <<>> THEN OlderTurns + 1 ELSE Head(turns).id IN
    /\ cursor /\ lo < first /\ hi >= first - 1
    /\ \A i \in first..hi : \E k \in DOMAIN turns : turns[k].id = i
    /\ turns' = NewTurns(History(lo, hi)) \o turns
    /\ cursor' = (lo > 1)
    /\ UNCHANGED <<active, activity, flags, nextTurn, unseen>>

-----------------------------------------------------------------------------
(* Response parts and tool calls.                                          *)

Push(turn, part) == [turn EXCEPT !.parts = Append(@, part)]
OnlyActive == UNCHANGED <<turns, flags, cursor, nextTurn>>

\* chat/responsePart: an error part is refused; the status is not refreshed.
ResponsePart(t, part) ==
    /\ active.id = t /\ Len(active.parts) < MaxParts
    /\ part.kind # "error"
    /\ active' = Push(active, part)
    /\ unseen' = unseen \cup {Len(active.parts) + 1}
    /\ OnlyActive /\ UNCHANGED activity

\* chat/toolCallStart: nothing checks that the id is new in the turn.
ToolCallStart(t, k, by) ==
    /\ active.id = t /\ Len(active.parts) < MaxParts
    /\ active' = Push(active, Tool(k, "streaming", by))
    /\ OnlyActive /\ UNCHANGED <<activity, unseen>>

\* refineToolCallContributor(): a client keeps its call and gets no other.
Refine(current, next) ==
    IF next = "none" \/ current = "client" \/ next = "client" THEN current ELSE next

\* The updaters of the tool-call actions; a part in another state is kept.
Ready(part, confirmed, by) ==
    IF part.status \in {"streaming", "running", "pendingConfirmation"}
    THEN [part EXCEPT !.status = IF confirmed THEN "running" ELSE "pendingConfirmation",
                      !.by = Refine(part.by, by)]
    ELSE part

Confirmed(part, approved) ==
    IF part.status = "pendingConfirmation"
    THEN [part EXCEPT !.status = IF approved THEN "running" ELSE "cancelled"]
    ELSE part

\* Faulty: a completed call can be completed again, with another result.
FaultyCompleted(part, success, review) ==
    IF part.status \in {"running", "pendingConfirmation", "authRequired", "completed"}
    THEN [part EXCEPT !.status = IF review THEN "pendingResultConfirmation" ELSE "completed"]
    ELSE part

\* From authRequired a call can only fail, and is not reviewed.
Completed(part, success, review) ==
    IF \/ part.status \in {"running", "pendingConfirmation"}
       \/ part.status = "authRequired" /\ ~success
    THEN [part EXCEPT !.status = IF review /\ part.status # "authRequired"
                                 THEN "pendingResultConfirmation" ELSE "completed"]
    ELSE part

ResultConfirmed(part, approved) ==
    IF part.status = "pendingResultConfirmation"
    THEN [part EXCEPT !.status = IF approved THEN "completed" ELSE "cancelled"]
    ELSE part

AuthRequired(part) ==
    IF part.status = "running" /\ part.by = "mcp"
    THEN [part EXCEPT !.status = "authRequired"] ELSE part

AuthResolved(part) ==
    IF part.status = "authRequired" THEN [part EXCEPT !.status = "running"] ELSE part

\* updateToolCallInParts(): the updater for tool call k, if t is the active turn.
UpdateToolCall(t, k, updater) ==
    IF active.id # t THEN active
    ELSE [active EXCEPT !.parts =
            [j \in DOMAIN active.parts |->
                IF active.parts[j].kind = "tool" /\ active.parts[j].id = k
                THEN updater[active.parts[j]] ELSE active.parts[j]]]

\* refreshSummaryStatus(updateToolCallInParts(...)): the status is computed
\* anew whether or not a tool call was found.
ToolCallAction(t, k, updater) ==
    /\ active' = UpdateToolCall(t, k, updater)
    /\ Refresh
    /\ OnlyActive

ToolCallReady(t, k) ==
    \E confirmed \in BOOLEAN, by \in Contributors :
        ToolCallAction(t, k, [part \in ToolParts |-> Ready(part, confirmed, by)])
ToolCallConfirmed(t, k) ==
    \E approved \in BOOLEAN : ToolCallAction(t, k, [part \in ToolParts |-> Confirmed(part, approved)])
ToolCallComplete(t, k) ==
    \E success, review \in BOOLEAN :
        ToolCallAction(t, k, [part \in ToolParts |-> Completed(part, success, review)])
ToolCallResultConfirmed(t, k) ==
    \E approved \in BOOLEAN : ToolCallAction(t, k, [part \in ToolParts |-> ResultConfirmed(part, approved)])
ToolCallAuthRequired(t, k) ==
    ToolCallAction(t, k, [part \in ToolParts |-> AuthRequired(part)])
ToolCallAuthResolved(t, k) ==
    ToolCallAction(t, k, [part \in ToolParts |-> AuthResolved(part)])

-----------------------------------------------------------------------------
(* Input requests and flags.                                               *)

\* findOpenInputRequestPart(): the positions of open requests r.
OpenInputs(turn, r) == {k \in DOMAIN turn.parts : turn.parts[k] = Input(r, "open")}

\* chat/inputRequested: upsertInputRequestPart().
InputRequested(r) ==
    /\ active # NoTurn
    /\ active' = IF OpenInputs(active, r) # {} THEN active ELSE Push(active, Input(r, "open"))
    /\ OpenInputs(active, r) = {} => Len(active.parts) < MaxParts
    /\ Refresh
    /\ flags' = flags \ {"read"}
    /\ UNCHANGED <<turns, cursor, nextTurn>>

\* chat/inputCompleted: answers the first open request r.
InputCompleted(r) ==
    \E k \in OpenInputs(active, r) :
        /\ \A j \in OpenInputs(active, r) : k <= j
        /\ active' = [active EXCEPT !.parts[k] = Input(r, "answered")]
        /\ Refresh
        /\ OnlyActive

\* chat/isReadChanged, chat/isArchivedChanged: withStatusFlag().
FlagChanged(flag, set) ==
    /\ flags' = IF set THEN flags \cup {flag} ELSE flags \ {flag}
    /\ UNCHANGED <<active, turns, activity, cursor, nextTurn, unseen>>

-----------------------------------------------------------------------------
TurnAction(t) ==
    \/ TurnComplete(t) \/ TurnCancelled(t) \/ TurnResume(t)
    \/ \E resumable \in BOOLEAN : ChatError(t, resumable)
    \/ \E part \in GenericParts : ResponsePart(t, part)

ToolAction(t, k) ==
    \/ \E by \in Contributors : ToolCallStart(t, k, by)
    \/ ToolCallReady(t, k) \/ ToolCallConfirmed(t, k) \/ ToolCallComplete(t, k)
    \/ ToolCallResultConfirmed(t, k)
    \/ ToolCallAuthRequired(t, k) \/ ToolCallAuthResolved(t, k)

Next ==
    \/ TurnStarted
    \/ \E t \in TurnIds : TurnAction(t) \/ \E k \in ToolIds : ToolAction(t, k)
    \/ \E t \in TurnIds \cup {0} : Truncated(t)
    \/ \E lo, hi \in 1..OlderTurns : TurnsLoaded(lo, hi)
    \/ \E r \in InputIds : InputRequested(r) \/ InputCompleted(r)
    \/ \E flag \in Flags, set \in BOOLEAN : FlagChanged(flag, set)

Spec == Init /\ [][Next]_vars

-----------------------------------------------------------------------------
(* Properties.                                                             *)

\* The state has the shape of ChatState.
TypeOK ==
    /\ active.id \in TurnIds \cup {0} /\ active.parts \in Seq(Parts)
    /\ \A k \in DOMAIN turns :
          /\ turns[k].id \in TurnIds /\ turns[k].parts \in Seq(Parts)
          /\ turns[k].state \in {"complete", "cancelled", "error"}
    /\ activity \in {"idle", "error", "inProgress", "inputNeeded"}
    /\ flags \subseteq Flags
    /\ cursor \in BOOLEAN
    /\ nextTurn \in 1..(OlderTurns + MaxTurns + 1)
    /\ unseen \subseteq DOMAIN active.parts

\* The status clients see says what the chat waits for, however many tool calls
\* and input requests opened and closed on the way: summaryStatus() is neither
\* forgotten nor applied to a stale state, and covers calls paused for
\* authentication.  What chat/responsePart appended is the one exception, and
\* only until the next action that computes the status: it never makes a chat
\* look as if it waited, hides no other wait, and does not outlive the turn.
\* The guide has no such exception (state-model.md:144, elicitation.md:39), and
\* says of Error that the last turn failed (:142), which a late tool-call action
\* clears: without a turn the status is only one of the two.
StatusFollowsTurn ==
    /\ TypeOK
    /\ active = NoTurn <=> activity \in {"idle", "error"}
    /\ active # NoTurn =>
          (activity = "inputNeeded" <=>
              \E k \in DOMAIN active.parts \ unseen : Blocks(active.parts[k]))

\* No tool call of a completed turn is left pending or running.
CallsAreOver ==
    \A k \in DOMAIN turns : \A j \in DOMAIN turns[k].parts :
        turns[k].parts[j].kind = "tool" => turns[k].parts[j].status \in Terminal

\* Turns are in the order they were started and none is there twice, the
\* active one included, whatever pages were loaded, resumed or truncated.
TurnsInOrder ==
    /\ \A j, k \in DOMAIN turns : j < k => turns[j].id < turns[k].id
    /\ active # NoTurn => \A k \in DOMAIN turns : turns[k].id < active.id

\* An error that cannot be resumed is the end: it is the last part of a turn
\* whose state is error, and no turn goes on after it.
FinalErrorIsFinal ==
    /\ Error("final") \notin ToSet(active.parts)
    /\ \A k \in DOMAIN turns : \A j \in DOMAIN turns[k].parts :
          turns[k].parts[j] = Error("final") =>
              j = Len(turns[k].parts) /\ turns[k].state = "error"

\* The history is settled: in a completed turn every tool call is over, also when
\* the turn was resumed and ended again, an error that cannot be resumed ends
\* its turn, and turns stay unique and in order across pages, resumes and
\* truncations.
HistoryIsSettled == CallsAreOver /\ TurnsInOrder /\ FinalErrorIsFinal

\* The parts of turn t in a state with this active turn and history.
PartsOf(t, act, done) ==
    IF act.id = t THEN act.parts
    ELSE LET ks == {k \in DOMAIN done : done[k].id = t}
         IN  IF ks = {} THEN <<>> ELSE done[CHOOSE k \in ks : TRUE].parts

Present(t, act, done) == act.id = t \/ \E k \in DOMAIN done : done[k].id = t

\* No part of old is lost, moved or replaced in new, what is over keeps its
\* state, and the client that runs a tool call stays the same.
Continues(old, new) ==
    /\ Len(old) <= Len(new)
    /\ \A k \in DOMAIN old :
          /\ new[k].kind = old[k].kind /\ new[k].id = old[k].id
          /\ old[k].status \in Terminal \cup {"answered"} => new[k] = old[k]
          /\ (new[k].by = "client") <=> (old[k].by = "client")

TranscriptsContinue ==
    \A t \in TurnIds :
       (Present(t, active, turns) /\ Present(t, active', turns')) =>
          Continues(PartsOf(t, active, turns), PartsOf(t, active', turns'))

\* The transcript of a turn is append-only while the turn exists, across its
\* end, an error and a resume: no part is lost, moved or replaced, a tool call
\* that is over and an answered request keep their state, and the client that
\* runs a tool call stays the same.
TranscriptAppendOnly == [][TranscriptsContinue]_vars

=============================================================================
