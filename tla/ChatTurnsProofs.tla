--------------------------- MODULE ChatTurnsProofs ---------------------------
(***************************************************************************)
(* Proofs about ChatTurns: for any number of turns, parts, tool calls and   *)
(* input requests, the status follows the active turn, the history is       *)
(* settled and the transcript of a turn is append-only.                     *)
(*                                                                          *)
(* HistoryIsSettled is not inductive.  A page of older turns goes in front  *)
(* of the window also while a turn is active, and the page is only known to *)
(* be older than the window: Started adds that the active turn, and every   *)
(* turn that can become active again, is newer than any page.               *)
(***************************************************************************)
EXTENDS ChatTurns, SubsequenceProofs

Turn == [id : TurnIds \cup {0}, parts : Seq(Parts)]
Done == [id : TurnIds, parts : Seq(Parts), state : {"complete", "cancelled", "error"}]

\* TypeOK, with the window as a sequence.
Typed ==
    /\ active \in Turn
    /\ turns \in Seq(Done)
    /\ activity \in {"idle", "error", "inProgress", "inputNeeded"}
    /\ flags \subseteq Flags
    /\ cursor \in BOOLEAN
    /\ nextTurn \in (OlderTurns + 1)..(OlderTurns + MaxTurns + 1)

\* Turns are numbered as they are started, and those that were started here
\* are the only ones that can be active or end in an error.
Started ==
    /\ active # NoTurn => OlderTurns < active.id /\ active.id < nextTurn
    /\ \A k \in DOMAIN turns :
          /\ turns[k].id < nextTurn
          /\ turns[k].state = "error" => OlderTurns < turns[k].id

\* The inductive invariant of the history.
IInv == Typed /\ Started /\ HistoryIsSettled

\* The status as summaryStatus() computes it, without the parts in unseen.
SeenStatus ==
    IF \E k \in DOMAIN active.parts \ unseen : Blocks(active.parts[k])
    THEN "inputNeeded" ELSE "inProgress"

\* summaryStatus() is up to date, but for what chat/responsePart appended.
Refreshed ==
    /\ unseen \subseteq DOMAIN active.parts
    /\ active = NoTurn => activity \in {"idle", "error"}
    /\ active # NoTurn => activity = SeenStatus

-----------------------------------------------------------------------------
(* Response parts.                                                         *)

(* What the parts of each kind are.                                         *)
LEMMA PartFacts ==
    /\ \A part \in Parts : part.kind = "tool" => part \in ToolParts
    /\ \A part \in ToolParts : /\ part \in Parts /\ part.kind = "tool" /\ part.status \in ToolStatus
                               /\ part.status # "answered" /\ part # Error("final")
    /\ Text \in Parts /\ Error("resumable") \in Parts /\ Error("final") \in Parts
    /\ \A r \in InputIds : \A s \in {"open", "answered"} :
          Input(r, s) \in Parts /\ Input(r, s) # Error("final")
    /\ Text # Error("final") /\ Error("resumable") # Error("final")
    /\ Error("final").kind = "error" /\ Error("resumable").kind = "error" /\ Text.kind = "text"
  <1>1. \A part \in ToolParts : part.kind = "tool" /\ part.status \in ToolStatus
    BY DEF ToolParts
  <1>2. \A part \in InputParts : part.kind = "input"
    BY DEF InputParts
  <1>3. /\ Error("final").kind = "error" /\ Error("resumable").kind = "error" /\ Text.kind = "text"
        /\ Error("final").status # Error("resumable").status
    BY DEF Error, Text
  <1>4. \A part \in Parts : part.kind = "tool" => part \in ToolParts
    BY <1>2, <1>3 DEF Parts
  <1>5. "answered" \notin ToolStatus
    BY DEF ToolStatus, Blocking, Terminal
  <1>6. \A r \in InputIds : \A s \in {"open", "answered"} :
           Input(r, s) \in InputParts /\ Input(r, s).kind = "input"
    BY DEF Input, InputParts
  <1> QED
    BY <1>1, <1>3, <1>4, <1>5, <1>6 DEF Parts

\* What the updater of a tool-call action may do to a tool call.
Updates(u) ==
    /\ u \in [ToolParts -> ToolParts]
    /\ \A part \in ToolParts :
          /\ u[part].id = part.id
          /\ part.status \in Terminal => u[part] = part
          /\ (u[part].by = "client") <=> (part.by = "client")

(* A call that is over keeps its state, and none changes its client.        *)
LEMMA UpdatersUpdate ==
    /\ \A confirmed \in BOOLEAN, by \in Contributors :
          Updates([part \in ToolParts |-> Ready(part, confirmed, by)])
    /\ \A approved \in BOOLEAN : Updates([part \in ToolParts |-> Confirmed(part, approved)])
    /\ \A success, review \in BOOLEAN :
          Updates([part \in ToolParts |-> Completed(part, success, review)])
    /\ \A approved \in BOOLEAN : Updates([part \in ToolParts |-> ResultConfirmed(part, approved)])
    /\ Updates([part \in ToolParts |-> AuthRequired(part)])
    /\ Updates([part \in ToolParts |-> AuthResolved(part)])
  <1> USE DEF Updates, ToolParts, ToolStatus, Blocking, Terminal, Contributors
  <1>1. \A confirmed \in BOOLEAN, by \in Contributors :
          Updates([part \in ToolParts |-> Ready(part, confirmed, by)])
    <2> SUFFICES ASSUME NEW confirmed \in BOOLEAN, NEW by \in Contributors
                 PROVE  Updates([part \in ToolParts |-> Ready(part, confirmed, by)])
      OBVIOUS
    <2>1. ASSUME NEW part \in ToolParts
          PROVE  /\ Ready(part, confirmed, by) \in ToolParts
                 /\ Ready(part, confirmed, by).id = part.id
                 /\ part.status \in Terminal => Ready(part, confirmed, by) = part
                 /\ (Ready(part, confirmed, by).by = "client") <=> (part.by = "client")
      <3>1. Refine(part.by, by) \in Contributors /\ (Refine(part.by, by) = "client" <=> part.by = "client")
        BY DEF Refine
      <3> DEFINE s == IF confirmed THEN "running" ELSE "pendingConfirmation"
                 b == Refine(part.by, by)
      <3>2. s \in ToolStatus
        OBVIOUS
      <3> HIDE DEF s, b
      <3>3. [part EXCEPT !.status = s, !.by = b]
               = [kind |-> "tool", id |-> part.id, status |-> s, by |-> b]
        <4> DEFINE q == [part EXCEPT !.status = s]
        <4>1. q = [kind |-> "tool", id |-> part.id, status |-> s, by |-> part.by]
          OBVIOUS
        <4>2. q \in ToolParts /\ q.id = part.id /\ q.status = s
          BY <4>1, <3>2
        <4> HIDE DEF q
        <4>3. [q EXCEPT !.by = b] = [kind |-> "tool", id |-> part.id, status |-> s, by |-> b]
          BY <4>2
        <4> QED
          BY <4>3, Zenon DEF q
      <3>4. Ready(part, confirmed, by) = part
               \/ (/\ Ready(part, confirmed, by) = [part EXCEPT !.status = s, !.by = b]
                   /\ part.status \notin Terminal)
        BY DEF Ready, s, b
      <3> QED
        BY <3>1, <3>2, <3>3, <3>4 DEF b
    <2> QED
      BY <2>1
  <1>2. \A approved \in BOOLEAN : Updates([part \in ToolParts |-> Confirmed(part, approved)])
    BY DEF Confirmed
  <1>3. \A success, review \in BOOLEAN :
          Updates([part \in ToolParts |-> Completed(part, success, review)])
    BY DEF Completed
  <1>4. \A approved \in BOOLEAN : Updates([part \in ToolParts |-> ResultConfirmed(part, approved)])
    BY DEF ResultConfirmed
  <1>5. Updates([part \in ToolParts |-> AuthRequired(part)])
    BY DEF AuthRequired
  <1>6. Updates([part \in ToolParts |-> AuthResolved(part)])
    BY DEF AuthResolved
  <1> QED
    BY <1>1, <1>2, <1>3, <1>4, <1>5, <1>6

-----------------------------------------------------------------------------
(* Actions that only change the active turn.                               *)

\* The active turn goes on: its parts continue, and no final error joins them.
Grows ==
    /\ active' \in Turn /\ active'.id = active.id
    /\ active = NoTurn => active' = active
    /\ Continues(active.parts, active'.parts)
    /\ \A k \in 1..Len(active'.parts) : active'.parts[k] # Error("final")
    /\ UNCHANGED <<turns, cursor, nextTurn>>

(* A sequence of parts as a function on 1..Len, none of them final.         *)
LEMMA ActiveParts ==
    ASSUME IInv
    PROVE  /\ active.id \in TurnIds \cup {0} /\ active.parts \in Seq(Parts)
           /\ Len(active.parts) \in Nat /\ DOMAIN active.parts = 1..Len(active.parts)
           /\ \A k \in 1..Len(active.parts) :
                 active.parts[k] \in Parts /\ active.parts[k] # Error("final")
           /\ active = [id |-> active.id, parts |-> active.parts]
           /\ 0 \notin TurnIds
           /\ active # NoTurn <=> active.id \in TurnIds
  <1>1. active \in Turn
    BY DEF IInv, Typed
  <1>2. /\ active.id \in TurnIds \cup {0} /\ active.parts \in Seq(Parts)
        /\ active = [id |-> active.id, parts |-> active.parts]
    BY <1>1 DEF Turn
  <1>3. /\ Len(active.parts) \in Nat /\ DOMAIN active.parts = 1..Len(active.parts)
        /\ \A k \in 1..Len(active.parts) : active.parts[k] \in Parts
    BY <1>2
  <1>4. \A k \in DOMAIN active.parts : active.parts[k] # Error("final")
    BY Zenon DEF IInv, HistoryIsSettled, FinalErrorIsFinal, ToSet
  <1>5. 0 \notin TurnIds /\ OlderTurns \in Nat
    BY TurnBoundAssumption DEF TurnIds
  <1>6. active # NoTurn => active.id # 0
    BY <1>5, <1>2, TurnBoundAssumption DEF IInv, Started, TurnIds
  <1>7. NoTurn.id = 0
    BY DEF NoTurn
  <1> QED
    BY <1>2, <1>3, <1>4, <1>5, <1>6, <1>7

(* A part that is no final error is pushed onto an active turn.             *)
LEMMA PushGrows ==
    ASSUME IInv, NEW part \in Parts, part # Error("final"), active.id \in TurnIds,
           active' = Push(active, part), UNCHANGED <<turns, cursor, nextTurn>>
    PROVE  /\ Grows /\ active'.parts = Append(active.parts, part)
           /\ active # NoTurn /\ active' # NoTurn
  <1> DEFINE p == active.parts
             np == Append(p, part)
  <1>1. /\ p \in Seq(Parts) /\ Len(p) \in Nat /\ DOMAIN p = 1..Len(p)
        /\ active = [id |-> active.id, parts |-> p] /\ 0 \notin TurnIds
        /\ \A k \in 1..Len(p) : p[k] # Error("final")
    BY ActiveParts
  <1>2. active' = [id |-> active.id, parts |-> np]
    BY <1>1 DEF Push
  <1>3. /\ np \in Seq(Parts) /\ Len(np) = Len(p) + 1 /\ np[Len(p) + 1] = part
        /\ \A k \in 1..Len(p) : np[k] = p[k]
        /\ \A k \in 1..Len(np) : k \in 1..Len(p) \/ k = Len(p) + 1
    BY <1>1
  <1>4. active'.id = active.id /\ active'.parts = np /\ active' \in Turn
    BY <1>2, <1>3 DEF Turn
  <1> HIDE DEF p, np
  <1>5. Continues(p, np)
    BY <1>1, <1>3 DEF Continues
  <1>6. \A k \in 1..Len(np) : np[k] # Error("final")
    BY <1>1, <1>3
  <1>7. active # NoTurn /\ active' # NoTurn
    BY <1>1, <1>4 DEF NoTurn
  <1> QED
    BY <1>4, <1>5, <1>6, <1>7 DEF Grows, p, np

(* updateToolCallInParts() with an updater of that kind.                    *)
LEMMA UpdateGrows ==
    ASSUME IInv, NEW t \in TurnIds, NEW k, NEW u, Updates(u), ToolCallAction(t, k, u)
    PROVE  Grows
  <1> DEFINE p == active.parts
             np == [j \in DOMAIN p |-> IF p[j].kind = "tool" /\ p[j].id = k THEN u[p[j]] ELSE p[j]]
  <1>1. /\ p \in Seq(Parts) /\ Len(p) \in Nat /\ DOMAIN p = 1..Len(p)
        /\ active = [id |-> active.id, parts |-> p] /\ 0 \notin TurnIds
        /\ active.id \in TurnIds \cup {0}
        /\ \A j \in 1..Len(p) : p[j] \in Parts /\ p[j] # Error("final")
    BY ActiveParts
  <1>2. UNCHANGED <<turns, cursor, nextTurn>>
    BY DEF ToolCallAction, OnlyActive
  <1>3. CASE active.id # t
    <2>1. active' = active
      BY <1>3 DEF ToolCallAction, UpdateToolCall
    <2>2. Continues(p, p)
      BY <1>1 DEF Continues
    <2>3. active \in Turn
      BY DEF IInv, Typed
    <2> QED
      BY <1>1, <1>2, <2>1, <2>2, <2>3 DEF Grows
  <1>4. CASE active.id = t
    <2>1. active' = [id |-> active.id, parts |-> np]
      BY <1>1, <1>4 DEF ToolCallAction, UpdateToolCall
    <2>2. ASSUME NEW j \in 1..Len(p)
          PROVE  /\ np[j] \in Parts /\ np[j] # Error("final")
                 /\ np[j].kind = p[j].kind /\ np[j].id = p[j].id
                 /\ p[j].status \in Terminal \cup {"answered"} => np[j] = p[j]
                 /\ (np[j].by = "client") <=> (p[j].by = "client")
      <3>1. p[j] \in Parts /\ p[j] # Error("final")
        BY <1>1
      <3>2. np[j] = IF p[j].kind = "tool" /\ p[j].id = k THEN u[p[j]] ELSE p[j]
        BY <1>1
      <3> HIDE DEF np
      <3>3. CASE p[j].kind = "tool" /\ p[j].id = k
        <4>1. p[j] \in ToolParts /\ u[p[j]] \in ToolParts /\ np[j] = u[p[j]]
          BY <3>1, <3>2, <3>3, PartFacts DEF Updates
        <4>2. u[p[j]].kind = "tool" /\ u[p[j]] # Error("final") /\ u[p[j]] \in Parts
          BY <4>1, PartFacts
        <4>3. p[j].status # "answered"
          BY <4>1, PartFacts
        <4> QED
          BY <3>3, <4>1, <4>2, <4>3 DEF Updates
      <3>4. CASE ~(p[j].kind = "tool" /\ p[j].id = k)
        BY <3>1, <3>2, <3>4
      <3> QED
        BY <3>3, <3>4
    <2>3. np \in Seq(Parts) /\ Len(np) = Len(p) /\ DOMAIN np = 1..Len(p)
      <3>1. np = [j \in 1..Len(p) |-> np[j]]
        BY <1>1
      <3> QED
        BY <1>1, <2>2, <3>1, IsASeq
    <2> HIDE DEF np
    <2>4. active' \in Turn /\ active'.id = active.id /\ active'.parts = np
      BY <2>1, <2>3, <1>1 DEF Turn
    <2>5. Continues(p, np)
      BY <1>1, <2>2, <2>3 DEF Continues
    <2>6. active # NoTurn
      BY <1>1, <1>4 DEF NoTurn
    <2> QED
      BY <1>2, <2>2, <2>3, <2>4, <2>5, <2>6 DEF Grows
  <1> QED
    BY <1>3, <1>4

(* Answering an open request changes that part only.                        *)
LEMMA InputCompletedGrows ==
    ASSUME IInv, NEW r \in InputIds, InputCompleted(r)
    PROVE  Grows
  <1> DEFINE p == active.parts
  <1>1. /\ p \in Seq(Parts) /\ Len(p) \in Nat /\ DOMAIN p = 1..Len(p)
        /\ active = [id |-> active.id, parts |-> p] /\ active.id \in TurnIds \cup {0}
        /\ \A j \in 1..Len(p) : p[j] \in Parts /\ p[j] # Error("final")
    BY ActiveParts
  <1>2. PICK k \in 1..Len(p) : /\ p[k] = Input(r, "open")
                               /\ active' = [active EXCEPT !.parts[k] = Input(r, "answered")]
    BY <1>1 DEF InputCompleted, OpenInputs
  <1> DEFINE np == [p EXCEPT ![k] = Input(r, "answered")]
  <1>3. active' = [id |-> active.id, parts |-> np]
    BY <1>1, <1>2
  <1>4. Input(r, "answered") \in Parts /\ Input(r, "answered") # Error("final")
    BY PartFacts
  <1>5. /\ np \in Seq(Parts) /\ Len(np) = Len(p) /\ np[k] = Input(r, "answered")
        /\ \A j \in 1..Len(p) : j # k => np[j] = p[j]
    BY <1>1, <1>4
  <1> HIDE DEF np
  <1>6. Continues(p, np)
    <2>1. /\ np[k].kind = p[k].kind /\ np[k].id = p[k].id
          /\ p[k].status \notin Terminal \cup {"answered"} /\ np[k].by = p[k].by
      BY <1>2, <1>5 DEF Input, Terminal
    <2> QED
      BY <1>1, <1>5, <2>1 DEF Continues
  <1>7. active' \in Turn /\ active'.id = active.id /\ active'.parts = np
    BY <1>1, <1>3, <1>5 DEF Turn
  <1>8. active # NoTurn
    BY <1>2, <1>1 DEF NoTurn
  <1>9. UNCHANGED <<turns, cursor, nextTurn>>
    BY DEF InputCompleted, OnlyActive
  <1> QED
    BY <1>1, <1>4, <1>5, <1>6, <1>7, <1>8, <1>9 DEF Grows

-----------------------------------------------------------------------------
(* Finding a turn.                                                         *)

\* No turn is there twice.
Window(act, done) ==
    /\ \A j, k \in DOMAIN done : done[j].id = done[k].id => j = k
    /\ \A k \in DOMAIN done : done[k].id # act.id

(* Turns in order are distinct.                                             *)
LEMMA WindowOf ==
    ASSUME NEW act, NEW done \in Seq(Done),
           \A j, k \in DOMAIN done : j < k => done[j].id < done[k].id,
           act # NoTurn => \A k \in DOMAIN done : done[k].id < act.id
    PROVE  Window(act, done)
  <1>1. DOMAIN done = 1..Len(done) /\ Len(done) \in Nat /\ \A k \in DOMAIN done : done[k] \in Done
    OBVIOUS
  <1>2. \A x \in Done : x.id \in Nat /\ x.id # 0
    BY TurnBoundAssumption DEF Done, TurnIds
  <1>3. ASSUME NEW j \in DOMAIN done, NEW k \in DOMAIN done, done[j].id = done[k].id PROVE j = k
    <2>1. j \in Nat /\ k \in Nat /\ done[j].id \in Nat /\ done[k].id \in Nat
      BY <1>1, <1>2
    <2>2. CASE j < k
      BY <2>1, <2>2, <1>3
    <2>3. CASE k < j
      BY <2>1, <2>3, <1>3
    <2> QED
      BY <2>1, <2>2, <2>3
  <1>4. ASSUME NEW k \in DOMAIN done PROVE done[k].id # act.id
    <2>1. done[k].id \in Nat /\ done[k].id # 0
      BY <1>1, <1>2
    <2>2. CASE act = NoTurn
      BY <2>1, <2>2 DEF NoTurn
    <2>3. CASE act # NoTurn
      BY <2>1, <2>3
    <2> QED
      BY <2>2, <2>3
  <1> QED
    BY <1>3, <1>4 DEF Window

LEMMA PartsOfListed ==
    ASSUME NEW act, NEW done, Window(act, done), NEW k \in DOMAIN done
    PROVE  PartsOf(done[k].id, act, done) = done[k].parts
  <1> DEFINE ks == {j \in DOMAIN done : done[j].id = done[k].id}
  <1>1. act.id # done[k].id /\ ks = {k}
    BY DEF Window
  <1>2. (CHOOSE j \in ks : TRUE) = k
    BY <1>1
  <1> QED
    BY <1>1, <1>2, Zenon DEF PartsOf

LEMMA ContinuesItself == \A s \in Seq(Parts) : Continues(s, s)
  <1> SUFFICES ASSUME NEW s \in Seq(Parts) PROVE Continues(s, s)
    OBVIOUS
  <1>1. Len(s) <= Len(s)
    OBVIOUS
  <1> QED
    BY <1>1 DEF Continues

(* Transcripts continue when the active one does and the window's are       *)
(* carried over.                                                            *)
LEMMA Carried ==
    ASSUME turns \in Seq(Done), Window(active, turns), Window(active', turns'),
           (active.id \in TurnIds /\ Present(active.id, active', turns')) =>
              Continues(active.parts, PartsOf(active.id, active', turns')),
           \A k \in DOMAIN turns : Present(turns[k].id, active', turns') =>
              \/ active'.id = turns[k].id /\ active'.parts = turns[k].parts
              \/ \E j \in DOMAIN turns' : turns'[j].id = turns[k].id /\ turns'[j].parts = turns[k].parts
    PROVE  TranscriptsContinue
  <1> SUFFICES ASSUME NEW t \in TurnIds, Present(t, active, turns), Present(t, active', turns')
               PROVE  Continues(PartsOf(t, active, turns), PartsOf(t, active', turns'))
    BY DEF TranscriptsContinue
  <1>1. CASE active.id = t
    BY <1>1 DEF PartsOf
  <1>2. CASE active.id # t
    <2>1. PICK k \in DOMAIN turns : turns[k].id = t
      BY <1>2 DEF Present
    <2>2. PartsOf(t, active, turns) = turns[k].parts
      BY <2>1, PartsOfListed
    <2>3. Continues(turns[k].parts, turns[k].parts)
      <3>1. turns[k] \in Done
        BY <2>1
      <3> QED
        BY <3>1, ContinuesItself DEF Done
    <2>4. PartsOf(t, active', turns') = turns[k].parts
      <3>1. CASE active'.id = t /\ active'.parts = turns[k].parts
        BY <3>1 DEF PartsOf
      <3>2. CASE \E j \in DOMAIN turns' : turns'[j].id = t /\ turns'[j].parts = turns[k].parts
        <4>1. PICK j \in DOMAIN turns' : turns'[j].id = t /\ turns'[j].parts = turns[k].parts
          BY <3>2
        <4>2. PartsOf(turns'[j].id, active', turns') = turns'[j].parts
          BY <4>1, PartsOfListed
        <4> QED
          BY <4>1, <4>2
      <3> QED
        BY <2>1, <3>1, <3>2
    <2> QED
      BY <2>2, <2>3, <2>4
  <1> QED
    BY <1>1, <1>2

(* The window's facts in the form the steps use them.                       *)
LEMMA TurnFacts ==
    ASSUME IInv
    PROVE  /\ turns \in Seq(Done) /\ Len(turns) \in Nat /\ DOMAIN turns = 1..Len(turns)
           /\ \A k \in 1..Len(turns) :
                 /\ turns[k] \in Done /\ turns[k].id \in Nat /\ turns[k].id \in TurnIds
                 /\ turns[k].parts \in Seq(Parts) /\ turns[k].id < nextTurn
                 /\ turns[k].state = "error" => OlderTurns < turns[k].id
           /\ \A j, k \in 1..Len(turns) : j < k => turns[j].id < turns[k].id
           /\ active # NoTurn => \A k \in 1..Len(turns) : turns[k].id < active.id
           /\ OlderTurns \in Nat /\ MaxTurns \in Nat /\ nextTurn \in Nat
           /\ nextTurn \in (OlderTurns + 1)..(OlderTurns + MaxTurns + 1)
           /\ active \in Turn /\ active.id \in Nat
           /\ Window(active, turns)
  <1>1. turns \in Seq(Done) /\ active \in Turn
    BY DEF IInv, Typed
  <1>2. Len(turns) \in Nat /\ DOMAIN turns = 1..Len(turns) /\ \A k \in 1..Len(turns) : turns[k] \in Done
    BY <1>1
  <1>3. \A x \in Done : x.id \in Nat /\ x.id \in TurnIds /\ x.parts \in Seq(Parts)
    BY TurnBoundAssumption DEF Done, TurnIds
  <1>4. OlderTurns \in Nat /\ MaxTurns \in Nat
    BY TurnBoundAssumption
  <1>5. nextTurn \in (OlderTurns + 1)..(OlderTurns + MaxTurns + 1)
    BY DEF IInv, Typed
  <1>6. nextTurn \in Nat
    BY <1>4, <1>5
  <1>7. active.id \in Nat
    BY <1>1, <1>4 DEF Turn, TurnIds
  <1>8. \A k \in 1..Len(turns) :
           turns[k].id < nextTurn /\ (turns[k].state = "error" => OlderTurns < turns[k].id)
    BY <1>2 DEF IInv, Started
  <1>9. /\ \A j, k \in DOMAIN turns : j < k => turns[j].id < turns[k].id
        /\ active # NoTurn => \A k \in DOMAIN turns : turns[k].id < active.id
    BY DEF IInv, HistoryIsSettled, TurnsInOrder
  <1>10. Window(active, turns)
    BY <1>1, <1>9, WindowOf
  <1> QED
    BY <1>1, <1>2, <1>3, <1>4, <1>5, <1>6, <1>7, <1>8, <1>9, <1>10

(* A step that only continues the active turn.                              *)
LEMMA GrowsKeeps ==
    ASSUME IInv, Grows, flags' \subseteq Flags,
           activity' \in {"idle", "error", "inProgress", "inputNeeded"}
    PROVE  IInv' /\ TranscriptsContinue
  <1>1. Typed'
    BY DEF IInv, Typed, Grows
  <1>2. active' # NoTurn => active # NoTurn
    BY DEF Grows
  <1>3. Started'
    BY <1>2 DEF IInv, Started, Grows
  <1>4. CallsAreOver' /\ TurnsInOrder'
    BY <1>2 DEF IInv, HistoryIsSettled, CallsAreOver, TurnsInOrder, Grows
  <1>5. FinalErrorIsFinal'
    <2>1. active'.parts \in Seq(Parts)
      BY DEF Grows, Turn
    <2>2. DOMAIN active'.parts = 1..Len(active'.parts)
      BY <2>1
    <2>3. Error("final") \notin ToSet(active'.parts)
      BY <2>2, Zenon DEF Grows, ToSet
    <2>4. Error("final") \notin ToSet(active.parts)'
      BY <2>3
    <2> QED
      BY <2>4 DEF IInv, HistoryIsSettled, FinalErrorIsFinal, Grows, Error
  <1>6. TranscriptsContinue
    <2>1. /\ turns \in Seq(Done) /\ Window(active, turns)
      BY TurnFacts
    <2>2. Window(active', turns')
      BY <2>1 DEF Window, Grows
    <2>3. Continues(active.parts, PartsOf(active.id, active', turns'))
      BY DEF PartsOf, Grows
    <2>4. turns' = turns
      BY DEF Grows
    <2> QED
      BY <2>1, <2>2, <2>3, <2>4, Carried
  <1> QED
    BY <1>1, <1>3, <1>4, <1>5, <1>6 DEF IInv, HistoryIsSettled

-----------------------------------------------------------------------------
(* Turns that start, end and are reopened.                                 *)

(* chat/turnStarted drops the turn that was active.                         *)
LEMMA TurnStartedKeeps ==
    ASSUME IInv, TurnStarted
    PROVE  IInv' /\ TranscriptsContinue
  <1>1. /\ active' = [id |-> nextTurn, parts |-> <<>>] /\ nextTurn' = nextTurn + 1
        /\ turns' = turns /\ cursor' = cursor /\ nextTurn \in TurnIds
        /\ flags' \subseteq flags
    BY DEF TurnStarted
  <1>2. /\ turns \in Seq(Done) /\ DOMAIN turns = 1..Len(turns) /\ Window(active, turns)
        /\ \A k \in 1..Len(turns) : turns[k].id < nextTurn /\ turns[k].id \in Nat
        /\ active # NoTurn => \A k \in 1..Len(turns) : turns[k].id < active.id
        /\ nextTurn \in (OlderTurns + 1)..(OlderTurns + MaxTurns + 1)
        /\ OlderTurns \in Nat /\ MaxTurns \in Nat /\ nextTurn \in Nat /\ active.id \in Nat
    BY TurnFacts
  <1>3. active'.id = nextTurn /\ active'.parts = <<>>
    BY <1>1
  <1>4. active' \in Turn
    BY <1>1 DEF Turn
  <1>5. activity' \in {"idle", "error", "inProgress", "inputNeeded"}
    BY DEF TurnStarted, SummaryStatus, Refresh
  <1>6. nextTurn + 1 \in (OlderTurns + 1)..(OlderTurns + MaxTurns + 1)
    BY <1>1, <1>2 DEF TurnIds
  <1>7. Typed'
    BY <1>1, <1>4, <1>5, <1>6 DEF IInv, Typed
  <1>8. Started'
    <2>1. OlderTurns < active'.id /\ active'.id < nextTurn'
      BY <1>1, <1>2, <1>3
    <2>2. \A k \in DOMAIN turns : turns[k].id < nextTurn'
      BY <1>1, <1>2
    <2> QED
      BY <1>1, <2>1, <2>2 DEF IInv, Started
  <1>9. CallsAreOver'
    BY <1>1 DEF IInv, HistoryIsSettled, CallsAreOver
  <1>10. TurnsInOrder'
    BY <1>1, <1>2, <1>3 DEF IInv, HistoryIsSettled, TurnsInOrder
  <1>11. FinalErrorIsFinal'
    <2>1. DOMAIN active'.parts = {}
      BY <1>3
    <2>2. Error("final") \notin ToSet(active'.parts)
      BY <2>1, Zenon DEF ToSet
    <2> QED
      BY <1>1, <2>2 DEF IInv, HistoryIsSettled, FinalErrorIsFinal, Error
  <1>12. TranscriptsContinue
    <2>1. \A k \in DOMAIN turns' : turns'[k].id # active'.id
      BY <1>1, <1>2, <1>3
    <2>2. Window(active', turns')
      BY <1>1, <1>2, <2>1 DEF Window
    <2>3. active.id \in TurnIds => ~Present(active.id, active', turns')
      <3>1. active # NoTurn => active.id < nextTurn
        BY DEF IInv, Started
      <3>2. active.id \in TurnIds => active # NoTurn
        BY ActiveParts
      <3>3. active.id \in TurnIds => active'.id # active.id
        BY <1>2, <1>3, <3>1, <3>2
      <3>4. active.id \in TurnIds => \A k \in DOMAIN turns' : turns'[k].id # active.id
        BY <1>1, <1>2, <3>2
      <3> QED
        BY <3>3, <3>4 DEF Present
    <2> QED
      BY <1>1, <1>2, <2>2, <2>3, Carried
  <1> QED
    BY <1>7, <1>8, <1>9, <1>10, <1>11, <1>12 DEF IInv, HistoryIsSettled

(* endTurn(): the parts of the turn it appends.                             *)
LEMMA ClosedParts ==
    ASSUME NEW p \in Seq(Parts), NEW last \in Seq({Error("final"), Error("resumable")}), Len(last) <= 1,
           \A k \in 1..Len(p) : p[k] # Error("final")
    PROVE  LET np == [k \in DOMAIN p |-> Closed(p[k])] \o last IN
           /\ np \in Seq(Parts) /\ Continues(p, np) /\ DOMAIN np = 1..Len(np)
           /\ \A k \in 1..Len(np) : np[k].kind = "tool" => np[k].status \in Terminal
           /\ \A k \in 1..Len(np) : np[k] = Error("final") => k = Len(np) /\ last # <<>>
  <1> DEFINE c == [k \in DOMAIN p |-> Closed(p[k])]
             np == c \o last
             n == Len(p)
  <1>1. n \in Nat /\ DOMAIN p = 1..n /\ \A k \in 1..n : p[k] \in Parts
    OBVIOUS
  <1>2. ASSUME NEW k \in 1..n
        PROVE  /\ Closed(p[k]) \in Parts /\ Closed(p[k]) # Error("final")
               /\ Closed(p[k]).kind = p[k].kind /\ Closed(p[k]).id = p[k].id
               /\ p[k].status \in Terminal \cup {"answered"} => Closed(p[k]) = p[k]
               /\ Closed(p[k]).by = p[k].by
               /\ Closed(p[k]).kind = "tool" => Closed(p[k]).status \in Terminal
    <2> DEFINE q == p[k]
    <2>1. q \in Parts /\ q # Error("final")
      BY <1>1
    <2> HIDE DEF q
    <2>2. CASE q.kind = "tool" /\ q.status \notin Terminal
      <3>1. q \in ToolParts
        BY <2>1, <2>2, PartFacts
      <3>2. q.status # "answered"
        BY <3>1, PartFacts
      <3>3. Closed(q) = [q EXCEPT !.status = "cancelled"]
        BY <2>2 DEF Closed
      <3>4. "cancelled" \in ToolStatus /\ "cancelled" \in Terminal
        BY DEF ToolStatus, Terminal
      <3>5. /\ Closed(q) \in ToolParts /\ Closed(q).id = q.id /\ Closed(q).by = q.by
            /\ Closed(q).status = "cancelled"
        BY <3>1, <3>3, <3>4 DEF ToolParts
      <3>6. Closed(q) \in Parts /\ Closed(q) # Error("final") /\ Closed(q).kind = "tool"
        BY <3>5, PartFacts
      <3> QED
        BY <2>2, <3>2, <3>4, <3>5, <3>6 DEF q
    <2>3. CASE ~(q.kind = "tool" /\ q.status \notin Terminal)
      <3>1. Closed(q) = q
        BY <2>3 DEF Closed
      <3> QED
        BY <2>1, <2>3, <3>1 DEF q
    <2> QED
      BY <2>2, <2>3
  <1>3. c \in Seq(Parts) /\ Len(c) = n /\ \A k \in 1..n : c[k] = Closed(p[k])
    <2>1. c = [k \in 1..n |-> Closed(p[k])]
      BY <1>1
    <2> QED
      BY <1>1, <1>2, <2>1, IsASeq
  <1> DEFINE m == Len(last)
  <1>4. /\ last \in Seq(Parts) /\ m \in {0, 1} /\ (m = 1 => last # <<>>)
        /\ \A k \in 1..m : last[k] \in {Error("final"), Error("resumable")}
    <2>1. /\ m \in Nat /\ \A k \in 1..m : last[k] \in {Error("final"), Error("resumable")}
      OBVIOUS
    <2>2. \A k \in 1..m : last[k] \in Parts
      BY <2>1, PartFacts
    <2>3. last = [k \in 1..m |-> last[k]]
      OBVIOUS
    <2>4. last \in Seq(Parts)
      BY <2>1, <2>2, <2>3, IsASeq
    <2>5. (last = <<>> => m = 0) /\ m <= 1
      OBVIOUS
    <2> HIDE DEF m
    <2>6. m \in {0, 1}
      BY <2>1, <2>5
    <2> QED
      BY <2>1, <2>4, <2>5, <2>6
  <1> HIDE DEF c, m, n
  <1>5. /\ np \in Seq(Parts) /\ Len(np) = n + m /\ DOMAIN np = 1..(n + m)
        /\ \A k \in 1..(n + m) : np[k] = IF k <= n THEN c[k] ELSE last[k - n]
    <2>1. /\ np \in Seq(Parts) /\ Len(np) = Len(c) + Len(last)
          /\ \A k \in 1..(Len(c) + Len(last)) : np[k] = IF k <= Len(c) THEN c[k] ELSE last[k - Len(c)]
      BY <1>3, <1>4, ConcatProperties
    <2>2. DOMAIN np = 1..Len(np)
      BY <2>1
    <2> QED
      BY <2>1, <2>2, <1>3 DEF m
  <1> HIDE DEF np
  <1>6. \A k \in 1..n : k \in 1..(n + m) /\ np[k] = Closed(p[k])
    <2>1. \A k \in 1..n : k \in 1..(n + m) /\ k <= n
      BY <1>1, <1>4 DEF m
    <2> QED
      BY <2>1, <1>3, <1>5
  <1>7. \A k \in 1..(n + m) : k \in 1..n \/ (k = n + m /\ m = 1 /\ np[k] \in {Error("final"), Error("resumable")})
    <2>1. ASSUME NEW k \in 1..(n + m), k \notin 1..n
          PROVE  k = n + m /\ m = 1 /\ ~(k <= n) /\ k - n = 1
      BY <2>1, <1>1, <1>4
    <2> QED
      BY <2>1, <1>4, <1>5 DEF m
  <1>8. Continues(p, np)
    <2>1. Len(p) <= Len(np)
      BY <1>1, <1>4, <1>5 DEF n
    <2> QED
      BY <2>1, <1>1, <1>2, <1>6 DEF Continues
  <1>9. \A k \in 1..Len(np) : np[k].kind = "tool" => np[k].status \in Terminal
    BY <1>2, <1>5, <1>6, <1>7, PartFacts
  <1>10. \A k \in 1..Len(np) : np[k] = Error("final") => k = Len(np) /\ last # <<>>
    BY <1>2, <1>4, <1>5, <1>6, <1>7
  <1> QED
    BY <1>5, <1>8, <1>9, <1>10 DEF np, c

(* endTurn() moves the active turn to the end of the window.                *)
LEMMA EndTurnKeeps ==
    ASSUME IInv, NEW t \in TurnIds, NEW state \in {"complete", "cancelled", "error"},
           NEW last \in Seq({Error("final"), Error("resumable")}), Len(last) <= 1,
           last # <<>> => state = "error",
           NEW terminal \in {"idle", "error"}, EndTurn(t, state, last, terminal)
    PROVE  IInv' /\ TranscriptsContinue
  <1> DEFINE p == active.parts
             np == [k \in DOMAIN p |-> Closed(p[k])] \o last
             new == [id |-> t, parts |-> np, state |-> state]
             n == Len(turns)
  <1>1. /\ active.id = t /\ turns' = Append(turns, new) /\ active' = NoTurn
        /\ activity' = terminal /\ UNCHANGED <<flags, cursor, nextTurn>>
    BY DEF EndTurn
  <1>2. p \in Seq(Parts) /\ (\A k \in 1..Len(p) : p[k] # Error("final")) /\ active # NoTurn
    BY <1>1, ActiveParts
  <1>3. /\ np \in Seq(Parts) /\ Continues(p, np) /\ DOMAIN np = 1..Len(np)
        /\ \A k \in 1..Len(np) : np[k].kind = "tool" => np[k].status \in Terminal
        /\ \A k \in 1..Len(np) : np[k] = Error("final") => k = Len(np) /\ last # <<>>
    BY <1>2, ClosedParts
  <1> HIDE DEF np
  <1>4. new \in Done /\ new.id = t /\ new.parts = np /\ new.state = state
    <2>1. np \in Seq(Parts)
      BY <1>3, Zenon
    <2> QED
      BY ONLY <2>1, t \in TurnIds, state \in {"complete", "cancelled", "error"} DEF Done
  <1>5. /\ turns \in Seq(Done) /\ n \in Nat /\ DOMAIN turns = 1..n
        /\ \A k \in 1..n : turns[k].id < t /\ turns[k].id \in Nat
        /\ Window(active, turns) /\ t \in Nat
    BY <1>1, <1>2, TurnFacts
  <1> HIDE DEF new, n
  <1>6. /\ turns' \in Seq(Done) /\ Len(turns') = n + 1 /\ DOMAIN turns' = 1..(n + 1)
        /\ turns'[n + 1] = new /\ (\A k \in 1..n : turns'[k] = turns[k])
        /\ \A k \in 1..(n + 1) : k \in 1..n \/ k = n + 1
    BY <1>1, <1>4, <1>5 DEF n
  <1>7. OlderTurns < t /\ t < nextTurn
    BY <1>1, <1>2 DEF IInv, Started
  <1>8. NoTurn \in Turn /\ NoTurn.parts = <<>>
    BY DEF NoTurn, Turn
  <1>9. Typed'
    BY <1>1, <1>6, <1>8 DEF IInv, Typed
  <1>10. Started'
    BY <1>1, <1>4, <1>5, <1>6, <1>7 DEF IInv, Started
  <1>11. CallsAreOver'
    <2>1. ASSUME NEW k \in DOMAIN turns', NEW j \in DOMAIN turns'[k].parts, turns'[k].parts[j].kind = "tool"
          PROVE  turns'[k].parts[j].status \in Terminal
      <3>1. CASE k \in 1..n
        BY <2>1, <3>1, <1>5, <1>6 DEF IInv, HistoryIsSettled, CallsAreOver
      <3>2. CASE k = n + 1
        <4>1. turns'[k].parts = np
          BY <3>2, <1>4, <1>6
        <4> QED
          BY <2>1, <4>1, <1>3, Zenon
      <3> QED
        BY <3>1, <3>2, <1>6
    <2> QED
      BY <2>1 DEF CallsAreOver
  <1>12. TurnsInOrder'
    <2>1. ASSUME NEW j \in DOMAIN turns', NEW k \in DOMAIN turns', j < k
          PROVE  turns'[j].id < turns'[k].id
      <3>1. j \in 1..n
        BY <2>1, <1>5, <1>6
      <3>2. CASE k \in 1..n
        BY <2>1, <3>1, <3>2, <1>5, <1>6 DEF IInv, HistoryIsSettled, TurnsInOrder
      <3>3. CASE k = n + 1
        BY <3>1, <3>3, <1>4, <1>5, <1>6
      <3> QED
        BY <3>2, <3>3, <1>6
    <2> QED
      BY <2>1, <1>1 DEF TurnsInOrder, NoTurn
  <1>13. FinalErrorIsFinal'
    <2>1. Error("final") \notin ToSet(active'.parts)
      <3>1. DOMAIN active'.parts = {}
        BY <1>1, <1>8
      <3> QED
        BY <3>1, Zenon DEF ToSet
    <2>2. ASSUME NEW k \in DOMAIN turns', NEW j \in DOMAIN turns'[k].parts,
                 turns'[k].parts[j] = Error("final")
          PROVE  j = Len(turns'[k].parts) /\ turns'[k].state = "error"
      <3>1. CASE k \in 1..n
        BY <2>2, <3>1, <1>5, <1>6 DEF IInv, HistoryIsSettled, FinalErrorIsFinal
      <3>2. CASE k = n + 1
        <4>1. turns'[k].parts = np /\ turns'[k].state = state
          BY <3>2, <1>4, <1>6
        <4>2. last # <<>> /\ j = Len(np)
          BY <2>2, <4>1, <1>3, Zenon
        <4> QED
          BY <4>1, <4>2
      <3> QED
        BY <3>1, <3>2, <1>6
    <2> QED
      BY <2>1, <2>2 DEF FinalErrorIsFinal, Error
  <1>14. TranscriptsContinue
    <2>1. Window(active', turns')
      BY <1>6, <1>12, WindowOf DEF TurnsInOrder
    <2>2. PartsOf(active.id, active', turns') = np
      <3>1. PartsOf(turns'[n + 1].id, active', turns') = turns'[n + 1].parts
        <4>1. n + 1 \in DOMAIN turns'
          BY <1>5, <1>6
        <4> QED
          BY <4>1, <2>1, PartsOfListed
      <3> QED
        BY <3>1, <1>1, <1>4, <1>6
    <2>3. \A k \in DOMAIN turns : k \in DOMAIN turns' /\ turns'[k] = turns[k]
      BY <1>5, <1>6
    <2>4. \A k \in DOMAIN turns :
             \E j \in DOMAIN turns' : turns'[j].id = turns[k].id /\ turns'[j].parts = turns[k].parts
      BY <2>3
    <2>5. Continues(active.parts, PartsOf(active.id, active', turns'))
      BY <1>3, <2>2, Zenon
    <2> QED
      BY ONLY <1>5, <2>1, <2>4, <2>5, Carried
  <1> QED
    BY <1>9, <1>10, <1>11, <1>12, <1>13, <1>14 DEF IInv, HistoryIsSettled

(* A shorter window, with no turn or the last one active.                   *)
LEMMA ShorterKeeps ==
    ASSUME IInv, NEW n \in 0..Len(turns), turns' \in Seq(Done), Len(turns') = n,
           \A k \in 1..n : turns'[k] = turns[k]
    PROVE  /\ \A k \in 1..n : k \in 1..Len(turns)
           /\ DOMAIN turns' = 1..n
           /\ CallsAreOver'
           /\ \A j, k \in DOMAIN turns' : j < k => turns'[j].id < turns'[k].id
           /\ \A k \in DOMAIN turns' : \A j \in DOMAIN turns'[k].parts :
                 turns'[k].parts[j] = Error("final") =>
                    j = Len(turns'[k].parts) /\ turns'[k].state = "error"
           /\ \A k \in DOMAIN turns' : /\ turns'[k].id < nextTurn
                                       /\ turns'[k].state = "error" => OlderTurns < turns'[k].id
  <1>1. Len(turns) \in Nat /\ DOMAIN turns = 1..Len(turns) /\ n \in Nat
    BY TurnFacts
  <1>2. (\A k \in 1..n : k \in 1..Len(turns)) /\ DOMAIN turns' = 1..n
    BY <1>1
  <1>3. \A k \in DOMAIN turns' : k \in DOMAIN turns /\ turns'[k] = turns[k]
    BY <1>1, <1>2
  <1>4. CallsAreOver'
    BY <1>3 DEF IInv, HistoryIsSettled, CallsAreOver
  <1>5. \A j, k \in DOMAIN turns' : j < k => turns'[j].id < turns'[k].id
    BY <1>3 DEF IInv, HistoryIsSettled, TurnsInOrder
  <1>6. \A k \in DOMAIN turns' : \A j \in DOMAIN turns'[k].parts :
           turns'[k].parts[j] = Error("final") =>
              j = Len(turns'[k].parts) /\ turns'[k].state = "error"
    BY <1>3 DEF IInv, HistoryIsSettled, FinalErrorIsFinal
  <1>7. \A k \in DOMAIN turns' : /\ turns'[k].id < nextTurn
                                 /\ turns'[k].state = "error" => OlderTurns < turns'[k].id
    BY <1>3 DEF IInv, Started
  <1> QED
    BY <1>2, <1>4, <1>5, <1>6, <1>7

(* chat/turnResume reopens the last turn, whose error is no final one.      *)
LEMMA TurnResumeKeeps ==
    ASSUME IInv, NEW t \in TurnIds, TurnResume(t)
    PROVE  IInv' /\ TranscriptsContinue
  <1> DEFINE n == Len(turns)
             last == turns[n]
             p == last.parts
  <1>1. /\ active = NoTurn /\ turns # <<>> /\ Last(turns).id = t /\ Resumable(Last(turns))
        /\ turns' = Front(turns) /\ active' = [id |-> t, parts |-> Last(turns).parts]
        /\ flags' \subseteq flags /\ cursor' = cursor /\ nextTurn' = nextTurn
    BY DEF TurnResume
  <1>2. /\ turns \in Seq(Done) /\ n \in Nat /\ DOMAIN turns = 1..n /\ Window(active, turns)
        /\ \A k \in 1..n :
              /\ turns[k] \in Done /\ turns[k].id \in Nat /\ turns[k].parts \in Seq(Parts)
              /\ turns[k].id < nextTurn
              /\ turns[k].state = "error" => OlderTurns < turns[k].id
        /\ \A j, k \in 1..n : j < k => turns[j].id < turns[k].id
    BY TurnFacts
  <1>3. /\ n \in 1..n /\ Last(turns) = last /\ turns' \in Seq(Done) /\ Len(turns') = n - 1
        /\ \A k \in 1..(n - 1) : turns'[k] = turns[k]
    <2>1. /\ n \in 1..n /\ Last(turns) = turns[n] /\ Front(turns) \in Seq(Done)
          /\ Len(Front(turns)) = n - 1 /\ \A k \in 1..(n - 1) : Front(turns)[k] = turns[k]
      BY <1>1, <1>2, FrontProperties
    <2> QED
      BY <1>1, <2>1
  <1> HIDE DEF n
  <1>4. n - 1 \in 0..n /\ \A k \in 1..(n - 1) : k \in 1..n /\ k < n
    BY <1>2, <1>3
  <1>5. last.id = t /\ last.state = "error" /\ p # <<>> /\ Last(p) = Error("resumable")
    BY <1>1, <1>3 DEF Resumable
  <1>6. /\ p \in Seq(Parts) /\ OlderTurns < t /\ t < nextTurn /\ t \in Nat
    BY <1>2, <1>3, <1>5
  <1>7. active' = [id |-> t, parts |-> p]
    BY <1>1, <1>3
  <1> HIDE DEF last
  <1>8. active' \in Turn /\ active'.id = t /\ active'.parts = p
    BY <1>6, <1>7 DEF Turn
  <1>9. /\ DOMAIN turns' = 1..(n - 1)
        /\ CallsAreOver'
        /\ \A j, k \in DOMAIN turns' : j < k => turns'[j].id < turns'[k].id
        /\ \A k \in DOMAIN turns' : \A j \in DOMAIN turns'[k].parts :
              turns'[k].parts[j] = Error("final") =>
                 j = Len(turns'[k].parts) /\ turns'[k].state = "error"
        /\ \A k \in DOMAIN turns' : /\ turns'[k].id < nextTurn
                                    /\ turns'[k].state = "error" => OlderTurns < turns'[k].id
    BY <1>3, <1>4, ShorterKeeps DEF n
  <1>10. Typed'
    <2>1. activity' \in {"idle", "error", "inProgress", "inputNeeded"}
      BY DEF TurnResume, SummaryStatus, Refresh
    <2> QED
      BY <2>1, <1>1, <1>3, <1>8 DEF IInv, Typed
  <1>11. Started'
    BY <1>1, <1>6, <1>8, <1>9 DEF Started
  <1>12. \A k \in DOMAIN turns' : turns'[k].id < active'.id
    <2>1. \A k \in 1..(n - 1) : turns[k].id < turns[n].id
      BY <1>2, <1>3, <1>4
    <2> QED
      BY <2>1, <1>3, <1>5, <1>8, <1>9 DEF last
  <1>13. TurnsInOrder'
    BY <1>9, <1>12 DEF TurnsInOrder
  <1>14. FinalErrorIsFinal'
    <2>1. ASSUME NEW j \in DOMAIN p PROVE p[j] # Error("final")
      <3>1. p[Len(p)] = Error("resumable") /\ Error("resumable") # Error("final")
        BY <1>5, <1>6, FrontProperties, PartFacts
      <3>2. p[j] = Error("final") => j = Len(p)
        <4>1. n \in DOMAIN turns
          BY <1>2, <1>3
        <4> QED
          BY <4>1, <2>1 DEF IInv, HistoryIsSettled, FinalErrorIsFinal, last
      <3> QED
        BY <3>1, <3>2
    <2>2. Error("final") \notin ToSet(active'.parts)
      BY <1>8, <2>1, Zenon DEF ToSet
    <2> QED
      BY <2>2, <1>9 DEF FinalErrorIsFinal, Error
  <1>15. TranscriptsContinue
    <2>1. Window(active', turns')
      BY <1>3, <1>9, <1>12, WindowOf
    <2>2. active.id \notin TurnIds
      BY <1>1, ActiveParts
    <2>3. ASSUME NEW k \in DOMAIN turns
          PROVE  \/ active'.id = turns[k].id /\ active'.parts = turns[k].parts
                 \/ \E j \in DOMAIN turns' : turns'[j].id = turns[k].id /\ turns'[j].parts = turns[k].parts
      <3>1. CASE k = n
        BY <3>1, <1>5, <1>8 DEF last
      <3>2. CASE k # n
        <4>1. k \in 1..(n - 1)
          BY <3>2, <1>2
        <4> QED
          BY <4>1, <1>3, <1>9
      <3> QED
        BY <3>1, <3>2
    <2> QED
      BY ONLY <1>2, <2>1, <2>2, <2>3, Carried
  <1> QED
    BY <1>9, <1>10, <1>11, <1>13, <1>14, <1>15 DEF IInv, HistoryIsSettled

(* chat/truncated keeps a prefix of the window and no active turn.          *)
LEMMA TruncatedKeeps ==
    ASSUME IInv, NEW t \in TurnIds \cup {0}, Truncated(t)
    PROVE  IInv' /\ TranscriptsContinue
  <1>1. /\ turns \in Seq(Done) /\ Len(turns) \in Nat /\ DOMAIN turns = 1..Len(turns)
        /\ Window(active, turns)
        /\ \A k \in 1..Len(turns) : turns[k].id \in Nat
        /\ active # NoTurn => \A k \in 1..Len(turns) : turns[k].id < active.id
        /\ active.id \in Nat
    BY TurnFacts
  <1>2. PICK n \in 0..Len(turns) : /\ turns' \in Seq(Done) /\ Len(turns') = n
                                   /\ \A k \in 1..n : turns'[k] = turns[k]
    <2>1. CASE t = 0
      <3>1. turns' = <<>>
        BY <2>1 DEF Truncated
      <3>2. 0 \in 0..Len(turns) /\ <<>> \in Seq(Done) /\ Len(<<>>) = 0 /\ \A k \in 1..0 : FALSE
        BY <1>1
      <3> QED
        BY <3>1, <3>2
    <2>2. CASE t # 0
      <3> DEFINE n == CHOOSE k \in DOMAIN turns : turns[k].id = t
      <3>1. n \in 1..Len(turns)
        BY <1>1, <2>2 DEF Truncated
      <3>2. turns' = SubSeq(turns, 1, n)
        BY <2>2 DEF Truncated
      <3> HIDE DEF n
      <3>3. n \in 0..Len(turns)
        BY <1>1, <3>1
      <3> QED
        BY <1>1, <3>2, <3>3, PrefixProperties
    <2> QED
      BY <2>1, <2>2
  <1>3. /\ active' = NoTurn /\ cursor' \in BOOLEAN /\ flags' = flags /\ nextTurn' = nextTurn
        /\ activity' = SummaryStatus(NoTurn)
    BY DEF Truncated, Refresh
  <1>4. /\ \A k \in 1..n : k \in 1..Len(turns)
        /\ DOMAIN turns' = 1..n
        /\ CallsAreOver'
        /\ \A j, k \in DOMAIN turns' : j < k => turns'[j].id < turns'[k].id
        /\ \A k \in DOMAIN turns' : \A j \in DOMAIN turns'[k].parts :
              turns'[k].parts[j] = Error("final") =>
                 j = Len(turns'[k].parts) /\ turns'[k].state = "error"
        /\ \A k \in DOMAIN turns' : /\ turns'[k].id < nextTurn
                                    /\ turns'[k].state = "error" => OlderTurns < turns'[k].id
    BY <1>2, ShorterKeeps
  <1>5. NoTurn \in Turn /\ NoTurn.parts = <<>> /\ NoTurn.id = 0
    BY DEF NoTurn, Turn
  <1>6. Typed'
    <2>1. activity' \in {"idle", "error", "inProgress", "inputNeeded"}
      BY <1>3 DEF SummaryStatus
    <2> QED
      BY <1>2, <1>3, <1>5, <2>1 DEF IInv, Typed
  <1>7. Started'
    BY <1>3, <1>4 DEF Started, NoTurn
  <1>8. TurnsInOrder'
    BY <1>3, <1>4 DEF TurnsInOrder, NoTurn
  <1>9. FinalErrorIsFinal'
    <2>1. DOMAIN active'.parts = {}
      BY <1>3, <1>5
    <2>2. Error("final") \notin ToSet(active'.parts)
      BY <2>1, Zenon DEF ToSet
    <2> QED
      BY <2>2, <1>4 DEF FinalErrorIsFinal, Error
  <1>10. TranscriptsContinue
    <2>1. Window(active', turns')
      BY <1>2, <1>3, <1>4, WindowOf
    <2>2. ~(active.id \in TurnIds /\ Present(active.id, active', turns'))
      <3>1. active.id \in TurnIds => active # NoTurn
        BY ActiveParts
      <3>2. \A k \in DOMAIN turns' : turns'[k].id = turns[k].id /\ k \in 1..Len(turns)
        BY <1>2, <1>4
      <3>3. active.id \in TurnIds => active'.id # active.id
        BY <1>3, <1>5, ActiveParts
      <3> QED
        BY <1>1, <3>1, <3>2, <3>3 DEF Present
    <2>3. ASSUME NEW k \in DOMAIN turns, Present(turns[k].id, active', turns')
          PROVE  \E j \in DOMAIN turns' : turns'[j].id = turns[k].id /\ turns'[j].parts = turns[k].parts
      <3>1. active'.id # turns[k].id
        <4>1. turns[k] \in Done
          BY <2>3, <1>1
        <4> QED
          BY <4>1, <1>3, <1>5, ActiveParts DEF Done
      <3>2. PICK j \in DOMAIN turns' : turns'[j].id = turns[k].id
        BY <2>3, <3>1 DEF Present
      <3>3. j \in DOMAIN turns /\ turns'[j] = turns[j]
        BY <3>2, <1>1, <1>2, <1>4
      <3>4. j = k
        BY <3>2, <3>3, <1>1 DEF Window
      <3> QED
        BY <3>2, <3>3, <3>4
    <2>4. \A k \in DOMAIN turns : Present(turns[k].id, active', turns') =>
             \E j \in DOMAIN turns' : turns'[j].id = turns[k].id /\ turns'[j].parts = turns[k].parts
      BY <2>3
    <2> QED
      BY ONLY <1>1, <2>1, <2>2, <2>4, Carried
  <1> QED
    BY <1>4, <1>6, <1>7, <1>8, <1>9, <1>10 DEF IInv, HistoryIsSettled

-----------------------------------------------------------------------------
(* Loading older turns.                                                    *)

(* The turns of a page that are new are settled, in order and older than    *)
(* the window.                                                              *)
LEMMA PageFacts ==
    ASSUME IInv, NEW lo \in 1..OlderTurns, NEW hi \in 1..OlderTurns, TurnsLoaded(lo, hi)
    PROVE  LET new == NewTurns(History(lo, hi)) IN
           /\ new \in Seq(Done)
           /\ \A i \in 1..Len(new) :
                 /\ new[i].id \in 1..OlderTurns /\ new[i].parts = <<>> /\ new[i].state = "complete"
                 /\ \A k \in 1..Len(turns) : new[i].id < turns[k].id
           /\ \A i, j \in 1..Len(new) : i < j => new[i].id < new[j].id
  <1> DEFINE first == IF turns = <<>> THEN OlderTurns + 1 ELSE Head(turns).id
             page == History(lo, hi)
             l == hi - lo + 1
             S == {turn \in ToSet(page) : \A k \in DOMAIN turns : turns[k].id # turn.id}
             new == Kept(page, S)
  <1>1. /\ lo < first /\ hi >= first - 1
        /\ \A i \in first..hi : \E k \in DOMAIN turns : turns[k].id = i
    BY DEF TurnsLoaded
  <1>2. /\ turns \in Seq(Done) /\ Len(turns) \in Nat /\ DOMAIN turns = 1..Len(turns)
        /\ \A k \in 1..Len(turns) : turns[k].id \in Nat
        /\ \A j, k \in 1..Len(turns) : j < k => turns[j].id < turns[k].id
        /\ OlderTurns \in Nat /\ MaxTurns \in Nat
    BY TurnFacts
  <1>3. first \in Nat /\ \A k \in 1..Len(turns) : first <= turns[k].id
    <2>1. CASE turns = <<>>
      BY <2>1, <1>2
    <2>2. CASE turns # <<>>
      <3>1. 1 \in 1..Len(turns) /\ Head(turns) = turns[1]
        BY <2>2, <1>2, TailFacts
      <3>2. first = turns[1].id
        BY <2>2, <3>1
      <3>3. ASSUME NEW k \in 1..Len(turns) PROVE turns[1].id <= turns[k].id
        <4>1. CASE k = 1
          BY <4>1, <1>2, <3>1
        <4>2. CASE k # 1
          <5>1. 1 < k
            BY <4>2, <1>2
          <5>2. turns[1].id < turns[k].id
            BY <5>1, <3>1, <1>2
          <5> QED
            BY <5>2, <3>1, <1>2
        <4> QED
          BY <4>1, <4>2
      <3> QED
        BY <3>1, <3>2, <3>3, <1>2
    <2> QED
      BY <2>1, <2>2
  <1> HIDE DEF first
  <1>4. l \in Nat /\ \A k \in 1..l : lo + k - 1 \in 1..OlderTurns /\ lo + k - 1 <= hi
    BY <1>1, <1>2, <1>3
  <1>5. \A i \in 1..OlderTurns : Loaded(i) \in Done
    <2>1. \A i \in 1..OlderTurns : i \in TurnIds
      BY <1>2 DEF TurnIds
    <2>2. <<>> \in Seq(Parts)
      OBVIOUS
    <2> QED
      BY <2>1, <2>2 DEF Loaded, Done
  <1>6. page \in Seq(Done) /\ Len(page) = l /\ \A k \in 1..l : page[k] = Loaded(lo + k - 1)
    <2>1. \A k \in 1..l : Loaded(lo + k - 1) \in Done
      BY <1>4, <1>5
    <2> HIDE DEF l
    <2>2. [k \in 1..l |-> Loaded(lo + k - 1)] \in Seq(Done)
          /\ Len([k \in 1..l |-> Loaded(lo + k - 1)]) = l
      BY <1>4, <2>1, IsASeq
    <2> QED
      BY <2>2 DEF History, l
  <1>7. \A k \in 1..l : page[k].id = lo + k - 1 /\ page[k].parts = <<>> /\ page[k].state = "complete"
    <2>1. \A i : Loaded(i).id = i /\ Loaded(i).parts = <<>> /\ Loaded(i).state = "complete"
      BY DEF Loaded
    <2> HIDE DEF page, l
    <2> QED
      BY <2>1, <1>6
  <1> HIDE DEF page, l, S
  <1>8. new \in Seq(Done)
    BY <1>6, KeptIndex
  <1>9. PICK g : IsIndex(g, new, l, page, S)
    BY <1>6, KeptIndex
  <1>10. ASSUME NEW i \in 1..Len(new)
         PROVE  /\ g[i] \in 1..l /\ new[i] = page[g[i]] /\ new[i] \in S
    BY <1>9 DEF IsIndex
  <1>11. ASSUME NEW i \in 1..Len(new)
         PROVE  /\ new[i].id = lo + g[i] - 1 /\ new[i].id \in 1..OlderTurns /\ new[i].id < first
                /\ new[i].parts = <<>> /\ new[i].state = "complete"
    <2>1. /\ g[i] \in 1..l /\ new[i] = page[g[i]] /\ new[i] \in S
      BY <1>10
    <2>2. /\ new[i].id = lo + g[i] - 1 /\ new[i].parts = <<>> /\ new[i].state = "complete"
      BY <2>1, <1>7
    <2>3. new[i].id \in 1..OlderTurns /\ new[i].id <= hi
      BY <2>1, <2>2, <1>4
    <2>4. \A k \in DOMAIN turns : turns[k].id # new[i].id
      BY <2>1 DEF S
    <2>5. new[i].id \notin first..hi
      BY <2>4, <1>1
    <2>6. new[i].id < first
      BY <2>3, <2>5, <1>2, <1>3
    <2> QED
      BY <2>2, <2>3, <2>6
  <1>12. ASSUME NEW i \in 1..Len(new), NEW k \in 1..Len(turns) PROVE new[i].id < turns[k].id
    <2>1. new[i].id < first /\ new[i].id \in Nat /\ first <= turns[k].id /\ turns[k].id \in Nat
      BY <1>2, <1>3, <1>11
    <2> DEFINE a == new[i].id
               b == turns[k].id
    <2>2. a < first /\ a \in Nat /\ first <= b /\ b \in Nat /\ first \in Nat
      BY <2>1, <1>3
    <2> HIDE DEF a, b
    <2>3. a < b
      BY ONLY <2>2
    <2> QED
      BY <2>3 DEF a, b
  <1>13. ASSUME NEW i \in 1..Len(new), NEW j \in 1..Len(new), i < j PROVE new[i].id < new[j].id
    <2>1. g[i] < g[j] /\ g[i] \in 1..l /\ g[j] \in 1..l
      BY <1>9, <1>13 DEF IsIndex
    <2>2. new[i].id = lo + g[i] - 1 /\ new[j].id = lo + g[j] - 1
      BY <1>11
    <2> QED
      BY <2>1, <2>2, <1>4
  <1>14. new = NewTurns(History(lo, hi))
    BY Zenon DEF NewTurns, new, S, page
  <1> HIDE DEF new
  <1> QED
    BY <1>8, <1>11, <1>12, <1>13, <1>14

(* chat/turnsLoaded puts them in front of the window.                       *)
LEMMA TurnsLoadedKeeps ==
    ASSUME IInv, NEW lo \in 1..OlderTurns, NEW hi \in 1..OlderTurns, TurnsLoaded(lo, hi)
    PROVE  IInv' /\ TranscriptsContinue
  <1> DEFINE new == NewTurns(History(lo, hi))
             m == Len(new)
             n == Len(turns)
  <1>1. /\ new \in Seq(Done)
        /\ \A i \in 1..m :
              /\ new[i].id \in 1..OlderTurns /\ new[i].parts = <<>> /\ new[i].state = "complete"
              /\ \A k \in 1..n : new[i].id < turns[k].id
        /\ \A i, j \in 1..m : i < j => new[i].id < new[j].id
    BY PageFacts
  <1>2. /\ turns \in Seq(Done) /\ n \in Nat /\ DOMAIN turns = 1..n
        /\ Window(active, turns)
        /\ \A j, k \in 1..n : j < k => turns[j].id < turns[k].id
        /\ active # NoTurn => \A k \in 1..n : turns[k].id < active.id
        /\ OlderTurns \in Nat /\ nextTurn \in Nat /\ active.id \in Nat
        /\ nextTurn \in (OlderTurns + 1)..(OlderTurns + MaxTurns + 1)
    BY TurnFacts
  <1>3. /\ turns' = new \o turns /\ cursor' \in BOOLEAN
        /\ UNCHANGED <<active, activity, flags, nextTurn>>
    BY DEF TurnsLoaded
  <1> HIDE DEF new
  <1>4. m \in Nat
    BY <1>1
  <1> HIDE DEF m, n
  <1>5. /\ turns' \in Seq(Done) /\ Len(turns') = m + n /\ DOMAIN turns' = 1..(m + n)
        /\ \A i \in 1..(m + n) : turns'[i] = IF i <= m THEN new[i] ELSE turns[i - m]
    <2>1. /\ new \o turns \in Seq(Done) /\ Len(new \o turns) = m + n
          /\ \A i \in 1..(m + n) : (new \o turns)[i] = IF i <= m THEN new[i] ELSE turns[i - m]
      BY <1>1, <1>2, ConcatProperties DEF m, n
    <2>2. DOMAIN (new \o turns) = 1..(m + n)
      BY <2>1
    <2> QED
      BY <2>1, <2>2, <1>3
  <1>6. ASSUME NEW i \in 1..(m + n)
        PROVE  \/ i \in 1..m /\ turns'[i] = new[i]
               \/ i - m \in 1..n /\ turns'[i] = turns[i - m] /\ m < i
    <2>1. CASE i <= m
      BY <2>1, <1>2, <1>4, <1>5
    <2>2. CASE ~(i <= m)
      <3>1. i - m \in 1..n /\ m < i
        BY <2>2, <1>2, <1>4
      <3> QED
        BY <3>1, <2>2, <1>5
    <2> QED
      BY <2>1, <2>2
  <1>7. ASSUME NEW k \in 1..n
        PROVE  k + m \in DOMAIN turns' /\ turns'[k + m] = turns[k]
    <2>1. k + m \in 1..(m + n) /\ ~(k + m <= m) /\ (k + m) - m = k
      BY <1>2, <1>4
    <2> QED
      BY <2>1, <1>5
  <1>8. ASSUME NEW i \in 1..m
        PROVE  /\ new[i].id < nextTurn /\ (active # NoTurn => new[i].id < active.id)
               /\ new[i].state # "error" /\ DOMAIN new[i].parts = {}
    <2>1. active # NoTurn => OlderTurns < active.id
      BY DEF IInv, Started
    <2>2. new[i].id \in 1..OlderTurns /\ new[i].parts = <<>> /\ new[i].state = "complete"
      BY <1>1
    <2>3. DOMAIN new[i].parts = {}
      BY <2>2
    <2> DEFINE x == new[i].id
               y == active.id
               none == active = NoTurn
    <2>5. /\ x \in 1..OlderTurns /\ (~none => OlderTurns < y) /\ y \in Nat /\ OlderTurns \in Nat
          /\ nextTurn \in Nat /\ OlderTurns < nextTurn
      <3>1. OlderTurns < nextTurn
        BY <1>2
      <3> QED
        BY <2>1, <2>2, <3>1, <1>2
    <2> HIDE DEF x, y, none
    <2>6. x < nextTurn /\ (~none => x < y)
      BY ONLY <2>5
    <2>4. new[i].id < nextTurn /\ (active # NoTurn => new[i].id < active.id)
      BY <2>6 DEF x, y, none
    <2> QED
      BY <2>2, <2>3, <2>4
  <1>9. Typed'
    BY <1>3, <1>5 DEF IInv, Typed
  <1>10. Started'
    <2>1. ASSUME NEW i \in DOMAIN turns'
          PROVE  turns'[i].id < nextTurn /\ (turns'[i].state = "error" => OlderTurns < turns'[i].id)
      <3>1. CASE i \in 1..m /\ turns'[i] = new[i]
        BY <3>1, <1>8
      <3>2. CASE i - m \in 1..n /\ turns'[i] = turns[i - m]
        BY <3>2, <1>2 DEF IInv, Started
      <3> QED
        BY <3>1, <3>2, <1>5, <1>6
    <2> QED
      BY <2>1, <1>3 DEF IInv, Started
  <1>11. CallsAreOver'
    <2>1. ASSUME NEW i \in DOMAIN turns', NEW j \in DOMAIN turns'[i].parts, turns'[i].parts[j].kind = "tool"
          PROVE  turns'[i].parts[j].status \in Terminal
      <3>1. CASE i \in 1..m /\ turns'[i] = new[i]
        BY <2>1, <3>1, <1>8
      <3>2. CASE i - m \in 1..n /\ turns'[i] = turns[i - m]
        BY <2>1, <3>2, <1>2 DEF IInv, HistoryIsSettled, CallsAreOver
      <3> QED
        BY <3>1, <3>2, <1>5, <1>6
    <2> QED
      BY <2>1 DEF CallsAreOver
  <1>12. TurnsInOrder'
    <2>1. ASSUME NEW i \in DOMAIN turns', NEW j \in DOMAIN turns', i < j
          PROVE  turns'[i].id < turns'[j].id
      <3>1. i \in 1..(m + n) /\ j \in 1..(m + n)
        BY <1>5
      <3>2. CASE j \in 1..m /\ turns'[j] = new[j]
        <4>1. i \in 1..m /\ i <= m
          BY <2>1, <3>1, <3>2, <1>4
        <4> QED
          BY <2>1, <3>1, <3>2, <4>1, <1>1, <1>5
      <3>3. CASE j - m \in 1..n /\ turns'[j] = turns[j - m]
        <4>1. CASE i \in 1..m /\ turns'[i] = new[i]
          BY <3>3, <4>1, <1>1
        <4>2. CASE i - m \in 1..n /\ turns'[i] = turns[i - m]
          <5>1. i - m < j - m
            BY <2>1, <3>1, <1>2, <1>4
          <5> QED
            BY <5>1, <3>3, <4>2, <1>2
        <4> QED
          BY <3>1, <4>1, <4>2, <1>6
      <3> QED
        BY <3>1, <3>2, <3>3, <1>6
    <2>2. ASSUME active # NoTurn, NEW i \in DOMAIN turns' PROVE turns'[i].id < active.id
      <3>1. CASE i \in 1..m /\ turns'[i] = new[i]
        BY <2>2, <3>1, <1>8
      <3>2. CASE i - m \in 1..n /\ turns'[i] = turns[i - m]
        BY <2>2, <3>2, <1>2
      <3> QED
        BY <3>1, <3>2, <1>5, <1>6
    <2> QED
      BY <2>1, <2>2, <1>3 DEF TurnsInOrder
  <1>13. FinalErrorIsFinal'
    <2>1. ASSUME NEW i \in DOMAIN turns', NEW j \in DOMAIN turns'[i].parts,
                 turns'[i].parts[j] = Error("final")
          PROVE  j = Len(turns'[i].parts) /\ turns'[i].state = "error"
      <3>1. CASE i \in 1..m /\ turns'[i] = new[i]
        BY <2>1, <3>1, <1>8
      <3>2. CASE i - m \in 1..n /\ turns'[i] = turns[i - m]
        BY <2>1, <3>2, <1>2 DEF IInv, HistoryIsSettled, FinalErrorIsFinal
      <3> QED
        BY <3>1, <3>2, <1>5, <1>6
    <2>2. Error("final") \notin ToSet(active.parts)
      BY DEF IInv, HistoryIsSettled, FinalErrorIsFinal
    <2> QED
      BY <2>1, <2>2, <1>3 DEF FinalErrorIsFinal, Error
  <1>14. TranscriptsContinue
    <2>1. Window(active', turns')
      BY <1>5, <1>12, WindowOf DEF TurnsInOrder
    <2>2. Continues(active.parts, PartsOf(active.id, active', turns'))
      <3>1. active.parts \in Seq(Parts)
        BY ActiveParts
      <3>2. PartsOf(active.id, active', turns') = active.parts
        BY <1>3 DEF PartsOf
      <3> QED
        BY <3>1, <3>2, ContinuesItself
    <2>3. \A k \in DOMAIN turns :
             \E j \in DOMAIN turns' : turns'[j].id = turns[k].id /\ turns'[j].parts = turns[k].parts
      BY <1>2, <1>7
    <2> QED
      BY ONLY <1>2, <2>1, <2>2, <2>3, Carried
  <1> QED
    BY <1>9, <1>10, <1>11, <1>12, <1>13, <1>14 DEF IInv, HistoryIsSettled

-----------------------------------------------------------------------------
(* The specification.                                                      *)

(* A snapshot of an idle chat is settled.                                   *)
LEMMA InitIInv == Init => IInv /\ Refreshed
  <1> SUFFICES ASSUME Init PROVE IInv /\ Refreshed
    OBVIOUS
  <1>1. PICK lo \in 1..(OlderTurns + 1) : turns = History(lo, OlderTurns) /\ cursor = (lo > 1)
    BY DEF Init
  <1>2. OlderTurns \in Nat /\ MaxTurns \in Nat
    BY TurnBoundAssumption
  <1> DEFINE l == OlderTurns - lo + 1
  <1>3. l \in Nat /\ \A k \in 1..l : lo + k - 1 \in 1..OlderTurns
    BY <1>2
  <1>4. \A i \in 1..OlderTurns : i \in TurnIds
    BY <1>2 DEF TurnIds
  <1>5. <<>> \in Seq(Parts)
    OBVIOUS
  <1>6. \A i \in 1..OlderTurns : Loaded(i) \in Done
    BY <1>4, <1>5 DEF Loaded, Done
  <1>7. \A i : Loaded(i).id = i /\ Loaded(i).parts = <<>> /\ Loaded(i).state = "complete"
    BY DEF Loaded
  <1>8. turns \in Seq(Done) /\ DOMAIN turns = 1..l /\ \A k \in 1..l : turns[k] = Loaded(lo + k - 1)
    <2>1. \A k \in 1..l : Loaded(lo + k - 1) \in Done
      BY <1>3, <1>6
    <2>2. turns = [k \in 1..l |-> Loaded(lo + k - 1)]
      BY <1>1 DEF History
    <2> HIDE DEF l
    <2>3. [k \in 1..l |-> Loaded(lo + k - 1)] \in Seq(Done)
      BY <1>3, <2>1, IsASeq
    <2> QED
      BY <2>2, <2>3
  <1>9. /\ active = NoTurn /\ activity = "idle" /\ flags \subseteq Flags
        /\ nextTurn = OlderTurns + 1 /\ cursor \in BOOLEAN /\ unseen = {}
    BY <1>1 DEF Init
  <1> HIDE DEF l
  <1>10. \A k \in 1..l : /\ turns[k].id = lo + k - 1 /\ turns[k].parts = <<>>
                         /\ turns[k].state = "complete"
    BY <1>7, <1>8
  <1>11. NoTurn \in Turn /\ NoTurn.parts = <<>>
    BY DEF NoTurn, Turn
  <1>12. Typed
    <2>1. nextTurn \in (OlderTurns + 1)..(OlderTurns + MaxTurns + 1)
      BY <1>2, <1>9
    <2> QED
      BY <2>1, <1>8, <1>9, <1>11 DEF Typed
  <1>13. Started
    <2>2. \A k \in 1..l : lo + k - 1 < OlderTurns + 1
      BY <1>2, <1>3
    <2>1. \A k \in 1..l : turns[k].id < nextTurn /\ turns[k].state # "error"
      BY <2>2, <1>9, <1>10
    <2> QED
      BY <2>1, <1>8, <1>9 DEF Started
  <1>14. \A k \in 1..l : DOMAIN turns[k].parts = {}
    BY <1>10
  <1>15. CallsAreOver
    BY <1>8, <1>14 DEF CallsAreOver
  <1>16. TurnsInOrder
    <2>1. \A j, k \in 1..l : j < k => turns[j].id < turns[k].id
      BY <1>3, <1>10
    <2> QED
      BY <2>1, <1>8, <1>9 DEF TurnsInOrder
  <1>17. FinalErrorIsFinal
    <2>1. DOMAIN active.parts = {}
      BY <1>9, <1>11
    <2>2. Error("final") \notin ToSet(active.parts)
      BY <2>1, Zenon DEF ToSet
    <2> QED
      BY <2>2, <1>8, <1>14 DEF FinalErrorIsFinal
  <1>18. Refreshed
    BY <1>9 DEF Refreshed
  <1> QED
    BY <1>12, <1>13, <1>15, <1>16, <1>17, <1>18 DEF IInv, HistoryIsSettled

\* The actions that leave the window alone.
ActiveAction ==
    \/ \E t \in TurnIds : \E part \in GenericParts : ResponsePart(t, part)
    \/ \E t \in TurnIds, k \in ToolIds : ToolAction(t, k)
    \/ \E r \in InputIds : InputRequested(r) \/ InputCompleted(r)

(* They continue the active turn.                                           *)
LEMMA ActiveActionGrows ==
    ASSUME IInv, ActiveAction
    PROVE  /\ Grows /\ flags' \subseteq Flags
           /\ activity' \in {"idle", "error", "inProgress", "inputNeeded"}
  <1>1. flags \subseteq Flags /\ activity \in {"idle", "error", "inProgress", "inputNeeded"}
    BY DEF IInv, Typed
  <1>2. \A turn : SummaryStatus(turn) \in {"idle", "error", "inProgress", "inputNeeded"}
    BY DEF SummaryStatus
  <1>3. ASSUME NEW t \in TurnIds, NEW part \in GenericParts, ResponsePart(t, part)
        PROVE  Grows /\ flags' = flags /\ activity' = activity
    <2>2. part \in Parts /\ part # Error("final")
      BY <1>3, GenericAssumption, PartFacts DEF ResponsePart
    <2> QED
      BY <1>3, <2>2, PushGrows DEF ResponsePart, OnlyActive
  <1>4. ASSUME NEW t \in TurnIds, NEW k \in ToolIds, NEW by \in Contributors, ToolCallStart(t, k, by)
        PROVE  Grows /\ flags' = flags /\ activity' = activity
    <2>1. Tool(k, "streaming", by) \in ToolParts
      BY DEF Tool, ToolParts, ToolStatus
    <2>2. Tool(k, "streaming", by) \in Parts /\ Tool(k, "streaming", by) # Error("final")
      BY <2>1, PartFacts
    <2> QED
      BY <1>4, <2>2, PushGrows DEF ToolCallStart, OnlyActive
  <1>5. ASSUME NEW t \in TurnIds, NEW k \in ToolIds, NEW u, Updates(u), ToolCallAction(t, k, u)
        PROVE  Grows /\ flags' = flags /\ activity' = SummaryStatus(active')
    BY <1>5, UpdateGrows DEF ToolCallAction, OnlyActive, Refresh
  <1>6. ASSUME NEW t \in TurnIds, NEW k \in ToolIds, ToolAction(t, k)
        PROVE  Grows /\ flags' = flags /\ (activity' = activity \/ activity' = SummaryStatus(active'))
    <2>1. CASE ToolCallReady(t, k)
      BY <2>1, <1>5, UpdatersUpdate DEF ToolCallReady
    <2>2. CASE ToolCallConfirmed(t, k)
      BY <2>2, <1>5, UpdatersUpdate DEF ToolCallConfirmed
    <2>3. CASE ToolCallComplete(t, k)
      BY <2>3, <1>5, UpdatersUpdate DEF ToolCallComplete
    <2>4. CASE ToolCallResultConfirmed(t, k)
      BY <2>4, <1>5, UpdatersUpdate DEF ToolCallResultConfirmed
    <2>5. CASE ToolCallAuthRequired(t, k)
      BY <2>5, <1>5, UpdatersUpdate DEF ToolCallAuthRequired
    <2>6. CASE ToolCallAuthResolved(t, k)
      BY <2>6, <1>5, UpdatersUpdate DEF ToolCallAuthResolved
    <2> QED
      BY <1>4, <1>6, <2>1, <2>2, <2>3, <2>4, <2>5, <2>6 DEF ToolAction
  <1>7. ASSUME NEW r \in InputIds, InputRequested(r)
        PROVE  Grows /\ flags' \subseteq flags /\ activity' = SummaryStatus(active')
    <2>1. CASE OpenInputs(active, r) # {}
      <3>1. active' = active /\ UNCHANGED <<turns, cursor, nextTurn>>
        BY <1>7, <2>1 DEF InputRequested
      <3>2. active \in Turn /\ Continues(active.parts, active.parts)
        BY ActiveParts, ContinuesItself DEF IInv, Typed
      <3>3. \A j \in 1..Len(active.parts) : active.parts[j] # Error("final")
        BY ActiveParts
      <3>4. Grows
        BY <3>1, <3>2, <3>3 DEF Grows
      <3> QED
        BY <1>7, <3>4 DEF InputRequested, Refresh
    <2>2. CASE OpenInputs(active, r) = {}
      <3>1. Input(r, "open") \in Parts /\ Input(r, "open") # Error("final")
        BY PartFacts
      <3>2. active.id \in TurnIds
        BY <1>7, ActiveParts DEF InputRequested
      <3>3. active' = Push(active, Input(r, "open")) /\ UNCHANGED <<turns, cursor, nextTurn>>
        BY <1>7, <2>2 DEF InputRequested
      <3> QED
        BY <1>7, <3>1, <3>2, <3>3, PushGrows DEF InputRequested, Refresh
    <2> QED
      BY <2>1, <2>2
  <1>8. ASSUME NEW r \in InputIds, InputCompleted(r)
        PROVE  Grows /\ flags' = flags /\ activity' = SummaryStatus(active')
    BY <1>8, InputCompletedGrows DEF InputCompleted, OnlyActive, Refresh
  <1> QED
    BY <1>1, <1>2, <1>3, <1>6, <1>7, <1>8 DEF ActiveAction

(* Every step keeps the history settled and continues the transcripts.      *)
LEMMA StepIInv ==
    ASSUME IInv, Next
    PROVE  IInv' /\ TranscriptsContinue
  <1>1. CASE ActiveAction
    BY <1>1, ActiveActionGrows, GrowsKeeps
  <1>2. ASSUME NEW t \in TurnIds, TurnComplete(t) \/ TurnCancelled(t)
        PROVE  IInv' /\ TranscriptsContinue
    <2>1. <<>> \in Seq({Error("final"), Error("resumable")}) /\ Len(<<>>) <= 1
      OBVIOUS
    <2> QED
      BY <1>2, <2>1, EndTurnKeeps DEF TurnComplete, TurnCancelled
  <1>3. ASSUME NEW t \in TurnIds, NEW resumable \in BOOLEAN, ChatError(t, resumable)
        PROVE  IInv' /\ TranscriptsContinue
    <2> DEFINE e == Error(IF resumable THEN "resumable" ELSE "final")
    <2>1. e \in {Error("final"), Error("resumable")}
      OBVIOUS
    <2>2. EndTurn(t, "error", <<e>>, "error")
      BY <1>3 DEF ChatError
    <2> HIDE DEF e
    <2>3. <<e>> \in Seq({Error("final"), Error("resumable")}) /\ Len(<<e>>) <= 1
      BY <2>1
    <2> QED
      BY <2>2, <2>3, EndTurnKeeps
  <1>4. ASSUME NEW flag \in Flags, NEW set \in BOOLEAN, FlagChanged(flag, set)
        PROVE  IInv' /\ TranscriptsContinue
    <2>1. /\ flags' \subseteq Flags /\ UNCHANGED <<active, turns, activity, cursor, nextTurn>>
      BY <1>4 DEF FlagChanged, IInv, Typed
    <2>2. active \in Turn /\ Continues(active.parts, active.parts)
      BY ActiveParts, ContinuesItself DEF IInv, Typed
    <2>3. \A j \in 1..Len(active.parts) : active.parts[j] # Error("final")
      BY ActiveParts
    <2>4. Grows
      BY <2>1, <2>2, <2>3 DEF Grows
    <2>5. activity' \in {"idle", "error", "inProgress", "inputNeeded"}
      BY <2>1 DEF IInv, Typed
    <2> QED
      BY <2>1, <2>4, <2>5, GrowsKeeps
  <1>5. ASSUME NEW t \in TurnIds, TurnAction(t)
        PROVE  IInv' /\ TranscriptsContinue
    BY <1>1, <1>2, <1>3, <1>5, TurnResumeKeeps DEF TurnAction, ActiveAction
  <1> QED
    BY <1>1, <1>4, <1>5, TurnStartedKeeps, TruncatedKeeps, TurnsLoadedKeeps DEF Next, ActiveAction

(* A part that comes without a refresh leaves the status right when it      *)
(* blocks nothing or is put aside.                                          *)
LEMMA PushRefreshed ==
    ASSUME IInv, Refreshed, NEW part \in Parts, part # Error("final"),
           active.id \in TurnIds,
           active' = Push(active, part), UNCHANGED <<turns, cursor, nextTurn, activity>>,
           \/ unseen' = unseen \cup {Len(active.parts) + 1}
           \/ unseen' = unseen /\ ~Blocks(part)
    PROVE  Refreshed'
  <1>1. /\ active'.parts = Append(active.parts, part) /\ active # NoTurn /\ active' # NoTurn
    BY PushGrows
  <1> DEFINE p == active.parts
             np == Append(p, part)
  <1>2. p \in Seq(Parts) /\ Len(p) \in Nat /\ DOMAIN p = 1..Len(p)
    BY ActiveParts
  <1>3. /\ DOMAIN np = 1..(Len(p) + 1) /\ np[Len(p) + 1] = part
        /\ \A k \in 1..Len(p) : np[k] = p[k]
        /\ \A k \in 1..(Len(p) + 1) : k \in 1..Len(p) \/ k = Len(p) + 1
        /\ 1..Len(p) \subseteq 1..(Len(p) + 1) /\ Len(p) + 1 \in 1..(Len(p) + 1)
        /\ Len(p) + 1 \notin 1..Len(p)
    BY <1>2
  <1>4. unseen \subseteq 1..Len(p) /\ activity = SeenStatus
    BY <1>1, <1>2 DEF Refreshed, p
  <1>5. /\ unseen' = unseen \cup {Len(p) + 1} \/ (unseen' = unseen /\ ~Blocks(part))
        /\ activity' = activity
    BY DEF p
  <1> HIDE DEF np, p
  <1>6. (\E k \in DOMAIN np \ unseen' : Blocks(np[k])) <=> (\E k \in DOMAIN p \ unseen : Blocks(p[k]))
    BY <1>2, <1>3, <1>4, <1>5, Zenon
  <1>7. active'.parts = np /\ active.parts = p
    BY <1>1 DEF np, p
  <1>8. SeenStatus' = SeenStatus
    BY <1>6, <1>7 DEF SeenStatus, Blocks
  <1>9. unseen' \subseteq DOMAIN np
    BY <1>3, <1>4, <1>5
  <1> QED
    BY <1>1, <1>4, <1>5, <1>7, <1>8, <1>9 DEF Refreshed

(* An action that computes the status leaves it right.                      *)
LEMMA RefreshRefreshes ==
    ASSUME Refresh
    PROVE  Refreshed'
  <1>1. activity' = SummaryStatus(active') /\ unseen' = {}
    BY DEF Refresh
  <1>2. SeenStatus' = IF Blocked(active') THEN "inputNeeded" ELSE "inProgress"
    BY <1>1 DEF SeenStatus, Blocked, Blocks
  <1> QED
    BY <1>1, <1>2 DEF Refreshed, SummaryStatus, NoTurn

(* Every step leaves the status refreshed.                                  *)
LEMMA StepRefreshed ==
    ASSUME IInv, Refreshed, Next
    PROVE  Refreshed'
  <1>2. ASSUME Refresh PROVE Refreshed'
    BY <1>2, RefreshRefreshes
  <1>3. ASSUME active' = NoTurn, activity' \in {"idle", "error"}, unseen' = {} PROVE Refreshed'
    BY <1>3 DEF Refreshed, NoTurn
  <1>4. ASSUME active' = active, activity' = activity, unseen' = unseen PROVE Refreshed'
    BY <1>4 DEF Refreshed, SeenStatus, Blocks, NoTurn
  <1>5. ASSUME NEW t \in TurnIds, NEW part \in GenericParts, ResponsePart(t, part) PROVE Refreshed'
    <2>1. part \in Parts /\ part # Error("final")
      BY <1>5, GenericAssumption, PartFacts DEF ResponsePart
    <2> QED
      BY <1>5, <2>1, PushRefreshed DEF ResponsePart, OnlyActive
  <1>6. ASSUME NEW t \in TurnIds, NEW k \in ToolIds, NEW by \in Contributors, ToolCallStart(t, k, by)
        PROVE  Refreshed'
    <2> DEFINE part == Tool(k, "streaming", by)
    <2>1. part \in ToolParts /\ ~Blocks(part)
      BY DEF Tool, ToolParts, ToolStatus, Blocking, Blocks
    <2>2. part \in Parts /\ part # Error("final")
      BY <2>1, PartFacts
    <2>3. active' = Push(active, part) /\ active.id \in TurnIds
          /\ UNCHANGED <<turns, cursor, nextTurn, activity>> /\ unseen' = unseen
      BY <1>6 DEF ToolCallStart, OnlyActive
    <2> HIDE DEF part
    <2> QED
      BY <2>1, <2>2, <2>3, PushRefreshed
  <1>7. ASSUME NEW t \in TurnIds, NEW k \in ToolIds, ToolAction(t, k) PROVE Refreshed'
    <2>1. (\E by \in Contributors : ToolCallStart(t, k, by)) \/ Refresh
      BY <1>7 DEF ToolAction, ToolCallReady, ToolCallConfirmed, ToolCallComplete,
                  ToolCallResultConfirmed, ToolCallAuthRequired, ToolCallAuthResolved, ToolCallAction
    <2> QED
      BY <2>1, <1>2, <1>6
  <1>8. ASSUME NEW t \in TurnIds, TurnAction(t) PROVE Refreshed'
    <2>1. \/ active' = NoTurn /\ activity' \in {"idle", "error"} /\ unseen' = {}
          \/ Refresh
          \/ \E part \in GenericParts : ResponsePart(t, part)
      BY <1>8 DEF TurnAction, TurnComplete, TurnCancelled, ChatError, EndTurn, TurnResume
    <2> QED
      BY <2>1, <1>2, <1>3, <1>5
  <1>9. ASSUME \/ TurnStarted \/ \E t \in TurnIds \cup {0} : Truncated(t)
               \/ \E r \in InputIds : InputRequested(r) \/ InputCompleted(r)
        PROVE  Refreshed'
    BY <1>2, <1>9 DEF TurnStarted, Truncated, InputRequested, InputCompleted
  <1>10. ASSUME \/ \E lo, hi \in 1..OlderTurns : TurnsLoaded(lo, hi)
                \/ \E flag \in Flags, set \in BOOLEAN : FlagChanged(flag, set)
         PROVE  Refreshed'
    BY <1>4, <1>10 DEF TurnsLoaded, FlagChanged
  <1> QED
    BY <1>7, <1>8, <1>9, <1>10 DEF Next

-----------------------------------------------------------------------------
(* A step in which nothing changes.                                         *)
LEMMA Stutter == UNCHANGED vars => (IInv => IInv') /\ (Refreshed => Refreshed')
  <1> SUFFICES ASSUME UNCHANGED vars PROVE (IInv => IInv') /\ (Refreshed => Refreshed')
    OBVIOUS
  <1>1. /\ active' = active /\ turns' = turns /\ activity' = activity /\ flags' = flags
        /\ cursor' = cursor /\ nextTurn' = nextTurn /\ unseen' = unseen
    BY DEF vars
  <1>2. (Typed => Typed') /\ (Started => Started')
    BY <1>1 DEF Typed, Started, NoTurn
  <1>3. HistoryIsSettled => HistoryIsSettled'
    BY <1>1 DEF HistoryIsSettled, CallsAreOver, TurnsInOrder, FinalErrorIsFinal, Error, NoTurn, ToSet
  <1>4. Refreshed => Refreshed'
    BY <1>1 DEF Refreshed, SeenStatus, Blocks, NoTurn
  <1> QED
    BY <1>2, <1>3, <1>4 DEF IInv

LEMMA IInvInvariant == Spec => []IInv
  <1>1. Init => IInv
    BY InitIInv
  <1>2. IInv /\ [Next]_vars => IInv'
    BY StepIInv, Stutter
  <1> QED
    BY <1>1, <1>2, PTL DEF Spec

(* However turns end, are resumed, truncated and paged in, the history of a *)
(* chat is settled: tool calls are over, final errors are final, and turns  *)
(* are unique and in order.                                                 *)
THEOREM HistorySettled == Spec => []HistoryIsSettled
  <1>1. IInv => HistoryIsSettled
    BY DEF IInv
  <1> QED
    BY <1>1, IInvInvariant, PTL

(* No chat action loses, moves or rewrites a part of a turn's transcript.   *)
THEOREM TranscriptGrows == Spec => TranscriptAppendOnly
  <1>1. IInv /\ [Next]_vars => [TranscriptsContinue]_vars
    BY StepIInv
  <1> QED
    BY <1>1, IInvInvariant, PTL DEF Spec, TranscriptAppendOnly

(* After every action the status is summaryStatus() of the active turn, but *)
(* for the parts that chat/responsePart, which does not compute it, appended*)
(* since an action last did.                                                *)
THEOREM StatusFollows == Spec => []StatusFollowsTurn
  <1>1. Init => IInv /\ Refreshed
    BY InitIInv
  <1>2. IInv /\ Refreshed /\ [Next]_vars => (IInv /\ Refreshed)'
    BY StepIInv, StepRefreshed, Stutter
  <1>3. IInv /\ Refreshed => StatusFollowsTurn
    <2> SUFFICES ASSUME IInv, Refreshed PROVE StatusFollowsTurn
      OBVIOUS
    <2>1. TypeOK
      <3>1. \A x \in Done : /\ x.id \in TurnIds /\ x.parts \in Seq(Parts)
                            /\ x.state \in {"complete", "cancelled", "error"}
        BY DEF Done
      <3>2. \A k \in DOMAIN turns : turns[k] \in Done
        BY TurnFacts
      <3>3. nextTurn \in 1..(OlderTurns + MaxTurns + 1)
        BY TurnFacts
      <3> QED
        BY <3>1, <3>2, <3>3, ActiveParts DEF TypeOK, IInv, Typed, Refreshed
    <2> QED
      BY <2>1 DEF StatusFollowsTurn, Refreshed, SeenStatus
  <1> QED
    BY <1>1, <1>2, <1>3, PTL DEF Spec

=============================================================================
