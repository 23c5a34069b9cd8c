---------------------------- MODULE StateMirror ----------------------------
(***************************************************************************)
(* AhpStateMirror (client/state-mirror.ts): the reducer-driven store a       *)
(* client keeps of the channels it is subscribed to, fed with snapshots and  *)
(* action envelopes.  Chats, annotations and resource watches have reducers  *)
(* but no place in the mirror: an application keeps them itself, in `kept`.  *)
(*                                                                           *)
(* There is one resource of each kind.  The actions of a behaviour are those *)
(* of one topic: topics change different fields, so mixing them reaches no   *)
(* new value of any one of them.  `history` is what the host has sent or the *)
(* user has answered, and is not part of the code.                           *)
(***************************************************************************)
EXTENDS ActionOrigins

CONSTANTS MaxParts, MaxCalls    \* bounds: response parts and tool calls of the turn

\* The kind of resource each topic is about.
KindOf ==
    [root |-> "root", terminal |-> "terminals", shell |-> "terminals",
     changeset |-> "changesets", catalog |-> "catalog", run |-> "runs", canvas |-> "canvases",
     metadata |-> "sessions", config |-> "sessions", chats |-> "sessions",
     clients |-> "sessions", directories |-> "sessions", inputs |-> "sessions",
     customizations |-> "sessions", mcp |-> "sessions", annotations |-> "annotations", watch |-> "watch",
     text |-> "chat", answers |-> "chat", toolCall |-> "chat",
     chatMetadata |-> "chat", chatLists |-> "chat", pending |-> "chat"]

VARIABLES
    topic,      \* what the host sends about
    mirror,     \* the AhpStateMirror; a resource that is not in its map is None
    kept,       \* the resources the application reduces itself
    history     \* what was sent since the snapshot

vars == <<topic, mirror, kept, history>>

NoHistory ==
    [sent |-> 0, output |-> <<>>, running |-> None, used |-> {},
     text |-> [p \in PartIds |-> <<>>], answers |-> [p \in PartIds |-> NoAnswers],
     activity |-> {}, flags |-> {}, waited |-> FALSE,   \* of the session
     messages |-> {}, inLine |-> <<>>]                  \* pending, and in no reordering yet

\* The ids of a list of pending messages.
MessageIds(list) == [k \in DOMAIN list |-> list[k].id]

\* The history that starts with a snapshot.
Since(state) ==
    CASE KindOf[topic] = "sessions" ->
            [NoHistory EXCEPT !.activity = state.status \cap ActivityMask,
                              !.flags = state.status \ ActivityMask]
      [] KindOf[topic] = "chat" ->
            [NoHistory EXCEPT !.messages = ToSet(state.queuedMessages),
                              !.inLine = MessageIds(state.queuedMessages)]
      [] OTHER -> NoHistory

Empty == [k \in {} |-> None]

\* INITIAL_ROOT, INITIAL_AUTOMATION_CATALOG and empty maps.
Init ==
    /\ topic \in DOMAIN KindOf
    /\ mirror = [root |-> [agents |-> <<>>, activeSessions |-> 0, terminals |-> <<>>, config |-> None],
                 catalog |-> [entries |-> <<>>], automations |-> Empty,
                 sessions |-> None, canvases |-> None, terminals |-> None,
                 changesets |-> None, runs |-> None]
    /\ kept = [chat |-> None, annotations |-> None, watch |-> None]
    /\ history = NoHistory

Resource == IF KindOf[topic] \in DOMAIN mirror THEN mirror[KindOf[topic]] ELSE kept[KindOf[topic]]

-----------------------------------------------------------------------------
(* The mirror.                                                             *)

isCanvasState(state) == state \in CanvasState

\* The catalogue and its index by resource; the last entry of a key counts.
setAutomationCatalog(m, state) ==
    LET Entry(r) == state.entries[Max({k \in DOMAIN state.entries : state.entries[k].resource = r})]
    IN  [m EXCEPT !.catalog = state,
                  !.automations = [r \in {e.resource : e \in ToSet(state.entries)} |-> Entry(r)]]

\* A canvas snapshot that is not a CanvasState throws; other kinds of resource
\* are not tracked.
applySnapshot(m, kind, state) ==
    CASE kind = "catalog" -> setAutomationCatalog(m, state)
      [] kind = "canvases" /\ ~isCanvasState(state) -> m
      [] kind \in {"chat", "annotations", "watch"} -> m
      [] OTHER -> [m EXCEPT ![kind] = state]

\* An envelope for a resource that has had no snapshot is dropped; the root and
\* the catalogue always have a state.
apply(m, kind, action) ==
    CASE kind = "root" -> [m EXCEPT !.root = rootReducer(@, action)]
      [] kind = "catalog" -> setAutomationCatalog(m, automationReducer(m.catalog, action))
      [] kind \in {"chat", "annotations", "watch"} -> m
      [] OTHER ->
            IF m[kind] = None THEN m
            ELSE [m EXCEPT ![kind] =
                    CASE kind = "sessions"   -> sessionReducer(@, action)
                      [] kind = "canvases"   -> canvasReducer(@, action)
                      [] kind = "terminals"  -> terminalReducer(@, action)
                      [] kind = "changesets" -> changesetReducer(@, action)
                      [] kind = "runs"       -> automationRunReducer(@, action)]

\* What the application does with the resources the mirror has no place for.
keep(k, kind, action) ==
    IF kind \notin DOMAIN k \/ k[kind] = None THEN k
    ELSE [k EXCEPT ![kind] =
            CASE kind = "chat"        -> chatReducer(@, action)
              [] kind = "annotations" -> annotationsReducer(@, action)
              [] kind = "watch"       -> resourceWatchReducer(@, action)]

-----------------------------------------------------------------------------
(* The host.                                                               *)

NewSession ==
    [lifecycle |-> "creating", creationError |-> None, title |-> Sample(Values), status |-> {"idle"},
     activity |-> None, changesets |-> None, meta |-> None, serverTools |-> None,
     config |-> None, chats |-> <<>>, defaultChat |-> None, activeClients |-> <<>>,
     workingDirectories |-> <<>>, inputNeeded |-> <<>>, customizations |-> <<>>]
NewTerminal ==
    [title |-> Sample(Values), cwd |-> None, size |-> None, content |-> <<>>,
     lifecycle |-> [status |-> "running"], claim |-> CHOOSE c \in TerminalClientClaim : TRUE,
     supportsCommandDetection |-> FALSE]
NewChat(turn) ==
    [turn |-> turn, parts |-> <<>>, usage |-> None, activity |-> None, movable |-> FALSE,
     changesets |-> None, canvases |-> None, queuedMessages |-> <<>>, steeringMessage |-> None,
     draft |-> None, provider |-> None, backgroundWork |-> <<>>, workingDirectories |-> <<>>, config |-> None]

\* A list an old host wrote, whose entry has no kind, or the slot an old host
\* wrote, which is in no list.
OldPending ==
    LET entries == [id : PendingIds, kind : {None}, message : Submitted] IN
    {[NewChat(None) EXCEPT !.queuedMessages = <<e>>] : e \in entries}
        \cup {[NewChat(None) EXCEPT !.steeringMessage = e] : e \in entries}

\* The snapshots of the topic's resource.
Snapshots ==
    CASE topic = "root" -> {[mirror.root EXCEPT !.config = c] : c \in {None, [values |-> Empty]}}
      [] topic \in {"inputs", "metadata"} ->
            {[NewSession EXCEPT !.status = activity \cup flags] :
                activity \in Activities \ {SessionStatus.InputNeeded}, flags \in {{}, {"read"}}}
      [] topic = "config" -> {NewSession, [NewSession EXCEPT !.config = [values |-> Empty]]}
      [] topic \in {"chats", "clients", "directories", "customizations", "mcp"} -> {NewSession}
      [] topic \in {"terminal", "shell"} -> {NewTerminal}
      [] topic = "changeset" -> {[status |-> "computing", error |-> None, files |-> <<>>, operations |-> <<>>]}
      [] topic = "catalog" -> {[entries |-> <<>>]} \cup {[entries |-> <<e>>] : e \in Entries}
      [] topic = "run" -> {[origin |-> [kind |-> "manual"], lifecycle |-> [status |-> "pending"], sessions |-> <<>>, primarySession |-> None]}
      [] topic = "canvas" -> CanvasState \cup {None}
      [] topic = "annotations" -> {[annotations |-> <<>>]}
      [] topic = "watch" -> ResourceWatchState
      [] topic = "pending" -> {NewChat(None)} \cup OldPending
      [] OTHER -> {NewChat(t) : t \in {None, CHOOSE t \in Turns : TRUE}}

\* The actions of the topic.
Actions ==
    LET shell == {"terminal/data", "terminal/cleared", "terminal/commandExecuted", "terminal/commandFinished"} IN
    CASE topic = "root" -> RootAction
      [] topic = "shell" -> {action \in TerminalAction : action.type \in shell}
      [] topic = "terminal" -> {action \in TerminalAction : action.type \notin shell}
      [] topic = "changeset" -> ChangesetAction
      [] topic = "annotations" -> AnnotationsAction
      [] topic = "catalog" -> AutomationAction
      [] topic = "run" -> AutomationRunAction
      [] topic = "canvas" -> CanvasAction
      [] topic = "watch" -> ResourceWatchAction
      [] topic = "metadata" -> MetadataActions \ SessionConfigChangedAction
      [] topic = "config" -> SessionConfigChangedAction
      [] topic = "chats" -> ChatCatalogActions
      [] topic = "clients" -> ClientActions
      [] topic = "directories" -> DirectoryActions
      [] topic = "inputs" -> InputActions \cup SessionIsReadChangedAction
      [] topic = "customizations" -> CustomizationActions
      [] topic = "mcp" -> McpActions \cup SessionCustomizationUpdatedAction
      [] topic = "text" -> TextActions
      [] topic = "answers" -> AnswerActions
      [] topic = "toolCall" -> ToolCallActions
      [] topic = "chatMetadata" -> ChatMetadataActions
      [] topic = "chatLists" -> ChatListActions
      [] topic = "pending" -> PendingActions

\* What a host that keeps to the protocol sends: it names what it has listed,
\* a shell runs one command at a time and ids are used once, parts have their
\* own ids and deltas are for a part of their kind.
HostMaySend(action) ==
    LET state == Resource
        Part(id) == {k \in DOMAIN state.parts : PartId(state.parts[k]) = id}
        Fresh(id, max) == (id # None => Part(id) = {}) /\ Len(state.parts) < max
    IN
    CASE action.type = "session/defaultChatChanged" ->
            state # None /\ action.defaultChat # None =>
                FindIndex(state.chats, "resource", action.defaultChat) # 0
      [] action.type = "automationRun/primarySessionChanged" ->
            state # None => action.primarySession \in ToSet(state.sessions) \cup {None}
      [] action.type = "terminal/data" -> action.data = history.sent + 1
      [] action.type = "terminal/commandExecuted" ->
            history.running = None /\ action.commandId \notin history.used
      [] action.type = "terminal/commandFinished" ->
            history.running # None /\ history.running.id = action.commandId
      [] action.type \in {"chat/delta", "chat/reasoning"} ->
            /\ state # None /\ action.content = history.sent + 1
            /\ action.turnId = state.turn =>
                  \E k \in Part(action.partId) :
                      state.parts[k].kind = IF action.type = "chat/delta" THEN "markdown" ELSE "reasoning"
      [] action.type = "chat/toolCallDelta" -> action.content = history.sent + 1
      [] action.type = "chat/responsePart" -> state # None /\ Fresh(PartId(action.part), MaxParts)
      [] action.type = "chat/toolCallStart" -> state # None /\ Fresh(action.toolCallId, MaxCalls)
      [] action.type = "chat/inputRequested" ->
            state # None /\ Len(state.parts) >= MaxParts =>
                findOpenInputRequestPart(state.parts, action.request.id) # 0
      [] OTHER -> TRUE

\* The history of what the client got about a resource it has.
Recorded(action) ==
    IF Resource = None THEN history
    ELSE LET h == history
             open(id) == findOpenInputRequestPart(Resource.parts, id) # 0
             flagged(flag, set) == IF set THEN h.flags \cup flag ELSE h.flags \ flag
             left(messages, named) ==
                [h EXCEPT !.messages = messages,
                          !.inLine = SelectSeq(@, LAMBDA id : /\ id \notin named
                                                              /\ \E m \in messages : m.id = id)]
             stale == "turnId" \in DOMAIN action /\ action.turnId # Resource.turn
    IN
    CASE action.type = "terminal/data" ->
            [h EXCEPT !.sent = @ + 1,
                      !.output = Append(@, [by |-> IF h.running # None /\ h.running.shown
                                                   THEN h.running.id ELSE None,
                                            data |-> action.data])]
      [] action.type = "terminal/cleared" ->
            [h EXCEPT !.output = <<>>,
                      !.running = IF @ = None THEN None ELSE [@ EXCEPT !.shown = FALSE]]
      [] action.type = "terminal/commandExecuted" ->
            [h EXCEPT !.running = [id |-> action.commandId, shown |-> TRUE],
                      !.used = @ \cup {action.commandId}]
      [] action.type = "terminal/commandFinished" -> [h EXCEPT !.running = None]
      [] action.type \in {"chat/delta", "chat/reasoning"} /\ ~stale ->
            [h EXCEPT !.sent = @ + 1, !.text[action.partId] = Append(@, action.content)]
      [] action.type = "chat/toolCallDelta" -> [h EXCEPT !.sent = @ + 1]
      [] action.type = "chat/inputRequested" /\ ~open(action.request.id) ->
            [h EXCEPT !.answers[action.request.id] = NoAnswers]
      [] action.type = "chat/inputAnswerChanged" /\ open(action.requestId) ->
            [h EXCEPT !.answers[action.requestId] =
                IF action.answer = None THEN Restrict(@, DOMAIN @ \ {action.questionId})
                ELSE (action.questionId :> action.answer) @@ @]
      [] action.type = "chat/inputCompleted" /\ open(action.requestId) ->
            [h EXCEPT !.answers[action.requestId] = action.answers @@ @]
      [] action.type = "session/inputNeededSet" -> [h EXCEPT !.waited = @ \/ awaitsUser(action.request)]
      [] action.type = "session/isReadChanged" ->
            [h EXCEPT !.flags = flagged(SessionStatus.IsRead, action.isRead)]
      [] action.type = "session/isArchivedChanged" ->
            [h EXCEPT !.flags = flagged(SessionStatus.IsArchived, action.isArchived)]
      [] action.type = "chat/pendingMessageSet" ->
            [h EXCEPT !.messages = {m \in @ : m.id # action.id}
                          \cup {[id |-> action.id, kind |-> action.kind, message |-> action.message]},
                      !.inLine = IF \E m \in h.messages : m.id = action.id THEN @
                                 ELSE Append(@, action.id)]
      [] action.type = "chat/pendingMessageRemoved" ->
            left({m \in h.messages :
                    m.id # action.id \/ action.kind # IF m.kind = None THEN "queued" ELSE m.kind}, {})
      [] action.type = "chat/turnStarted" ->
            left({m \in h.messages : m.id # action.queuedMessageId}, {})
      [] action.type = "chat/queuedMessagesReordered" -> left(h.messages, ToSet(action.order))
      [] OTHER -> h

-----------------------------------------------------------------------------
\* A snapshot replaces what is known of the resource.
TakeSnapshot(state) ==
    /\ mirror' = applySnapshot(mirror, KindOf[topic], state)
    /\ kept' = IF KindOf[topic] \in DOMAIN kept THEN [kept EXCEPT ![KindOf[topic]] = state] ELSE kept
    /\ history' = Since(state)
    /\ UNCHANGED topic

\* An action that a client may dispatch comes whenever it likes.
Receive(action) ==
    /\ isClientDispatchable(action) \/ HostMaySend(action)
    /\ mirror' = apply(mirror, KindOf[topic], action)
    /\ kept' = keep(kept, KindOf[topic], action)
    /\ history' = Recorded(action)
    /\ UNCHANGED topic

Next ==
    \/ \E state \in Snapshots : TakeSnapshot(state)
    \/ \E action \in Actions : Receive(action)

Spec == Init /\ [][Next]_vars

-----------------------------------------------------------------------------
(* Properties.                                                             *)

TypeOK ==
    /\ topic \in DOMAIN KindOf
    /\ mirror.root \in RootState
    /\ mirror.catalog \in AutomationState
    /\ mirror.sessions \in SessionState \cup {None}
    /\ mirror.canvases \in CanvasState \cup {None}
    /\ mirror.terminals \in TerminalState \cup {None}
    /\ mirror.changesets \in ChangesetState \cup {None}
    /\ mirror.runs \in AutomationRunState \cup {None}
    /\ kept.chat \in ChatState \cup {None}
    /\ kept.annotations \in AnnotationsState \cup {None}
    /\ kept.watch \in ResourceWatchState \cup {None}

SessionLists ==
    mirror.sessions # None =>
        LET s == mirror.sessions IN
        /\ UniqueKeys(s.chats, "resource")
        /\ UniqueKeys(s.activeClients, "clientId")
        /\ UniqueKeys(s.inputNeeded, "id")
        /\ IsInjective(s.workingDirectories)
        /\ UniqueKeys(s.customizations, "id")
        /\ \A k \in DOMAIN s.customizations : UniqueKeys(s.customizations[k].children, "id")
        /\ s.defaultChat # None => FindIndex(s.chats, "resource", s.defaultChat) # 0

ChangesetLists ==
    mirror.changesets # None =>
        /\ UniqueKeys(mirror.changesets.files, "id")
        /\ UniqueKeys(mirror.changesets.operations, "id")

AutomationLists ==
    /\ UniqueKeys(mirror.catalog.entries, "resource")
    /\ {mirror.automations[r] : r \in DOMAIN mirror.automations} = ToSet(mirror.catalog.entries)
    /\ mirror.runs # None =>
          /\ IsInjective(mirror.runs.sessions)
          /\ mirror.runs.primarySession \in ToSet(mirror.runs.sessions) \cup {None}

AnnotationLists ==
    kept.annotations # None =>
        LET list == kept.annotations.annotations IN
        /\ UniqueKeys(list, "id")
        /\ \A k \in DOMAIN list : UniqueKeys(list[k].entries, "id")

ChatLists ==
    kept.chat # None =>
        /\ UniqueKeys(kept.chat.backgroundWork, "id")
        /\ IsInjective(kept.chat.workingDirectories)

\* Where the list and the slot both know a message they agree on it; only a
\* slot of an old snapshot is in no list.
PendingLists ==
    kept.chat # None =>
        LET list == kept.chat.queuedMessages
            slot == kept.chat.steeringMessage
        IN  /\ UniqueKeys(list, "id")
            /\ slot # None =>
                  \/ slot \in ToSet(list)
                  \/ slot.kind = None /\ FindIndex(list, "id", slot.id) = 0

(***************************************************************************)
(* Whatever sequence of upserts, updates, reorderings and removals a         *)
(* resource has seen, no list of the reducers' state has an identity twice   *)
(* and nothing refers to an entry that is gone: the default chat and the     *)
(* primary session are listed, the mirror's index of automations has exactly *)
(* the catalogue's entries, and the steering slot old clients read never     *)
(* shows a message that has been queued, edited, removed or consumed since.  *)
(***************************************************************************)
ListsStayConsistent ==
    /\ TypeOK /\ SessionLists /\ ChangesetLists /\ AutomationLists /\ AnnotationLists
    /\ ChatLists /\ PendingLists

\* Whether a request in the session's queue awaits the user.
Awaiting(s) == \E k \in DOMAIN s.inputNeeded : awaitsUser(s.inputNeeded[k])

(***************************************************************************)
(* A status says what the rest of the state says.  Whatever requests a       *)
(* session has got and lost, and in whichever order (withInputNeededStatus), *)
(* it is shown as waiting for input exactly while one that awaits the user   *)
(* is open; once such a request has been withdrawn it is shown as in         *)
(* progress, and before the first one, client executions or not, its         *)
(* activity is the one it had; read and archived are what was last said of   *)
(* them.  A changeset and its operations carry an error exactly in their     *)
(* error status; an MCP server offers its side channel only while it is      *)
(* ready.  session-channel.md:107 asks for the input-needed bit whenever the *)
(* queue is not empty, and the comment of withInputNeededStatus says that an *)
(* idle session stays idle when it drains: the reducer does neither.         *)
(***************************************************************************)
StatusAgrees ==
    /\ mirror.sessions # None =>
        LET s == mirror.sessions
            server(c) == c.type = "mcpServer" => (c.channel # None => c.state.kind = "ready")
        IN
        /\ s.status \cap ActivityMask =
              IF Awaiting(s) THEN SessionStatus.InputNeeded
              ELSE IF history.waited THEN SessionStatus.InProgress ELSE history.activity
        /\ s.status \ ActivityMask = history.flags
        /\ \A c \in ToSet(s.customizations) :
               server(c) /\ \A child \in ToSet(c.children) : server(child)
    /\ mirror.changesets # None =>
        \A h \in {mirror.changesets} \cup ToSet(mirror.changesets.operations) :
            h.status = "error" <=> h.error # None

\* The chunks of a terminal part, each with the command that wrote it.
Chunked(part) ==
    IF part.type = "command"
    THEN [k \in DOMAIN part.output |-> [by |-> part.commandId, data |-> part.output[k]]]
    ELSE [k \in DOMAIN part.value |-> [by |-> None, data |-> part.value[k]]]

(***************************************************************************)
(* No content is lost, doubled or misplaced.  The terminal shows all output  *)
(* since it was last cleared, in order, and under the command that ran when  *)
(* it was written (unless that was cleared meanwhile); a text part of the    *)
(* active turn shows exactly the deltas sent for it, and an input request    *)
(* the latest answer to each question, also when it is sent again.           *)
(***************************************************************************)
ContentComplete ==
    /\ mirror.terminals # None /\ topic = "shell" =>
        LET content == mirror.terminals.content
        IN  FlattenSeq([k \in DOMAIN content |-> Chunked(content[k])]) = history.output
    /\ kept.chat # None =>
        LET parts == kept.chat.parts
            last(k) == \A j \in DOMAIN parts :
                          j > k /\ parts[j].kind = "inputRequest" => PartId(parts[j]) # PartId(parts[k])
        IN  \A k \in DOMAIN parts :
                /\ parts[k].kind \in {"markdown", "reasoning"} =>
                      parts[k].content = history.text[parts[k].id]
                /\ parts[k].kind = "inputRequest" /\ last(k) =>
                      parts[k].request.answers = history.answers[PartId(parts[k])]

\* The elements of both lists come in the same order in each.
SameOrder(list, other) ==
    LET common == ToSet(list) \cap ToSet(other)
        In(v) == v \in common
    IN  SelectSeq(list, In) = SelectSeq(other, In)

DirectoriesReplaced ==
    mirror.sessions # None =>
        LET dirs == mirror.sessions.workingDirectories
            at(list, v) == SelectInSeq(list, LAMBDA e : e = v)
        IN  \A d, r \in Directories :
            LET new == DirectoryReplaced(dirs, d, r) IN
            /\ IsInjective(new)
            /\ ToSet(new) = IF Contains(dirs, d) THEN (ToSet(dirs) \ {d}) \cup {r} ELSE ToSet(dirs)
            /\ SameOrder(SelectSeq(dirs, LAMBDA e : e # r), new)
            /\ Contains(dirs, d) =>
                  at(new, r) = Min({at(dirs, d)} \cup ({at(dirs, r)} \ {0}))

ChatOrderTaken ==
    mirror.sessions # None =>
        LET chats == mirror.sessions.chats
            resources(list) == [k \in DOMAIN list |-> list[k].resource]
        IN  \A action \in SessionChatsReorderedAction :
            LET new == ChatsReordered(chats, action.chats) IN
            /\ ToSet(new) = ToSet(chats) /\ Len(new) = Len(chats)
            /\ resources(new) \in {resources(chats), action.chats}
            /\ IsInjective(action.chats) /\ ToSet(action.chats) = ToSet(resources(chats)) =>
                  resources(new) = action.chats

\* Message m comes before message n in the order: by first mention, the named
\* ones before the others.
Precedes(order, m, n) ==
    LET at(x) == SelectInSeq(order, LAMBDA id : id = x.id)
    IN  at(m) # 0 /\ (at(n) = 0 \/ at(m) < at(n))

MessageOrderTaken ==
    kept.chat # None /\ kept.chat.queuedMessages # <<>> =>
        LET list == kept.chat.queuedMessages
        IN  \A action \in ChatQueuedMessagesReorderedAction :
            LET order == action.order
                new == MessagesReordered(list, order)
                unnamed(m) == m.id \notin ToSet(order)
            IN  /\ Len(new) = Len(list) /\ ToSet(new) = ToSet(list)
                /\ \A j, k \in DOMAIN new : Precedes(order, new[j], new[k]) => j < k
                /\ SelectSeq(new, unnamed) = SelectSeq(list, unnamed)

(***************************************************************************)
(* Replacing a working directory of any list that can arise takes exactly    *)
(* the old one out and leaves the new one in once, at the earlier of the two *)
(* places, with all others in their order; replacing an unlisted one changes *)
(* nothing.  Reordering the chats keeps the same entries, and has any effect *)
(* only for an order that names each of them once, which it then follows.    *)
(* Reordering the pending messages takes any order, with unknown, repeated   *)
(* and missing ids: it loses and doubles nothing, the named messages come    *)
(* first, by first mention, and the others keep their order.                 *)
(***************************************************************************)
ReplacementIsExact == DirectoriesReplaced /\ ChatOrderTaken /\ MessageOrderTaken

(***************************************************************************)
(* No pending message is lost, doubled or overtaken, however several clients *)
(* submit, edit, withdraw and reorder from lists they no longer share.  The  *)
(* list has exactly the messages that were submitted and neither withdrawn   *)
(* nor consumed by a turn since, each as last edited (a withdrawal under a   *)
(* kind the message no longer has leaves it); and the ones no reordering has *)
(* named since they were submitted come last, in the order of submission.    *)
(***************************************************************************)
PendingMessagesKept ==
    kept.chat # None =>
        LET list == kept.chat.queuedMessages IN
        /\ ToSet(list) = history.messages /\ Len(list) = Cardinality(history.messages)
        /\ IsSuffix(history.inLine, MessageIds(list))

(***************************************************************************)
(* What was approved stays on record.  A confirmed tool call that goes on to *)
(* authentication, to a result or to its review keeps why it was confirmed,  *)
(* the chosen option and the input that was approved; its partial content    *)
(* survives an authentication that is resolved.  Only a new toolCallReady,   *)
(* which starts the call over, or a cancellation drops them.                 *)
(***************************************************************************)
ApprovalStaysOnRecord ==
    [][kept.chat # None /\ kept'.chat # None =>
        \A k \in DOMAIN kept.chat.parts \cap DOMAIN kept'.chat.parts :
            LET old == kept.chat.parts[k]
                new == kept'.chat.parts[k]
                confirmed == {"running", "auth-required", "pending-result-confirmation", "completed"}
            IN  /\ old.kind = "toolCall" => new.kind = "toolCall" /\ new.id = old.id
                /\ /\ old.kind = "toolCall" /\ old.status \in confirmed
                   /\ new.status \in confirmed /\ new.status # old.status
                   => /\ new.confirmed = old.confirmed
                      /\ new.selectedOption = old.selectedOption
                      /\ new.toolInput = old.toolInput
                      /\ new.status \in {"auth-required", "running"} => new.content = old.content
      ]_vars

=============================================================================
