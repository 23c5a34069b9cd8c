---------------------------- MODULE ChatContent ----------------------------
(***************************************************************************)
(* What the chat actions do to the content of the active turn and to the     *)
(* chat's metadata (types/channels-chat): streamed text, the record a tool   *)
(* call keeps through its states, answers to input requests, pending         *)
(* messages, background work, directories and configuration.  How turns end  *)
(* and what the status is are in ChatTurns.                                  *)
(*                                                                           *)
(* Streamed text is the sequence of its chunks.  The list of pending         *)
(* messages is shared by steering and queued input; the slot steeringMessage *)
(* is its deprecated second copy, kept for old clients.                      *)
(***************************************************************************)
EXTENDS ChannelReducers

CONSTANTS
    Turns,          \* turn ids, of the active turn and of one that is over
    PartIds,        \* ids of response parts and tool calls
    AnswerTexts,    \* what a user types into a question
    OptionIds,      \* ids of confirmation options
    PendingIds,     \* ids of pending messages
    MaxOrder        \* bound: length of the order of a reorder action

ASSUME OrderAssumption == MaxOrder \in Nat

-----------------------------------------------------------------------------
(* Response parts.                                                         *)

MarkdownResponsePart  == [kind : {"markdown"}, id : PartIds, content : Seq(Chunks)]
ReasoningResponsePart == [kind : {"reasoning"}, id : PartIds, content : Seq(Chunks)]

ResourceResponsePart == [kind : {"contentRef"}, base : ContentRef]
SystemNotificationResponsePart == [kind : {"systemNotification"}, content : StringOrMarkdown]
ErrorResponsePart == [kind : {"error"}, error : ErrorInfo, resumable : Maybe(BOOLEAN)]

ChatInputTextAnswerValue    == [kind : {"text"}, value : AnswerTexts]
ChatInputNumberAnswerValue  == [kind : {"number"}, value : Number]
ChatInputBooleanAnswerValue == [kind : {"boolean"}, value : BOOLEAN]
ChatInputSelectedAnswerValue ==
    [kind : {"selected"}, value : Texts, freeformValues : Maybe(ListOf(Texts))]
ChatInputSelectedManyAnswerValue ==
    [kind : {"selected-many"}, value : ListOf(Texts), freeformValues : Maybe(ListOf(Texts))]
ChatInputAnswerValue ==
    ChatInputTextAnswerValue \cup ChatInputNumberAnswerValue \cup ChatInputBooleanAnswerValue
        \cup ChatInputSelectedAnswerValue \cup ChatInputSelectedManyAnswerValue
ChatInputAnswered == [state : {"draft", "submitted"}, value : ChatInputAnswerValue]
ChatInputSkipped  == [state : {"skipped"}, freeformValues : Maybe(ListOf(Texts))]
ChatInputAnswer   == ChatInputAnswered \cup ChatInputSkipped
Answers           == UNION {[qs -> ChatInputAnswer] : qs \in SUBSET Keys}
ChatInputResponseKind == {"accept", "decline", "cancel"}
ChatInputRequest ==
    [id : PartIds, message : Maybe(Texts), url : Maybe(URI),
     questions : Maybe(ListOf(ChatInputQuestion)), answers : Maybe(Answers)]

\* No answers are the empty function; an open request has no response.
InputRequestResponsePart ==
    [kind : {"inputRequest"}, request : ChatInputRequest, response : Maybe(ChatInputResponseKind)]

ToolInput == Values \cup ContentRef
ToolCallConfirmationReason == {"not-needed", "user-action", "setting"}
ToolCallCancellationReason == {"denied", "skipped", "result-denied"}
ToolCallClientContributor == [kind : {"client"}, clientId : Clients]
ToolCallMcpContributor    == [kind : {"mcp"}, customizationId : Texts]
ToolCallContributor       == ToolCallClientContributor \cup ToolCallMcpContributor
ConfirmationOptionKind    == {"approve", "deny"}
ConfirmationOption ==
    [id : OptionIds, label : Texts, kind : ConfirmationOptionKind, group : Maybe(Number)]

\* A call while its parameters stream in, and with complete parameters.
ToolCallStreamingState ==
    [kind : {"toolCall"}, id : PartIds, status : {"streaming"},
     contributor : ToolCallContributor \cup {None}, partialInput : Seq(Chunks)]
ToolCallPendingConfirmationState ==
    [kind : {"toolCall"}, id : PartIds, status : {"pending-confirmation"},
     contributor : ToolCallContributor \cup {None},
     toolInput : Maybe(ToolInput), riskAssessment : Maybe(ToolCallRiskAssessment),
     edits : Maybe(FileEditCollection), editable : Maybe(BOOLEAN), options : Seq(ConfirmationOption)]

\* A confirmed call: its reason and the option that was chosen.
ToolCallPostConfirmationFields(status) ==
    [kind : {"toolCall"}, id : PartIds, status : {status},
     contributor : ToolCallContributor \cup {None}, toolInput : ToolInput \cup {None},
     confirmed : ToolCallConfirmationReason, selectedOption : Maybe(ConfirmationOption),
     content : Maybe(Seq(ToolResultContent))]
ToolCallRunningState      == ToolCallPostConfirmationFields("running")
ToolCallAuthRequiredState == ToolCallPostConfirmationFields("auth-required")

\* A confirmed call with its result.
ToolCallResult(status) ==
    [kind : {"toolCall"}, id : PartIds, status : {status},
     contributor : ToolCallContributor \cup {None}, toolInput : ToolInput \cup {None},
     confirmed : ToolCallConfirmationReason, selectedOption : Maybe(ConfirmationOption),
     content : Maybe(Seq(ToolResultContent)), success : BOOLEAN]
ToolCallPendingResultConfirmationState == ToolCallResult("pending-result-confirmation")
ToolCallCompletedState                 == ToolCallResult("completed")
ToolCallCancelledState ==
    [kind : {"toolCall"}, id : PartIds, status : {"cancelled"},
     contributor : ToolCallContributor \cup {None}, toolInput : ToolInput \cup {None},
     reason : ToolCallCancellationReason, selectedOption : Maybe(ConfirmationOption)]
ToolCallState ==
    ToolCallStreamingState \cup ToolCallPendingConfirmationState \cup ToolCallRunningState
        \cup ToolCallAuthRequiredState \cup ToolCallPendingResultConfirmationState
        \cup ToolCallCompletedState \cup ToolCallCancelledState

ResponsePart ==
    MarkdownResponsePart \cup ReasoningResponsePart \cup InputRequestResponsePart \cup ToolCallState
        \cup ResourceResponsePart \cup SystemNotificationResponsePart \cup ErrorResponsePart

\* What the parts are known by; some have no id.
PartId(part) ==
    IF part.kind = "inputRequest" THEN part.request.id
    ELSE IF part.kind \in {"markdown", "reasoning", "toolCall"} THEN part.id ELSE None

-----------------------------------------------------------------------------
(* Actions on the parts of the active turn.                                *)

\* What hosts and users send in them.
Given == {Sample(ChatInputSkipped)}
             \cup [state : {"draft", "submitted"}, value : ChatInputTextAnswerValue]
Inputs       == Maybe(Values \cup {Sample(ContentRef)})
Results      == {<<Sample(ToolResultTextContent)>>, <<Sample(ToolResultFileEditContent)>>}
Contributors == Maybe(ToolCallClientContributor \cup {Sample(ToolCallMcpContributor)})
Options ==
    SetToSeq([id : OptionIds, label : {Sample(Texts)}, kind : {"approve"}, group : {None}])

ChatResponsePartAction ==
    [type : {"chat/responsePart"}, turnId : Turns,
     part : [kind : {"markdown", "reasoning"}, id : PartIds, content : {<<>>}]
            \cup {Sample(ResourceResponsePart), Sample(SystemNotificationResponsePart)}]
ChatDeltaAction     == [type : {"chat/delta"}, turnId : Turns, partId : PartIds, content : Chunks]
ChatReasoningAction == [type : {"chat/reasoning"}, turnId : Turns, partId : PartIds, content : Chunks]

ChatInputRequestedAction ==
    [type : {"chat/inputRequested"},
     request : [id : PartIds, message : {None}, url : {None}, answers : {None},
                questions : {<<Sample(ChatInputTextQuestion)>>}]]
ChatInputAnswerChangedAction ==
    [type : {"chat/inputAnswerChanged"}, requestId : PartIds, questionId : Keys,
     answer : Maybe(Given)]
ChatInputCompletedAction ==
    [type : {"chat/inputCompleted"}, requestId : PartIds,
     response : ChatInputResponseKind, answers : UNION {[qs -> Given] : qs \in SUBSET Keys}]

ChatToolCallStartAction ==
    [type : {"chat/toolCallStart"}, turnId : Turns, toolCallId : PartIds, contributor : Contributors]
ChatToolCallDeltaAction == [type : {"chat/toolCallDelta"}, turnId : Turns, toolCallId : PartIds, content : Chunks]
ChatToolCallReadyAction ==
    [type : {"chat/toolCallReady"}, turnId : Turns, toolCallId : PartIds,
     contributor : Contributors, toolInput : Inputs,
     riskAssessment : Maybe({Sample(ToolCallRiskAssessmentLoadingState)}), edits : {None}, editable : {None},
     confirmed : Maybe(ToolCallConfirmationReason), options : {None, Options}]
ChatToolCallApprovedAction ==
    [type : {"chat/toolCallConfirmed"}, turnId : Turns, toolCallId : PartIds, approved : {TRUE},
     confirmed : {"user-action"}, editedToolInput : Values \cup {None},
     selectedOptionId : OptionIds \cup {"other", None}]
ChatToolCallDeniedAction ==
    [type : {"chat/toolCallConfirmed"}, turnId : Turns, toolCallId : PartIds, approved : {FALSE},
     reason : {"denied", "skipped"}, selectedOptionId : OptionIds \cup {"other", None}]
ChatToolCallConfirmedAction == ChatToolCallApprovedAction \cup ChatToolCallDeniedAction
ChatToolCallCompleteAction ==
    [type : {"chat/toolCallComplete"}, turnId : Turns, toolCallId : PartIds, success : BOOLEAN,
     content : Maybe(Results), requiresResultConfirmation : BOOLEAN]
ChatToolCallResultConfirmedAction ==
    [type : {"chat/toolCallResultConfirmed"}, turnId : Turns, toolCallId : PartIds, approved : BOOLEAN]
ChatToolCallContentChangedAction ==
    [type : {"chat/toolCallContentChanged"}, turnId : Turns, toolCallId : PartIds, content : Results]
ChatToolCallAuthRequiredAction == [type : {"chat/toolCallAuthRequired"}, turnId : Turns, toolCallId : PartIds]
ChatToolCallAuthResolvedAction == [type : {"chat/toolCallAuthResolved"}, turnId : Turns, toolCallId : PartIds]

-----------------------------------------------------------------------------
(* Streamed text.                                                          *)

\* updateResponsePart(): the first part with this id, when it is of the kind
\* the chunk is for.
updateResponsePart(parts, id, kind, chunk) ==
    LET k == SelectInSeq(parts, LAMBDA p : p.kind # "inputRequest" /\ PartId(p) = id)
    IN  IF k # 0 /\ parts[k].kind = kind
        THEN [parts EXCEPT ![k].content = Append(@, chunk)] ELSE parts

TextReduced(parts, action) ==
    CASE action.type = "chat/responsePart" -> Append(parts, action.part)
      [] action.type = "chat/delta" ->
            updateResponsePart(parts, action.partId, "markdown", action.content)
      [] action.type = "chat/reasoning" ->
            updateResponsePart(parts, action.partId, "reasoning", action.content)

-----------------------------------------------------------------------------
(* Input requests.                                                         *)

\* findOpenInputRequestPart(), 0 when there is none.
findOpenInputRequestPart(parts, id) ==
    SelectInSeq(parts, LAMBDA p : p.kind = "inputRequest" /\ p.response = None /\ p.request.id = id)

NoAnswers == [q \in {} |-> None]

\* A request that is sent again keeps the answers it does not bring itself.
upsertInputRequestPart(parts, action) ==
    LET k == findOpenInputRequestPart(parts, action.request.id)
        part == [kind |-> "inputRequest", response |-> None,
                 request |-> [action.request EXCEPT !.answers =
                    IF @ # None THEN @
                    ELSE IF k # 0 THEN parts[k].request.answers ELSE NoAnswers]]
    IN  IF k = 0 THEN Append(parts, part) ELSE [parts EXCEPT ![k] = part]

InputReduced(parts, action) ==
    IF action.type = "chat/inputRequested" THEN upsertInputRequestPart(parts, action)
    ELSE LET k == findOpenInputRequestPart(parts, action.requestId)
         IN  IF k = 0 THEN parts
             ELSE IF action.type = "chat/inputCompleted"
             THEN [parts EXCEPT ![k].request.answers = action.answers @@ @, ![k].response = action.response]
             ELSE IF action.answer = None
             THEN [parts EXCEPT ![k].request.answers = Restrict(@, DOMAIN @ \ {action.questionId})]
             ELSE [parts EXCEPT ![k].request.answers = (action.questionId :> action.answer) @@ @]

-----------------------------------------------------------------------------
(* The record of a tool call.                                              *)

refineToolCallContributor(current, next) ==
    LET ofClient(c) == c # None /\ c.kind = "client"
    IN  IF next = None \/ ofClient(current) \/ ofClient(next) THEN current ELSE next

resolveSelectedOption(options, id) ==
    LET k == FindIndex(options, "id", id) IN IF k = 0 THEN None ELSE options[k]

Confirmed(tc, status, contributor, toolInput, confirmed, option, content) ==
    [kind |-> "toolCall", id |-> tc.id, status |-> status, contributor |-> contributor,
     toolInput |-> toolInput, confirmed |-> confirmed, selectedOption |-> option, content |-> content]

Cancelled(tc, reason, option) ==
    [kind |-> "toolCall", id |-> tc.id, status |-> "cancelled", contributor |-> tc.contributor,
     toolInput |-> tc.toolInput, reason |-> reason, selectedOption |-> option]

\* chat/toolCallReady, also to a call that waits or runs already.
ReadyCall(tc, action) ==
    LET contributor == refineToolCallContributor(tc.contributor, action.contributor)
        toolInput == IF action.toolInput # None \/ tc.status = "streaming"
                     THEN action.toolInput ELSE tc.toolInput
        Kept(field, absent) ==
            IF action[field] # None THEN action[field]
            ELSE IF tc.status = "pending-confirmation" THEN tc[field] ELSE absent
    IN  IF tc.status \notin {"streaming", "running", "pending-confirmation"} THEN tc
        ELSE IF action.confirmed # None
        THEN Confirmed(tc, "running", contributor, toolInput, action.confirmed, None, None)
        ELSE [kind |-> "toolCall", id |-> tc.id, status |-> "pending-confirmation",
              contributor |-> contributor, toolInput |-> toolInput,
              riskAssessment |-> Kept("riskAssessment", None), edits |-> Kept("edits", None),
              editable |-> Kept("editable", None), options |-> Kept("options", <<>>)]

\* chat/toolCallConfirmed: an edit replaces an input that is a string.
ConfirmedCall(tc, action) ==
    IF tc.status # "pending-confirmation" THEN tc
    ELSE LET option == resolveSelectedOption(tc.options, action.selectedOptionId)
         IN  IF ~action.approved THEN Cancelled(tc, action.reason, option)
             ELSE Confirmed(tc, "running", tc.contributor,
                            IF action.editedToolInput # None /\ tc.toolInput \in Values
                            THEN action.editedToolInput ELSE tc.toolInput,
                            action.confirmed, option, None)

\* Faulty: a call that ends after an authentication loses its approval.
FaultyCompletedCall(tc, action) ==
    IF \/ tc.status \notin {"running", "pending-confirmation", "auth-required"}
       \/ tc.status = "auth-required" /\ action.success
    THEN tc
    ELSE Confirmed(tc, "completed", tc.contributor, tc.toolInput,
                   IF tc.status = "running" THEN tc.confirmed ELSE "not-needed",
                   IF tc.status = "running" THEN tc.selectedOption ELSE None, action.content)
         @@ [success |-> action.success]

\* chat/toolCallComplete: from auth-required only a failure, which is not
\* reviewed and keeps the content that was there.
CompletedCall(tc, action) ==
    LET asked == tc.status \in {"running", "auth-required"} IN
    IF \/ tc.status \notin {"running", "pending-confirmation", "auth-required"}
       \/ tc.status = "auth-required" /\ action.success
    THEN tc
    ELSE Confirmed(tc, IF action.requiresResultConfirmation /\ tc.status # "auth-required"
                       THEN "pending-result-confirmation" ELSE "completed",
                   tc.contributor, tc.toolInput,
                   IF asked THEN tc.confirmed ELSE "not-needed",
                   IF asked THEN tc.selectedOption ELSE None,
                   IF action.content = None /\ tc.status = "auth-required"
                   THEN tc.content ELSE action.content)
         @@ [success |-> action.success]

ResultConfirmedCall(tc, action) ==
    IF tc.status # "pending-result-confirmation" THEN tc
    ELSE IF action.approved THEN [tc EXCEPT !.status = "completed"]
    ELSE Cancelled(tc, "result-denied", tc.selectedOption)

ToolCallReduced(tc, action) ==
    CASE action.type = "chat/toolCallDelta" ->
            IF tc.status = "streaming" THEN [tc EXCEPT !.partialInput = Append(@, action.content)] ELSE tc
      [] action.type = "chat/toolCallReady" -> ReadyCall(tc, action)
      [] action.type = "chat/toolCallConfirmed" -> ConfirmedCall(tc, action)
      [] action.type = "chat/toolCallComplete" -> CompletedCall(tc, action)
      [] action.type = "chat/toolCallResultConfirmed" -> ResultConfirmedCall(tc, action)
      [] action.type = "chat/toolCallContentChanged" ->
            IF tc.status = "running" THEN [tc EXCEPT !.content = action.content] ELSE tc
      [] action.type = "chat/toolCallAuthRequired" ->
            IF tc.status = "running" /\ tc.contributor # None /\ tc.contributor.kind = "mcp"
            THEN [tc EXCEPT !.status = "auth-required"] ELSE tc
      [] action.type = "chat/toolCallAuthResolved" ->
            IF tc.status = "auth-required" THEN [tc EXCEPT !.status = "running"] ELSE tc

\* updateToolCallInParts(), and the start of a call.
ToolPartsReduced(parts, action) ==
    IF action.type = "chat/toolCallStart"
    THEN Append(parts, [kind |-> "toolCall", id |-> action.toolCallId, status |-> "streaming",
                        contributor |-> action.contributor, partialInput |-> <<>>])
    ELSE [k \in DOMAIN parts |->
            IF parts[k].kind = "toolCall" /\ parts[k].id = action.toolCallId
            THEN ToolCallReduced(parts[k], action) ELSE parts[k]]

-----------------------------------------------------------------------------
(* Pending messages.                                                       *)

PendingMessageKind == {"steering", "queued"}
\* Hosts of earlier versions wrote entries without a kind.
PendingMessage == [id : PendingIds, kind : Maybe(PendingMessageKind), message : Message]
Submitted == {[Sample(Message) EXCEPT !.origin.kind = k] : k \in {"user", "agent"}}

ChatTurnStartedAction ==
    [type : {"chat/turnStarted"}, turnId : Turns, startedAt : {Sample(Texts)},
     message : {Sample(Message)}, queuedMessageId : Maybe(PendingIds)]
ChatPendingMessageSetAction ==
    [type : {"chat/pendingMessageSet"}, kind : PendingMessageKind, id : PendingIds, message : Submitted]
ChatPendingMessageRemovedAction ==
    [type : {"chat/pendingMessageRemoved"}, kind : PendingMessageKind, id : PendingIds]
ChatQueuedMessagesReorderedAction ==
    [type : {"chat/queuedMessagesReordered"}, order : UNION {[1..n -> PendingIds] : n \in 0..MaxOrder}]

EffectiveKind(entry) == IF entry.kind = None THEN "queued" ELSE entry.kind
SlotIs(slot, id)     == slot # None /\ slot.id = id

\* Faulty: a message that is queued from now on stays in the slot.
FaultyMessageSet(state, entry) ==
    [state EXCEPT !.queuedMessages = SetEntry(@, "id", entry),
                  !.steeringMessage = IF entry.kind = "steering" THEN entry ELSE @]

MessageSet(state, entry) ==
    [state EXCEPT !.queuedMessages = SetEntry(@, "id", entry),
                  !.steeringMessage = IF entry.kind = "steering" THEN entry
                                      ELSE IF SlotIs(@, entry.id) THEN None ELSE @]

\* The first entry of this id and kind; the slot goes only with a steering removal.
MessageRemoved(state, id, kind) ==
    LET k == SelectInSeq(state.queuedMessages, LAMBDA m : m.id = id /\ EffectiveKind(m) = kind)
    IN  [state EXCEPT !.queuedMessages = IF k = 0 THEN @ ELSE RemoveAt(@, k),
                      !.steeringMessage = IF kind = "steering" /\ SlotIs(@, id) THEN None ELSE @]

\* A turn that starts from a pending message takes it from the list and the slot.
MessageConsumed(state, id) ==
    IF id = None THEN state
    ELSE [state EXCEPT !.queuedMessages = SelectSeq(@, LAMBDA m : m.id # id),
                       !.steeringMessage = IF SlotIs(@, id) THEN None ELSE @]

\* The entries the order names, unknown ids and repetitions left out.
Mentioned(list, order) ==
    LET first(k) == FindIndex(list, "id", order[k]) # 0 /\ \A j \in 1..(k - 1) : order[j] # order[k]
        named == SelectSeq([k \in DOMAIN order |-> k], first)
    IN  [k \in DOMAIN named |-> list[FindIndex(list, "id", order[named[k]])]]

\* Faulty: a client with an old list drops what it does not know of.
FaultyMessagesReordered(list, order) == Mentioned(list, order)

\* What the order names, then the rest as it was.
MessagesReordered(list, order) ==
    Mentioned(list, order) \o SelectSeq(list, LAMBDA m : m.id \notin ToSet(order))

TurnStarted(state, action) ==
    MessageConsumed([state EXCEPT !.turn = action.turnId, !.parts = <<>>, !.usage = None],
                    action.queuedMessageId)

PendingReduced(state, action) ==
    CASE action.type = "chat/turnStarted" -> TurnStarted(state, action)
      [] action.type = "chat/pendingMessageSet" ->
            MessageSet(state, [id |-> action.id, kind |-> action.kind, message |-> action.message])
      [] action.type = "chat/pendingMessageRemoved" -> MessageRemoved(state, action.id, action.kind)
      [] action.type = "chat/queuedMessagesReordered" ->
            [state EXCEPT !.queuedMessages = MessagesReordered(@, action.order)]

-----------------------------------------------------------------------------
(* Metadata.                                                               *)

BackgroundShellWork    == [kind : {"shell"}, id : PartIds]
BackgroundSubagentWork == [kind : {"subagent"}, id : PartIds, chat : Chats]
BackgroundWork         == BackgroundShellWork \cup BackgroundSubagentWork
ChatConfigState        == [schema : Maybe(SessionConfigSchema), values : ConfigValues]

ChatState ==
    [turn : Turns \cup {None}, parts : Seq(ResponsePart), usage : Maybe(UsageInfo), activity : Maybe(Values),
     movable : BOOLEAN, changesets : Maybe(Seq(Changeset)), canvases : Maybe(Seq(CanvasReference)),
     queuedMessages : Seq(PendingMessage), steeringMessage : Maybe(PendingMessage),
     draft : Maybe(Message), provider : Providers \cup {None},
     backgroundWork : Seq(BackgroundWork), workingDirectories : Seq(Directories),
     config : ChatConfigState \cup {None}]

ChatUsageAction           == [type : {"chat/usage"}, turnId : Turns, usage : {Sample(UsageInfo)}]
ChatActivityChangedAction == [type : {"chat/activityChanged"}, activity : Values \cup {None}]
ChatMovableChangedAction  == [type : {"chat/movableChanged"}, movable : BOOLEAN]
ChatChangesetsChangedAction == 
    [type : {"chat/changesetsChanged"}, changesets : Maybe(SampleLists(Changeset))]
ChatCanvasesChangedAction == [type : {"chat/canvasesChanged"}, canvases : Maybe({<<Sample(CanvasReference)>>})]
ChatDraftChangedAction    == [type : {"chat/draftChanged"}, draft : Maybe({Sample(Message)})]
ChatBackgroundWorkSetAction     == [type : {"chat/backgroundWorkSet"}, work : BackgroundWork]
ChatBackgroundWorkRemovedAction == [type : {"chat/backgroundWorkRemoved"}, id : PartIds]
ChatWorkingDirectorySetAction   == [type : {"chat/workingDirectorySet"}, directory : Directories]
ChatWorkingDirectoryRemovedAction ==
    [type : {"chat/workingDirectoryRemoved"}, directory : Directories]
ChatConfigChangedAction == [type : {"chat/configChanged"}, config : ConfigValues, replace : BOOLEAN]
ChatMovedAction ==
    [type : {"chat/moved"}, provider : Maybe(Providers), schema : Maybe({Sample(SessionConfigSchema)})]

\* chat/configChanged: a chat without a configuration gets one.
ConfigChanged(config, action) ==
    IF config = None THEN [schema |-> None, values |-> action.config]
    ELSE [config EXCEPT !.values = MergeValues(@, action.config, action.replace)]

\* chat/moved: the configuration keeps its values under the new schema.
ConfigMoved(config, schema) ==
    IF config # None THEN [config EXCEPT !.schema = schema]
    ELSE IF schema # None THEN [schema |-> schema, values |-> [k \in {} |-> None]]
    ELSE None

ChatMetadataReduced(state, action) ==
    CASE action.type = "chat/usage" -> [state EXCEPT !.usage = action.usage]
      [] action.type = "chat/activityChanged" -> [state EXCEPT !.activity = action.activity]
      [] action.type = "chat/movableChanged" -> [state EXCEPT !.movable = action.movable]
      [] action.type = "chat/changesetsChanged" -> [state EXCEPT !.changesets = action.changesets]
      [] action.type = "chat/canvasesChanged" -> [state EXCEPT !.canvases = action.canvases]
      [] action.type = "chat/draftChanged" -> [state EXCEPT !.draft = action.draft]
      [] action.type = "chat/backgroundWorkSet" ->
            [state EXCEPT !.backgroundWork = SetEntry(@, "id", action.work)]
      [] action.type = "chat/backgroundWorkRemoved" ->
            [state EXCEPT !.backgroundWork = RemoveEntry(@, "id", action.id)]
      [] action.type = "chat/workingDirectorySet" ->
            [state EXCEPT !.workingDirectories = Include(@, action.directory)]
      [] action.type = "chat/workingDirectoryRemoved" ->
            [state EXCEPT !.workingDirectories = Exclude(@, action.directory)]
      [] action.type = "chat/configChanged" -> [state EXCEPT !.config = ConfigChanged(@, action)]
      [] action.type = "chat/moved" ->
            [state EXCEPT !.provider = action.provider, !.config = ConfigMoved(@, action.schema)]

\* The actions by what they change.
TextActions  == ChatResponsePartAction \cup ChatDeltaAction \cup ChatReasoningAction
AnswerActions ==
    ChatInputRequestedAction \cup ChatInputAnswerChangedAction \cup ChatInputCompletedAction
ToolCallActions ==
    ChatToolCallStartAction \cup ChatToolCallDeltaAction \cup ChatToolCallReadyAction
        \cup ChatToolCallApprovedAction \cup ChatToolCallDeniedAction \cup ChatToolCallCompleteAction
        \cup ChatToolCallResultConfirmedAction \cup ChatToolCallContentChangedAction
        \cup ChatToolCallAuthRequiredAction \cup ChatToolCallAuthResolvedAction
ChatMetadataActions ==
    ChatUsageAction \cup ChatActivityChangedAction \cup ChatMovableChangedAction
        \cup ChatChangesetsChangedAction \cup ChatCanvasesChangedAction \cup ChatDraftChangedAction
        \cup ChatConfigChangedAction \cup ChatMovedAction
PendingActions ==
    ChatTurnStartedAction \cup ChatPendingMessageSetAction \cup ChatPendingMessageRemovedAction
        \cup ChatQueuedMessagesReorderedAction
ChatListActions ==
    ChatBackgroundWorkSetAction \cup ChatBackgroundWorkRemovedAction
        \cup ChatWorkingDirectorySetAction \cup ChatWorkingDirectoryRemovedAction

TypesOf(actions) == {action.type : action \in actions}
TextTypes     == TypesOf(TextActions)
AnswerTypes   == TypesOf(AnswerActions)
ToolCallTypes == TypesOf(ToolCallActions)
PendingTypes  == TypesOf(PendingActions)

\* An action on the active turn is dropped when that turn is not active.
Reaches(state, action) ==
    /\ action.type \in AnswerTypes => state.turn # None
    /\ "turnId" \in DOMAIN action /\ action.type # "chat/turnStarted" => action.turnId = state.turn

\* chatReducer, on the content and the metadata.
chatReducer(state, action) ==
    IF ~Reaches(state, action) THEN state
    ELSE CASE action.type \in TextTypes     -> [state EXCEPT !.parts = TextReduced(@, action)]
           [] action.type \in AnswerTypes   -> [state EXCEPT !.parts = InputReduced(@, action)]
           [] action.type \in ToolCallTypes -> [state EXCEPT !.parts = ToolPartsReduced(@, action)]
           [] action.type \in PendingTypes  -> PendingReduced(state, action)
           [] OTHER                           -> ChatMetadataReduced(state, action)

=============================================================================
