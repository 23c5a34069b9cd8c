--------------------------- MODULE ProtocolTypes ---------------------------
(***************************************************************************)
(* The payload types of the protocol (types/common/state.ts and the state    *)
(* files of the channels): each type is the set of its values, under its own *)
(* name.                                                                     *)
(*                                                                           *)
(* Strings, URIs and timestamps of a payload are members of Texts, an absent *)
(* optional field is None, a list has at most one entry, a map no key or all *)
(* of Fields, an enum is the set of its values, a type that extends another  *)
(* has the other's value as its `base`, and vendor metadata (_meta) is left  *)
(* out: the code only carries these values and looks into none of them.      *)
(***************************************************************************)
EXTENDS KeyedLists

CONSTANTS
    Texts, Fields,      \* opaque strings, and the keys of opaque records
    Providers,          \* agent providers
    Clients,            \* clientId values
    Chats,              \* chat URIs
    Directories,        \* working directory URIs
    None                \* an absent optional field

\* Record<string, never>.
EmptyState == {[k \in {} |-> None]}

Maybe(S)  == S \cup {None}
ListOf(S) == {<<>>} \cup [{1} -> S]
MapOf(S)  == EmptyState \cup [Fields -> S]
Number    == {0}
URI       == Texts
AnyRecord == MapOf(Texts)

\* A value of a type whose content no one looks at.
Sample(S)      == CHOOSE x \in S : TRUE
SampleLists(S) == {<<>>, <<Sample(S)>>}

-----------------------------------------------------------------------------
(* Common.                                                                 *)

StringOrMarkdown == Texts \cup [markdown : Texts]
JsonPrimitive    == Texts \cup {None}

Icon ==
    [src : URI, contentType : Maybe(Texts), sizes : Maybe(ListOf(Texts)),
     theme : Maybe({"light", "dark"})]

ProtectedResourceMetadata ==
    [resource : Texts, resource_name : Maybe(Texts), authorization_servers : Maybe(ListOf(Texts)),
     jwks_uri : Maybe(Texts), scopes_supported : Maybe(ListOf(Texts)),
     bearer_methods_supported : Maybe(ListOf(Texts)),
     resource_signing_alg_values_supported : Maybe(ListOf(Texts)),
     resource_documentation : Maybe(Texts), resource_policy_uri : Maybe(Texts),
     resource_tos_uri : Maybe(Texts), required : Maybe(BOOLEAN)]

\* The schemas nested in a schema are opaque.
ConfigPropertySchema ==
    [type : {"string", "number", "boolean", "array", "object"}, title : Texts,
     description : Maybe(Texts), default : Maybe(Texts), enum : Maybe(ListOf(JsonPrimitive)),
     enumLabels : Maybe(ListOf(Texts)), enumDescriptions : Maybe(ListOf(Texts)),
     readOnly : Maybe(BOOLEAN), items : Maybe(Texts), minItems : Maybe(Number),
     maxItems : Maybe(Number), properties : Maybe(AnyRecord), required : Maybe(ListOf(Texts)),
     additionalProperties : Maybe(Texts)]
ConfigSchema ==
    [type : {"object"}, properties : MapOf(ConfigPropertySchema),
     required : Maybe(ListOf(Texts))]

TextPosition  == [line : Number, character : Number]
TextRange     == [start : TextPosition, end : TextPosition]
TextSelection == [range : TextRange]
ContentRef ==
    [uri : URI, sizeHint : Maybe(Number), contentType : Maybe(Texts), nonce : Maybe(Texts)]

FileEditSide      == [uri : URI, content : ContentRef]
FileEditDiffStats == [added : Maybe(Number), removed : Maybe(Number)]
FileEdit ==
    [before : Maybe(FileEditSide), after : Maybe(FileEditSide), diff : Maybe(FileEditDiffStats)]
FileEditCollection == [items : ListOf(FileEdit)]

UsageInfo ==
    [inputTokens : Maybe(Number), outputTokens : Maybe(Number), model : Maybe(Texts),
     cacheReadTokens : Maybe(Number)]
ErrorInfo == [errorType : Texts, message : Texts, stack : Maybe(Texts)]

\* Windowed delivery.
ChannelReceiveLimits == [windowBytes : Number, maximumFrameBytes : Number]
ChannelFlowControl   == [clientReceive : ChannelReceiveLimits, hostReceive : ChannelReceiveLimits]
ChannelRecoveryKind  == {"snapshot", "replay", "live"}
ResumedChannelSubscription ==
    [channel : URI, flowControl : ChannelFlowControl, recovery : ChannelRecoveryKind]

-----------------------------------------------------------------------------
(* Models, agents, tools and changesets.                                   *)

PolicyState == {"enabled", "disabled", "unconfigured"}
SessionModelInfo ==
    [id : Texts, provider : Providers, name : Texts, maxContextWindow : Maybe(Number),
     maxOutputTokens : Maybe(Number), maxPromptTokens : Maybe(Number),
     supportsVision : Maybe(BOOLEAN), policyState : Maybe(PolicyState),
     configSchema : Maybe(ConfigSchema), vendor : Maybe(Texts)]
ModelSelection == [id : Texts, config : Maybe(MapOf(JsonPrimitive))]
AgentSelection == [uri : URI]

ToolAnnotations ==
    [title : Maybe(Texts), readOnlyHint : Maybe(BOOLEAN), destructiveHint : Maybe(BOOLEAN),
     idempotentHint : Maybe(BOOLEAN), openWorldHint : Maybe(BOOLEAN)]
ToolDefinition ==
    LET schema == [type : {"object"}, properties : Maybe(AnyRecord), required : Maybe(ListOf(Texts))]
    IN  [name : Texts, title : Maybe(Texts), description : Maybe(Texts),
         inputSchema : Maybe(schema), outputSchema : Maybe(schema), annotations : Maybe(ToolAnnotations)]

ChangesSummary == [additions : Maybe(Number), deletions : Maybe(Number), files : Maybe(Number)]
ChangesetCapabilities == [review : Maybe(EmptyState)]
Changeset ==
    [label : Texts, uriTemplate : Texts, description : Maybe(Texts), changeKind : Texts,
     capabilities : Maybe(ChangesetCapabilities)]
CanvasReference == [resource : URI]
AnnotationsSummary == [resource : URI, annotationCount : Number, entryCount : Number]

-----------------------------------------------------------------------------
(* Messages of a chat.                                                     *)

MessageKind   == {"user", "agent", "tool", "automation", "systemNotification"}
MessageOrigin == [kind : MessageKind]

MessageAttachmentBase == [label : Texts, range : Maybe(TextRange), displayKind : Maybe(Texts)]
SimpleMessageAttachment ==
    [base : MessageAttachmentBase, type : {"simple"}, modelRepresentation : Maybe(Texts)]
MessageEmbeddedResourceAttachment ==
    [base : MessageAttachmentBase, type : {"embeddedResource"}, data : Texts, contentType : Texts,
     selection : Maybe(TextSelection)]
MessageResourceAttachment ==
    [base : MessageAttachmentBase, type : {"resource"}, content : ContentRef,
     selection : Maybe(TextSelection)]
MessageAnnotationsAttachment ==
    [base : MessageAttachmentBase, type : {"annotations"}, resource : URI,
     annotationIds : Maybe(ListOf(Texts))]
MessageChatAttachment ==
    [base : MessageAttachmentBase, type : {"chat"}, resource : Chats, endTurn : Maybe(Texts)]
MessageAttachment ==
    SimpleMessageAttachment \cup MessageEmbeddedResourceAttachment \cup MessageResourceAttachment
        \cup MessageAnnotationsAttachment \cup MessageChatAttachment

Message ==
    [text : Texts, origin : MessageOrigin, attachments : Maybe(ListOf(MessageAttachment)),
     model : Maybe(ModelSelection), agent : Maybe(AgentSelection)]

-----------------------------------------------------------------------------
(* Summaries.                                                              *)

SideChatSelection == [text : Texts, responsePartId : Maybe(Texts)]
ChatOrigin ==
    [kind : {"user"}] \cup [kind : {"fork"}, chat : Chats, turnId : Texts]
        \cup [kind : {"sideChat"}, chat : Chats, turnId : Texts, selection : Maybe(SideChatSelection)]
        \cup [kind : {"tool"}, chat : Chats, toolCallId : Texts]
ChatInteractivity == {"full", "read-only", "hidden"}

SessionOriginKind       == {"automation"}
AutomationSessionOrigin == [kind : SessionOriginKind, automation : URI, run : URI]
SessionOrigin           == AutomationSessionOrigin
ProjectInfo             == [uri : URI, displayName : Texts]

SessionConfigPropertySchema ==
    [base : ConfigPropertySchema, enumDynamic : Maybe(BOOLEAN), sessionMutable : Maybe(BOOLEAN),
     chatMutable : Maybe(BOOLEAN)]
SessionConfigSchema ==
    [type : {"object"}, properties : MapOf(SessionConfigPropertySchema),
     required : Maybe(ListOf(Texts))]

-----------------------------------------------------------------------------
(* What tools and users say.                                               *)

TerminalCommandResult ==
    [exitCode : Maybe(Number), preview : Maybe(Texts), truncated : Maybe(BOOLEAN)]
ToolResultTextContent             == [type : {"text"}, text : Texts]
ToolResultEmbeddedResourceContent == [type : {"embeddedResource"}, data : Texts, contentType : Texts]
ToolResultResourceContent         == [base : ContentRef, type : {"resource"}]
ToolResultFileEditContent         == [base : FileEdit, type : {"fileEdit"}]
ToolResultTerminalContent ==
    [type : {"terminal"}, resource : URI, title : Texts, isPty : Maybe(BOOLEAN),
     result : Maybe(TerminalCommandResult)]
ToolResultSubagentContent ==
    [type : {"subagent"}, resource : Chats, title : Texts, agentName : Maybe(Texts),
     description : Maybe(Texts)]
ToolResultContent ==
    ToolResultTextContent \cup ToolResultEmbeddedResourceContent \cup ToolResultResourceContent
        \cup ToolResultFileEditContent \cup ToolResultTerminalContent \cup ToolResultSubagentContent

ToolCallRiskAssessmentKind == {"judge"}
ToolCallRiskAssessmentLoadingState == [kind : ToolCallRiskAssessmentKind, status : {"loading"}]
ToolCallRiskAssessmentCompleteState ==
    [kind : ToolCallRiskAssessmentKind, status : {"complete"}, reason : StringOrMarkdown, safety : Number]
ToolCallRiskAssessment == ToolCallRiskAssessmentLoadingState \cup ToolCallRiskAssessmentCompleteState

ChatInputOption ==
    [id : Texts, label : Texts, description : Maybe(Texts), recommended : Maybe(BOOLEAN)]
ChatInputQuestionBase == [id : Texts, title : Maybe(Texts), message : Texts, required : Maybe(BOOLEAN)]
ChatInputTextQuestion ==
    [base : ChatInputQuestionBase, kind : {"text"}, format : Maybe(Texts), min : Maybe(Number),
     max : Maybe(Number), defaultValue : Maybe(Texts)]
ChatInputNumberQuestion ==
    [base : ChatInputQuestionBase, kind : {"number", "integer"}, min : Maybe(Number),
     max : Maybe(Number), defaultValue : Maybe(Number)]
ChatInputBooleanQuestion ==
    [base : ChatInputQuestionBase, kind : {"boolean"}, defaultValue : Maybe(BOOLEAN)]
ChatInputSingleSelectQuestion ==
    [base : ChatInputQuestionBase, kind : {"single-select"}, options : ListOf(ChatInputOption),
     allowFreeformInput : Maybe(BOOLEAN)]
ChatInputMultiSelectQuestion ==
    [base : ChatInputQuestionBase, kind : {"multi-select"}, options : ListOf(ChatInputOption),
     allowFreeformInput : Maybe(BOOLEAN), min : Maybe(Number), max : Maybe(Number)]
ChatInputQuestion ==
    ChatInputTextQuestion \cup ChatInputNumberQuestion \cup ChatInputBooleanQuestion
        \cup ChatInputSingleSelectQuestion \cup ChatInputMultiSelectQuestion

=============================================================================
