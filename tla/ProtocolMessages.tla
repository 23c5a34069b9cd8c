-------------------------- MODULE ProtocolMessages --------------------------
(***************************************************************************)
(* The messages of the protocol: commands with their parameters and results, *)
(* notifications, errors and the JSON-RPC envelopes (types/common and the    *)
(* commands and notifications of the channels).  As in ProtocolTypes, a type *)
(* is the set of its values under its own name.                              *)
(***************************************************************************)
EXTENDS ProtocolVersions

RootChannel        == "ahp-root://"
AutomationsChannel == "ahp-automations://"

\* The parameters of every command name the channel it is for.
BaseParams     == [channel : URI]
RootParams     == [channel : {RootChannel}]
Nothing        == {None}

-----------------------------------------------------------------------------
(* Connection.                                                             *)

PaginatedParams == [limit : Maybe(Number), cursor : Maybe(Texts)]
PaginatedResult == [nextCursor : Maybe(Texts)]

SessionChatSummary ==
    [resource : Chats, title : Texts, origin : Maybe(ChatOrigin),
     interactivity : Maybe(ChatInteractivity), provider : Maybe(Providers),
     status : Maybe(StatusBits), changes : Maybe(ChangesSummary)]
SessionSummary ==
    [base : SessionMetadata, resource : URI, createdAt : Texts, modifiedAt : Texts,
     changes : Maybe(ChangesSummary), chats : Maybe(ListOf(SessionChatSummary)),
     defaultChat : Maybe(Chats)]
\* The state of a snapshot is that of its resource's channel, see StateMirror.
Snapshot == [resource : URI, state : Values, fromSeq : Number]

Implementation     == [name : Texts, version : Maybe(Texts), title : Maybe(Texts)]
ClientCapabilities == [mcpApps : Maybe(EmptyState)]
\* An offered string that is not a version is None.
InitializeParams ==
    [channel : {RootChannel}, protocolVersions : Seq(Maybe(Nat \X Nat \X Nat)), clientId : Clients,
     clientInfo : Maybe(Implementation), initialSubscriptions : Maybe(ListOf(URI)),
     locale : Maybe(Texts), capabilities : Maybe(ClientCapabilities)]

AutomationCreateCapability          == EmptyState
AutomationCustomizationsCapability  == EmptyState
AutomationRunCancellationCapability == EmptyState
AutomationScheduleCapabilities      == [minIntervalMinutes : Maybe(Number)]
AutomationCapabilities ==
    [create : Maybe(AutomationCreateCapability), schedules : Maybe(AutomationScheduleCapabilities),
     runCancellation : Maybe(AutomationRunCancellationCapability),
     runHistoryLimit : Maybe(Number), customizations : Maybe(AutomationCustomizationsCapability)]
MultipleChatProvidersCapability == EmptyState
TcpConnectionsCapability        == EmptyState
TelemetryCapabilities == [logs : Maybe(URI), traces : Maybe(URI), metrics : Maybe(URI)]
InitializeResult ==
    [protocolVersion : Nat \X Nat \X Nat, serverSeq : Number, serverInfo : Maybe(Implementation),
     snapshots : ListOf(Snapshot), defaultDirectory : Maybe(URI),
     completionTriggerCharacters : Maybe(ListOf(Texts)), terminalCommandPrefix : Maybe(Texts),
     telemetry : Maybe(TelemetryCapabilities), automations : Maybe(AutomationCapabilities),
     tcpConnections : Maybe(TcpConnectionsCapability),
     multipleChatProviders : Maybe(MultipleChatProvidersCapability)]

PingParams == RootParams

SubscriptionFlowControlOptions == [receive : ChannelReceiveLimits]
ChannelDeliveryResumeParams ==
    [channel : URI, flowControl : SubscriptionFlowControlOptions, lastAppliedServerSeq : Maybe(Number)]
ChannelDeliveryResumeOptions == [items : ListOf(ChannelDeliveryResumeParams)]
ChannelDeliveryResumeResult  == [items : ListOf(ResumedChannelSubscription)]
ReconnectParams ==
    [channel : {RootChannel}, clientId : Clients, lastSeenServerSeq : Number,
     subscriptions : ListOf(URI), windows : Maybe(ChannelDeliveryResumeOptions)]
ReconnectReplayResult ==
    [type : {"replay"}, actions : ListOf(ActionEnvelope), missing : ListOf(URI),
     windows : Maybe(ChannelDeliveryResumeResult)]
ReconnectSnapshotResult ==
    [type : {"snapshot"}, snapshots : ListOf(Snapshot), windows : Maybe(ChannelDeliveryResumeResult)]
ReconnectResult == ReconnectReplayResult \cup ReconnectSnapshotResult

SubscriptionDeliveryOptions == [maxLatencyMs : Maybe(Number)]
SubscribeView               == [turns : Maybe(Number)]
SubscribeParams ==
    [channel : URI, delivery : Maybe(SubscriptionDeliveryOptions), view : Maybe(SubscribeView),
     flowControl : Maybe(SubscriptionFlowControlOptions)]
SubscribeResult   == [snapshot : Maybe(Snapshot), flowControl : Maybe(ChannelFlowControl)]

AuthenticateTargetKind      == {"mcpServer"}
McpServerAuthenticateTarget ==
    [kind : AuthenticateTargetKind, session : URI, customizationId : Texts]
AuthenticateTarget == McpServerAuthenticateTarget
AuthenticateParams ==
    [channel : {RootChannel}, resource : Texts, token : Texts, expiresIn : Maybe(Number),
     scopes : Maybe(ListOf(Texts)), target : Maybe(AuthenticateTarget)]
AuthenticateResult == EmptyState

-----------------------------------------------------------------------------
(* Resources; the host may ask these of a client too.                      *)

ContentEncoding   == {"base64", "utf-8"}
ResourceWriteMode == {"truncate", "append", "insert"}
ResourceType      == {"file", "directory", "symlink"}
DirectoryEntry    == [name : Texts, type : {"file", "directory"}]

ResourceReadParams ==
    [channel : {RootChannel}, uri : Texts, encoding : Maybe(ContentEncoding),
     position : Maybe(Number), length : Maybe(Number)]
ResourceReadResult ==
    [data : Texts, encoding : ContentEncoding, contentType : Maybe(Texts), size : Maybe(Number)]
ResourceWriteParams ==
    [channel : {RootChannel}, uri : URI, data : Texts, encoding : ContentEncoding,
     contentType : Maybe(Texts), createOnly : Maybe(BOOLEAN), mode : Maybe(ResourceWriteMode),
     position : Maybe(Number), ifMatch : Maybe(Texts)]
ResourceWriteResult == EmptyState
ResourceListParams  == [channel : {RootChannel}, uri : URI]
ResourceListResult  == [entries : ListOf(DirectoryEntry)]
ResourceCopyParams ==
    [channel : {RootChannel}, source : URI, destination : URI, failIfExists : Maybe(BOOLEAN)]
ResourceCopyResult    == EmptyState
ResourceDeleteParams  == [channel : {RootChannel}, uri : URI, recursive : Maybe(BOOLEAN)]
ResourceDeleteResult  == EmptyState
ResourceRequestParams ==
    [channel : {RootChannel}, uri : URI, read : Maybe(BOOLEAN), write : Maybe(BOOLEAN)]
ResourceRequestResult == EmptyState
ResourceMoveParams ==
    [channel : {RootChannel}, source : URI, destination : URI, failIfExists : Maybe(BOOLEAN)]
ResourceMoveResult    == EmptyState
ResourceResolveParams == [channel : {RootChannel}, uri : URI, followSymlinks : Maybe(BOOLEAN)]
ResourceResolveResult ==
    [uri : URI, type : ResourceType, size : Maybe(Number), mtime : Maybe(Texts),
     ctime : Maybe(Texts), contentType : Maybe(Texts), etag : Maybe(Texts)]
ResourceMkdirParams == [channel : {RootChannel}, uri : URI]
ResourceMkdirResult == EmptyState
CreateResourceWatchParams ==
    LET globs == Maybe([items : ListOf(Texts)])
    IN  [channel : {RootChannel}, uri : URI, recursive : Maybe(BOOLEAN), excludes : globs, includes : globs]
CreateResourceWatchResult == [channel : URI]

-----------------------------------------------------------------------------
(* Sessions, chats, terminals, changesets, automations.                    *)

ListSessionsParams == [channel : {RootChannel}, page : PaginatedParams]
ListSessionsResult == [items : ListOf(SessionSummary), page : PaginatedResult]
ResolveSessionConfigParams ==
    [channel : {RootChannel}, provider : Maybe(Providers), workingDirectory : Maybe(Directories),
     config : Maybe(AnyRecord)]
ResolveSessionConfigResult == [schema : SessionConfigSchema, values : AnyRecord]
SessionConfigValueItem     == [value : Texts, label : Texts, description : Maybe(Texts)]
SessionConfigCompletionsParams ==
    [channel : {RootChannel}, provider : Maybe(Providers), workingDirectory : Maybe(Directories),
     config : Maybe(AnyRecord), property : Texts, query : Maybe(Texts)]
SessionConfigCompletionsResult == [items : ListOf(SessionConfigValueItem)]

CreateSessionParams ==
    [channel : URI, provider : Maybe(Providers), workingDirectories : Maybe(ListOf(Directories)),
     config : Maybe(AnyRecord), activeClient : Maybe(SessionActiveClient), progressToken : Maybe(Texts)]
DisposeSessionParams == BaseParams
FetchTurnsParams     == [channel : URI, cursor : Maybe(Texts)]
FetchTurnsResult     == EmptyState
CompletionItemKind   == {"userMessage"}
CompletionsParams    == [channel : URI, kind : CompletionItemKind, text : Texts, offset : Number]
CompletionItem ==
    [insertText : Texts, rangeStart : Maybe(Number), rangeEnd : Maybe(Number),
     attachment : MessageAttachment]
CompletionsResult == [items : ListOf(CompletionItem)]

ForkChatSource == [kind : {"fork"}, chat : Chats, turnId : Texts]
SideChatSource ==
    [kind : {"sideChat"}, chat : Chats, turnId : Texts, selection : Maybe(SideChatSelection)]
ChatSource     == ForkChatSource \cup SideChatSource
CreateChatParams ==
    [channel : URI, chat : Chats, initialMessage : Maybe(Message), source : Maybe(ChatSource),
     workingDirectories : Maybe(ListOf(Directories)), title : Maybe(Texts), provider : Maybe(Providers)]
ChatMoveToSessionDestination    == [kind : {"session"}, session : URI, after : Maybe(Chats)]
ChatMoveToNewSessionDestination == [kind : {"newSession"}]
ChatMoveDestination ==
    ChatMoveToSessionDestination \cup ChatMoveToNewSessionDestination
MoveChatParams    == [channel : URI, destination : ChatMoveDestination]
MoveChatResult    == [session : URI]
DisposeChatParams == BaseParams

CreateTerminalParams ==
    [channel : URI, claim : TerminalClaim, name : Maybe(Texts), cwd : Maybe(URI),
     cols : Maybe(Number), rows : Maybe(Number)]
DisposeTerminalParams     == BaseParams
CreateTcpConnectionParams == [channel : URI, host : Texts, port : Number]

ChangesetOperationTarget ==
    LET side == Maybe({"before", "after"}) IN
    [kind : {"resource"}, resource : URI, side : side, nonce : Maybe(Texts)]
        \cup [kind : {"range"}, resource : URI, side : side, range : TextRange, nonce : Maybe(Texts)]
ChangesetOperationFollowUp   == [content : ContentRef, external : Maybe(BOOLEAN)]
InvokeChangesetOperationParams ==
    [channel : URI, operationId : OperationIds, target : Maybe(ChangesetOperationTarget)]
InvokeChangesetOperationResult ==
    [message : Maybe(StringOrMarkdown), followUp : Maybe(ChangesetOperationFollowUp)]

ListAutomationTriggerDefinitionsParams ==
    [channel : {RootChannel}, provider : Maybe(Providers),
     workingDirectories : Maybe(ListOf(Directories)), sessionConfig : Maybe(AnyRecord)]
ListAutomationTriggerDefinitionsResult == [items : ListOf(AutomationTriggerDefinition)]
RunAutomationParams ==
    [channel : {AutomationsChannel}, automation : Automations, requestId : Texts]
RunAutomationResult == [resource : URI]
FetchAutomationRunsParams ==
    [channel : {AutomationsChannel}, automation : Automations, cursor : Maybe(Texts)]
FetchAutomationRunsResult == EmptyState

-----------------------------------------------------------------------------
(* Notifications.                                                          *)

SessionAddedParams   == [channel : URI, summary : SessionSummary]
SessionRemovedParams == [channel : URI, session : URI]
\* Partial<SessionSummary>: each field may be absent.
SessionSummaryChangedParams == [channel : URI, session : URI, changes : Maybe(SessionSummary)]
ProgressParams ==
    [channel : URI, progressToken : Texts, progress : Number, total : Maybe(Number), message : Maybe(Texts)]
AuthRequiredReason == {"required", "expired"}
AuthRequiredParams ==
    [channel : URI, resource : ProtectedResourceMetadata, reason : Maybe(AuthRequiredReason)]
ChannelFrameParams      == [channel : URI, data : Texts, final : Maybe(BOOLEAN)]
ChannelCreditParams     == [channel : URI, consumedBytes : Number]
ChannelSnapshotParams   == [channel : URI, snapshot : Snapshot]
OtlpExportLogsParams    == [channel : URI, payload : AnyRecord]
OtlpExportTracesParams  == [channel : URI, payload : AnyRecord]
OtlpExportMetricsParams == [channel : URI, payload : AnyRecord]
TcpDataParams  == [channel : URI, data : Texts]
TcpEofParams   == [channel : URI]
TcpResetParams == [channel : URI]

-----------------------------------------------------------------------------
(* Errors.                                                                 *)

JsonRpcErrorCodes ==
    [ParseError |-> -32700, InvalidRequest |-> -32600, MethodNotFound |-> -32601,
     InvalidParams |-> -32602, InternalError |-> -32603]
AhpErrorCodes ==
    [SessionNotFound |-> -32001, ProviderNotFound |-> -32002, SessionAlreadyExists |-> -32003,
     TurnInProgress |-> -32004, UnsupportedProtocolVersion |-> -32005, AuthRequired |-> -32007,
     NotFound |-> -32008, PermissionDenied |-> -32009, AlreadyExists |-> -32010,
     Conflict |-> -32011, TcpConnectionOpenFailed |-> -32012]

-----------------------------------------------------------------------------
(* JSON-RPC.                                                               *)

CommandMap ==
    LET Command(params, result) == [params |-> params, result |-> result] IN
    [initialize |-> Command(InitializeParams, InitializeResult),
     ping |-> Command(PingParams, Nothing),
     reconnect |-> Command(ReconnectParams, ReconnectResult),
     subscribe |-> Command(SubscribeParams, SubscribeResult),
     createSession |-> Command(CreateSessionParams, Nothing),
     disposeSession |-> Command(DisposeSessionParams, Nothing),
     createChat |-> Command(CreateChatParams, Nothing),
     createTcpConnection |-> Command(CreateTcpConnectionParams, Nothing),
     moveChat |-> Command(MoveChatParams, MoveChatResult),
     disposeChat |-> Command(DisposeChatParams, Nothing),
     createTerminal |-> Command(CreateTerminalParams, Nothing),
     disposeTerminal |-> Command(DisposeTerminalParams, Nothing),
     createResourceWatch |-> Command(CreateResourceWatchParams, CreateResourceWatchResult),
     listSessions |-> Command(ListSessionsParams, ListSessionsResult),
     resourceRead |-> Command(ResourceReadParams, ResourceReadResult),
     resourceWrite |-> Command(ResourceWriteParams, ResourceWriteResult),
     resourceList |-> Command(ResourceListParams, ResourceListResult),
     resourceCopy |-> Command(ResourceCopyParams, ResourceCopyResult),
     resourceDelete |-> Command(ResourceDeleteParams, ResourceDeleteResult),
     resourceMove |-> Command(ResourceMoveParams, ResourceMoveResult),
     resourceResolve |-> Command(ResourceResolveParams, ResourceResolveResult),
     resourceMkdir |-> Command(ResourceMkdirParams, ResourceMkdirResult),
     resourceRequest |-> Command(ResourceRequestParams, ResourceRequestResult),
     fetchTurns |-> Command(FetchTurnsParams, FetchTurnsResult),
     authenticate |-> Command(AuthenticateParams, AuthenticateResult),
     resolveSessionConfig |-> Command(ResolveSessionConfigParams, ResolveSessionConfigResult),
     sessionConfigCompletions |->
        Command(SessionConfigCompletionsParams, SessionConfigCompletionsResult),
     completions |-> Command(CompletionsParams, CompletionsResult),
     invokeChangesetOperation |->
        Command(InvokeChangesetOperationParams, InvokeChangesetOperationResult),
     listAutomationTriggerDefinitions |->
        Command(ListAutomationTriggerDefinitionsParams, ListAutomationTriggerDefinitionsResult),
     runAutomation |-> Command(RunAutomationParams, RunAutomationResult),
     fetchAutomationRuns |-> Command(FetchAutomationRunsParams, FetchAutomationRunsResult)]

ServerCommandMap ==
    [m \in {"resourceRead", "resourceWrite", "resourceList", "resourceCopy", "resourceDelete",
            "resourceMove", "resourceResolve", "resourceMkdir", "resourceRequest",
            "createResourceWatch"} |-> CommandMap[m]]

BothNotifications ==
    "channel/frame" :> ChannelFrameParams @@ "channel/credit" :> ChannelCreditParams
        @@ "tcp/data" :> TcpDataParams @@ "tcp/eof" :> TcpEofParams @@ "tcp/reset" :> TcpResetParams
ServerNotificationMap ==
    "action" :> ActionEnvelope @@ "root/sessionAdded" :> SessionAddedParams
        @@ "root/sessionRemoved" :> SessionRemovedParams
        @@ "root/sessionSummaryChanged" :> SessionSummaryChangedParams
        @@ "root/progress" :> ProgressParams @@ "auth/required" :> AuthRequiredParams
        @@ "otlp/exportLogs" :> OtlpExportLogsParams
        @@ "otlp/exportTraces" :> OtlpExportTracesParams
        @@ "otlp/exportMetrics" :> OtlpExportMetricsParams
        @@ "channel/snapshot" :> ChannelSnapshotParams @@ BothNotifications

JsonRpcRequest(methods, params)      == [jsonrpc : {"2.0"}, id : Nat, method : methods, params : params]
JsonRpcNotification(methods, params) == [jsonrpc : {"2.0"}, method : methods, params : params]
AhpRequest(m)            == JsonRpcRequest({m}, CommandMap[m].params)
AhpServerRequest(m)      == JsonRpcRequest({m}, ServerCommandMap[m].params)
AhpServerNotification(m) == JsonRpcNotification({m}, ServerNotificationMap[m])

=============================================================================
