--------------------------- MODULE ActionOrigins ---------------------------
(***************************************************************************)
(* The actions of the protocol, channel by channel, and who may originate    *)
(* them (types/action-origin.generated.ts, types/common/actions.ts).         *)
(***************************************************************************)
EXTENDS ChatContent

-----------------------------------------------------------------------------
(* The actions of the turn machine, whose effect is in ChatTurns.          *)

TurnState == {"complete", "cancelled", "error"}
Turn ==
    [id : Turns, startedAt : Maybe(Texts), duration : Maybe(Number), message : Message,
     responseParts : Seq(ResponsePart), usage : Maybe(UsageInfo), state : TurnState]
\* A page of older turns: one turn without content.
Pages ==
    {<<>>} \cup {<<[id |-> t, startedAt |-> None, duration |-> None, message |-> Sample(Message),
                    responseParts |-> <<>>, usage |-> None, state |-> s]>> : t \in Turns, s \in TurnState}

ChatTurnCompleteAction  == [type : {"chat/turnComplete"}, turnId : Turns, duration : Number]
ChatTurnCancelledAction == [type : {"chat/turnCancelled"}, turnId : Turns, duration : Number]
ChatErrorAction ==
    [type : {"chat/error"}, turnId : Turns, duration : Number, part : ErrorResponsePart]
ChatTurnResumeAction == [type : {"chat/turnResume"}, turnId : Turns]
ChatTruncatedAction  == [type : {"chat/truncated"}, turnId : Maybe(Turns)]
ChatTurnsLoadedAction ==
    [type : {"chat/turnsLoaded"}, turns : Pages, turnsNextCursor : Maybe(Texts)]
ChatIsReadChangedAction     == [type : {"chat/isReadChanged"}, isRead : BOOLEAN]
ChatIsArchivedChangedAction == [type : {"chat/isArchivedChanged"}, isArchived : BOOLEAN]
TurnActions ==
    ChatTurnCompleteAction \cup ChatTurnCancelledAction \cup ChatErrorAction
        \cup ChatTurnResumeAction \cup ChatTruncatedAction \cup ChatTurnsLoadedAction
        \cup ChatIsReadChangedAction \cup ChatIsArchivedChangedAction

-----------------------------------------------------------------------------
(* The actions of each channel.                                            *)

RootAction ==
    RootAgentsChangedAction \cup RootActiveSessionsChangedAction
        \cup RootTerminalsChangedAction \cup RootConfigChangedAction
SessionAction ==
    MetadataActions \cup ChatCatalogActions \cup ClientActions \cup DirectoryActions
        \cup InputActions \cup CustomizationActions \cup McpActions
ChatAction ==
    TurnActions \cup TextActions \cup AnswerActions \cup ToolCallActions
        \cup PendingActions \cup ChatMetadataActions \cup ChatListActions
CanvasAction == CanvasStateChangedAction
TerminalAction ==
    TerminalDataAction \cup TerminalInputAction \cup TerminalResizedAction
        \cup TerminalClaimedAction \cup TerminalTitleChangedAction \cup TerminalCwdChangedAction
        \cup TerminalExitedAction \cup TerminalClearedAction
        \cup TerminalCommandDetectionAvailableAction \cup TerminalCommandExecutedAction
        \cup TerminalCommandFinishedAction
ChangesetAction ==
    ChangesetStatusChangedAction \cup ChangesetFileSetAction \cup ChangesetFileRemovedAction
        \cup ChangesetFilesReviewChangedAction \cup ChangesetContentChangedAction
        \cup ChangesetOperationsChangedAction \cup ChangesetOperationStatusChangedAction
        \cup ChangesetClearedAction
AnnotationsAction ==
    AnnotationsSetAction \cup AnnotationsUpdatedAction \cup AnnotationsRemovedAction
        \cup AnnotationsEntrySetAction \cup AnnotationsEntryRemovedAction
ResourceWatchAction == ResourceWatchChangedAction
AutomationAction ==
    AutomationCreateRequestedAction \cup AutomationUpdateRequestedAction
        \cup AutomationSetAction \cup AutomationRemovedAction
AutomationRunAction ==
    AutomationRunLifecycleChangedAction \cup AutomationRunSessionSetAction
        \cup AutomationRunSessionRemovedAction \cup AutomationRunPrimarySessionChangedAction
        \cup AutomationRunCancelRequestedAction

StateAction ==
    RootAction \cup SessionAction \cup ChatAction \cup CanvasAction \cup TerminalAction
        \cup ChangesetAction \cup AnnotationsAction \cup ResourceWatchAction
        \cup AutomationAction \cup AutomationRunAction
SessionTypes == TypesOf(SessionAction)
ChatTypes    == TypesOf(ChatAction)
ActionType ==
    UNION {SessionTypes, ChatTypes, TypesOf(RootAction), TypesOf(CanvasAction),
           TypesOf(TerminalAction), TypesOf(ChangesetAction), TypesOf(AnnotationsAction),
           TypesOf(ResourceWatchAction), TypesOf(AutomationAction), TypesOf(AutomationRunAction)}

ActionOrigin == [clientId : Clients, clientSeq : Number]
ActionEnvelope ==
    [channel : URI, action : StateAction, serverSeq : Number, origin : Maybe(ActionOrigin),
     rejectionReason : Maybe(Texts)]

-----------------------------------------------------------------------------
(* What a client may dispatch; the rest comes from the host.               *)

ClientRootAction == RootConfigChangedAction
ClientSessionAction ==
    SessionTitleChangedAction \cup ClientActions \cup DirectoryActions
        \cup SessionCustomizationToggledAction \cup SessionMcpServerStartRequestedAction
        \cup SessionMcpServerStopRequestedAction \cup SessionMcpServerBackgroundRequestedAction
        \cup SessionIsReadChangedAction \cup SessionIsArchivedChangedAction
        \cup SessionConfigChangedAction
ClientChatAction ==
    PendingActions \cup ChatToolCallConfirmedAction \cup ChatToolCallCompleteAction
        \cup ChatToolCallResultConfirmedAction \cup ChatToolCallContentChangedAction
        \cup ChatTurnCancelledAction \cup ChatTurnResumeAction \cup ChatTruncatedAction
        \cup ChatWorkingDirectorySetAction \cup ChatWorkingDirectoryRemovedAction
        \cup ChatDraftChangedAction \cup ChatIsReadChangedAction
        \cup ChatIsArchivedChangedAction \cup ChatConfigChangedAction
        \cup ChatInputAnswerChangedAction \cup ChatInputCompletedAction
ClientTerminalAction ==
    TerminalInputAction \cup TerminalResizedAction \cup TerminalClaimedAction
        \cup TerminalTitleChangedAction \cup TerminalClearedAction
ClientChangesetAction     == ChangesetFilesReviewChangedAction
ClientAnnotationsAction   == AnnotationsAction
ClientAutomationAction ==
    AutomationCreateRequestedAction \cup AutomationUpdateRequestedAction
        \cup AutomationRemovedAction
ClientAutomationRunAction == AutomationRunCancelRequestedAction

IS_CLIENT_DISPATCHABLE ==
    LET client == UNION {TypesOf(ClientRootAction), TypesOf(ClientSessionAction),
                         TypesOf(ClientChatAction), TypesOf(ClientTerminalAction),
                         TypesOf(ClientChangesetAction), TypesOf(ClientAnnotationsAction),
                         TypesOf(ClientAutomationAction), TypesOf(ClientAutomationRunAction)}
    IN  [t \in ActionType |-> t \in client]
isClientDispatchable(action) == IS_CLIENT_DISPATCHABLE[action.type]

=============================================================================
