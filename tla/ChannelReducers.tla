-------------------------- MODULE ChannelReducers --------------------------
(***************************************************************************)
(* The smaller channels of the protocol: root, terminal, changeset,          *)
(* annotations, automation catalogue, automation run, canvas and resource    *)
(* watch.  For each one the shape of its state, the actions a host sends on  *)
(* it and its reducer.                                                       *)
(*                                                                           *)
(* Terminal output is the sequence of the chunks it was sent in; of a type   *)
(* whose content a reducer only carries, the actions bring one sample.       *)
(***************************************************************************)
EXTENDS SessionChannel

CONSTANTS
    Commands,                   \* ids of shell commands
    Chunks,                     \* chunks of terminal or response output
    FileIds, OperationIds,      \* of a changeset
    AnnotationIds, EntryIds,    \* of an annotations channel
    Automations, RunSessions    \* automation URIs, session URIs of a run

-----------------------------------------------------------------------------
(* Terminal.                                                               *)

TerminalRunningLifecycleState == [status : {"running"}]
TerminalExitedLifecycleState  == [status : {"exited"}, exitCode : {0, None}]
TerminalLifecycleState == TerminalRunningLifecycleState \cup TerminalExitedLifecycleState

TerminalClientClaim  == [kind : {"client"}, clientId : Clients]
TerminalSessionClaim == [kind : {"session"}, chat : Chats]
TerminalClaim == TerminalClientClaim \cup TerminalSessionClaim

TerminalUnclassifiedPart == [type : {"unclassified"}, value : Seq(Chunks)]
TerminalCommandPart ==
    [type : {"command"}, commandId : Commands, output : Seq(Chunks), isComplete : BOOLEAN]
TerminalContentPart == TerminalUnclassifiedPart \cup TerminalCommandPart
TerminalState ==
    [title : Values, cwd : Values \cup {None}, size : Values \cup {None},
     content : Seq(TerminalContentPart),
     lifecycle : TerminalLifecycleState, claim : TerminalClaim,
     supportsCommandDetection : BOOLEAN]
TerminalInfo == [resource : Values, claim : TerminalClaim, lifecycle : TerminalLifecycleState]

TerminalDataAction    == [type : {"terminal/data"}, data : Chunks]
TerminalInputAction   == [type : {"terminal/input"}, data : Values]
TerminalResizedAction == [type : {"terminal/resized"}, size : Values]
TerminalClaimedAction == [type : {"terminal/claimed"}, claim : TerminalClaim]
TerminalTitleChangedAction == [type : {"terminal/titleChanged"}, title : Values]
TerminalCwdChangedAction   == [type : {"terminal/cwdChanged"}, cwd : Values]
TerminalExitedAction       == [type : {"terminal/exited"}, exitCode : {0, None}]
TerminalClearedAction      == [type : {"terminal/cleared"}]
TerminalCommandDetectionAvailableAction == [type : {"terminal/commandDetectionAvailable"}]
TerminalCommandExecutedAction == [type : {"terminal/commandExecuted"}, commandId : Commands]
TerminalCommandFinishedAction == [type : {"terminal/commandFinished"}, commandId : Commands]

\* Faulty: data after a finished command is still added to it.
FaultyWithData(content, data) ==
    IF content = <<>> THEN <<[type |-> "unclassified", value |-> <<data>>]>>
    ELSE IF Last(content).type = "command"
    THEN [content EXCEPT ![Len(content)].output = Append(@, data)]
    ELSE [content EXCEPT ![Len(content)].value = Append(@, data)]

\* Data goes to the command that is the last part and runs, or to the
\* unclassified part that is last, or to a new one.
WithData(content, data) ==
    IF content # <<>> /\ Last(content).type = "command" /\ ~Last(content).isComplete
    THEN [content EXCEPT ![Len(content)].output = Append(@, data)]
    ELSE IF content # <<>> /\ Last(content).type = "unclassified"
    THEN [content EXCEPT ![Len(content)].value = Append(@, data)]
    ELSE Append(content, [type |-> "unclassified", value |-> <<data>>])

CommandStarted(id) ==
    [type |-> "command", commandId |-> id, output |-> <<>>, isComplete |-> FALSE]

CommandFinished(content, id) ==
    [k \in DOMAIN content |->
        IF content[k].type = "command" /\ content[k].commandId = id
        THEN [content[k] EXCEPT !.isComplete = TRUE] ELSE content[k]]

terminalReducer(state, action) ==
    CASE action.type = "terminal/data" -> [state EXCEPT !.content = WithData(@, action.data)]
      [] action.type = "terminal/input" -> state
      [] action.type = "terminal/resized" -> [state EXCEPT !.size = action.size]
      [] action.type = "terminal/claimed" -> [state EXCEPT !.claim = action.claim]
      [] action.type = "terminal/titleChanged" -> [state EXCEPT !.title = action.title]
      [] action.type = "terminal/cwdChanged" -> [state EXCEPT !.cwd = action.cwd]
      [] action.type = "terminal/exited" ->
            [state EXCEPT !.lifecycle = [status |-> "exited", exitCode |-> action.exitCode]]
      [] action.type = "terminal/cleared" -> [state EXCEPT !.content = <<>>]
      [] action.type = "terminal/commandDetectionAvailable" ->
            [state EXCEPT !.supportsCommandDetection = TRUE]
      [] action.type = "terminal/commandExecuted" ->
            [state EXCEPT !.content = Append(@, CommandStarted(action.commandId)),
                          !.supportsCommandDetection = TRUE]
      [] action.type = "terminal/commandFinished" ->
            [state EXCEPT !.content = CommandFinished(@, action.commandId)]

-----------------------------------------------------------------------------
(* Root.                                                                   *)

MultipleChatsCapability == [fork : BOOLEAN, sideChat : BOOLEAN]
MultipleWorkingDirectoriesCapability == [immutablePrimary : BOOLEAN, primaryReplacement : BOOLEAN]
AgentCapabilities ==
    [multipleChats : MultipleChatsCapability \cup {None},
     multipleWorkingDirectories : MultipleWorkingDirectoriesCapability \cup {None}]
AgentInfo ==
    [provider : Providers, displayName : Texts, description : Texts,
     models : ListOf(SessionModelInfo), protectedResources : Maybe(ListOf(ProtectedResourceMetadata)),
     capabilities : AgentCapabilities]
RootConfigState == [values : ConfigValues]
RootState ==
    [agents : Seq(AgentInfo), activeSessions : Nat, terminals : Seq(TerminalInfo),
     config : RootConfigState \cup {None}]

RootAgentsChangedAction ==
    [type : {"root/agentsChanged"},
     agents : ListOf([provider : Providers, displayName : {Sample(Texts)}, description : {Sample(Texts)},
                      models : SampleLists(SessionModelInfo), protectedResources : {None},
                      capabilities : AgentCapabilities])]
RootActiveSessionsChangedAction == [type : {"root/activeSessionsChanged"}, activeSessions : {0, 1}]
RootTerminalsChangedAction ==
    [type : {"root/terminalsChanged"}, terminals : BoundedSeq(TerminalInfo, 1)]
RootConfigChangedAction == [type : {"root/configChanged"}, config : ConfigValues, replace : BOOLEAN]

rootReducer(state, action) ==
    CASE action.type = "root/agentsChanged" -> [state EXCEPT !.agents = action.agents]
      [] action.type = "root/activeSessionsChanged" ->
            [state EXCEPT !.activeSessions = action.activeSessions]
      [] action.type = "root/terminalsChanged" -> [state EXCEPT !.terminals = action.terminals]
      [] action.type = "root/configChanged" ->
            IF state.config = None THEN state
            ELSE [state EXCEPT !.config.values = MergeValues(@, action.config, action.replace)]

-----------------------------------------------------------------------------
(* Changeset.                                                              *)

ChangesetStatus == {"computing", "recomputing", "ready", "error"}
ChangesetOperationStatus == {"idle", "running", "error", "disabled"}
ChangesetOperationScope == {"changeset", "resource", "range"}
ChangesetFile == [id : FileIds, edit : {Sample(FileEdit)}, reviewed : BOOLEAN]
ChangesetOperation ==
    LET Operation(status, error) ==
            [id : OperationIds, scopes : {<<Sample(ChangesetOperationScope)>>}, status : status, error : error]
    IN  Operation(ChangesetOperationStatus \ {"error"}, {None})
            \cup Operation({"error"}, {Sample(ErrorInfo)})
ChangesetState ==
    [status : ChangesetStatus, error : Maybe(ErrorInfo),
     files : Seq(ChangesetFile), operations : Seq(ChangesetOperation)]

\* The lists a host sends: no id twice.
FileLists      == {l \in BoundedSeq(ChangesetFile, Cardinality(FileIds)) : UniqueKeys(l, "id")}
OperationLists == {l \in BoundedSeq(ChangesetOperation, Cardinality(OperationIds)) : UniqueKeys(l, "id")}

\* A host sends an error exactly with the status Error; the absent operations
\* of a content change are None.
ChangesetStatusChangedAction ==
    [type : {"changeset/statusChanged"}, status : {"error"}, error : {Sample(ErrorInfo)}]
        \cup [type : {"changeset/statusChanged"}, status : ChangesetStatus \ {"error"}, error : {None}]
ChangesetFileSetAction     == [type : {"changeset/fileSet"}, file : ChangesetFile]
ChangesetFileRemovedAction == [type : {"changeset/fileRemoved"}, fileId : FileIds]
ChangesetFilesReviewChangedAction ==
    [type : {"changeset/filesReviewChanged"}, files : SUBSET FileIds, reviewed : BOOLEAN]
ChangesetContentChangedAction ==
    [type : {"changeset/contentChanged"}, files : FileLists, operations : OperationLists \cup {None}]
ChangesetOperationsChangedAction ==
    [type : {"changeset/operationsChanged"}, operations : OperationLists \cup {None}]
ChangesetOperationStatusChangedAction ==
    [type : {"changeset/operationStatusChanged"}, operationId : OperationIds,
     status : {"error"}, error : {Sample(ErrorInfo)}]
    \cup [type : {"changeset/operationStatusChanged"}, operationId : OperationIds,
          status : ChangesetOperationStatus \ {"error"}, error : {None}]
ChangesetClearedAction == [type : {"changeset/cleared"}]

\* `error` is carried only when the new status is Error.
WithStatus(holder, action) ==
    [holder EXCEPT !.status = action.status,
                   !.error = IF action.status = "error" THEN action.error ELSE None]

changesetReducer(state, action) ==
    CASE action.type = "changeset/statusChanged" -> WithStatus(state, action)
      [] action.type = "changeset/fileSet" ->
            [state EXCEPT !.files = SetEntry(@, "id", action.file)]
      [] action.type = "changeset/fileRemoved" ->
            [state EXCEPT !.files = RemoveEntry(@, "id", action.fileId)]
      [] action.type = "changeset/filesReviewChanged" ->
            [state EXCEPT !.files = [k \in DOMAIN @ |->
                IF @[k].id \in action.files THEN [@[k] EXCEPT !.reviewed = action.reviewed] ELSE @[k]]]
      [] action.type = "changeset/contentChanged" ->
            [state EXCEPT !.files = action.files,
                          !.operations = IF action.operations = None THEN @ ELSE action.operations]
      [] action.type = "changeset/operationsChanged" ->
            [state EXCEPT !.operations = IF action.operations = None THEN <<>> ELSE action.operations]
      [] action.type = "changeset/operationStatusChanged" ->
            [state EXCEPT !.operations =
                LET i == FindIndex(@, "id", action.operationId)
                IN  IF i = 0 THEN @ ELSE [@ EXCEPT ![i] = WithStatus(@, action)]]
      [] action.type = "changeset/cleared" -> [state EXCEPT !.files = <<>>]

-----------------------------------------------------------------------------
(* Annotations.                                                            *)

AnnotationEntry == [id : EntryIds, text : Values]
AnnotationOrigin == [session : URI, chat : Maybe(Chats), turnId : Maybe(Texts)]
Annotation ==
    [id : AnnotationIds, origin : AnnotationOrigin, resource : Values, range : Maybe(TextRange),
     resolved : BOOLEAN, entries : Seq(AnnotationEntry)]
AnnotationsState == [annotations : Seq(Annotation)]

AnnotationsSetAction ==
    [type : {"annotations/set"},
     annotation : [id : AnnotationIds, origin : {Sample(AnnotationOrigin)}, resource : Values,
                   range : {None}, resolved : {FALSE},
                   entries : {<<e>> : e \in AnnotationEntry}]]
\* Any of the fields that can change; an absent one is None.
AnnotationsUpdatedAction ==
    [type : {"annotations/updated"}, annotationId : AnnotationIds,
     resource : Values \cup {None}, resolved : BOOLEAN \cup {None}]
AnnotationsRemovedAction == [type : {"annotations/removed"}, annotationId : AnnotationIds]
AnnotationsEntrySetAction ==
    [type : {"annotations/entrySet"}, annotationId : AnnotationIds, entry : AnnotationEntry]
AnnotationsEntryRemovedAction ==
    [type : {"annotations/entryRemoved"}, annotationId : AnnotationIds, entryId : EntryIds]

annotationsReducer(state, action) ==
    CASE action.type = "annotations/set" ->
            [state EXCEPT !.annotations = SetEntry(@, "id", action.annotation)]
      [] action.type = "annotations/removed" ->
            [state EXCEPT !.annotations = RemoveEntry(@, "id", action.annotationId)]
      [] OTHER ->
            LET i == FindIndex(state.annotations, "id", action.annotationId)
            IN  IF i = 0 THEN state
                ELSE CASE action.type = "annotations/updated" ->
                            [state EXCEPT
                                !.annotations[i].resource =
                                    IF action.resource = None THEN @ ELSE action.resource,
                                !.annotations[i].resolved =
                                    IF action.resolved = None THEN @ ELSE action.resolved]
                       [] action.type = "annotations/entrySet" ->
                            [state EXCEPT !.annotations[i].entries = SetEntry(@, "id", action.entry)]
                       [] action.type = "annotations/entryRemoved" ->
                            [state EXCEPT !.annotations[i].entries =
                                RemoveEntry(@, "id", action.entryId)]

-----------------------------------------------------------------------------
(* Automation catalogue and runs.                                          *)

AutomationManualRunOrigin == [kind : {"manual"}]
AutomationTriggeredRunOrigin ==
    [kind : {"trigger"}, triggerId : Texts, scheduledFor : Maybe(Texts), catchUp : Maybe(BOOLEAN),
     event : Maybe(AnyRecord)]
AutomationRunOrigin == AutomationManualRunOrigin \cup AutomationTriggeredRunOrigin

AutomationPendingRunLifecycle   == [status : {"pending"}]
AutomationRunningRunLifecycle   == [status : {"running"}]
AutomationCompletedRunLifecycle == [status : {"completed"}, usage : Maybe(UsageInfo)]
AutomationFailedRunLifecycle    == [status : {"failed"}, error : ErrorInfo]
AutomationCancelledRunLifecycle == [status : {"cancelled"}]
AutomationRunLifecycle ==
    AutomationPendingRunLifecycle \cup AutomationRunningRunLifecycle
        \cup AutomationCompletedRunLifecycle \cup AutomationFailedRunLifecycle
        \cup AutomationCancelledRunLifecycle
AutomationRunSummary ==
    [resource : URI, automation : Automations, origin : AutomationRunOrigin,
     lifecycle : AutomationRunLifecycle, primarySession : Maybe(RunSessions), sessionCount : Number]

AutomationOperation     == {"update", "remove", "run"}
AutomationSchedule      == [expression : Texts, timeZone : Texts]
AutomationMisfirePolicy == {"skip", "runOnce"}
AutomationTriggerEventDefinition == [id : Texts, title : Texts, description : Maybe(Texts)]
AutomationTriggerDefinition ==
    [type : Texts, title : Texts, description : Maybe(Texts),
     events : ListOf(AutomationTriggerEventDefinition), configSchema : Maybe(ConfigSchema)]
AutomationScheduleTrigger ==
    [id : Texts, kind : {"schedule"}, schedule : AutomationSchedule,
     misfirePolicy : Maybe(AutomationMisfirePolicy)]
AutomationEventTrigger ==
    [id : Texts, kind : {"event"}, type : Texts, title : Texts, description : Maybe(Texts),
     events : ListOf(AutomationTriggerEventDefinition), config : Maybe(AnyRecord)]
AutomationTrigger == AutomationScheduleTrigger \cup AutomationEventTrigger

AutomationAfterRunsCondition == [kind : {"afterRuns"}, max : Number]
AutomationAfterDateCondition == [kind : {"afterDate"}, date : Texts]
AutomationDisableCondition   == AutomationAfterRunsCondition \cup AutomationAfterDateCondition
AutomationSessionTemplate ==
    [provider : Maybe(Providers), model : Maybe(ModelSelection), agent : Maybe(AgentSelection),
     workingDirectories : Maybe(ListOf(Directories)), config : Maybe(AnyRecord)]
AutomationDefinition ==
    [title : Texts, message : Message, session : AutomationSessionTemplate, enabled : BOOLEAN,
     triggers : ListOf(AutomationTrigger), disableConditions : Maybe(ListOf(AutomationDisableCondition))]
AutomationEntry ==
    [resource : Automations, definition : AutomationDefinition, nextRunAt : Maybe(Texts),
     runCount : Maybe(Number), runs : ListOf(AutomationRunSummary), runsNextCursor : Maybe(Texts),
     operations : SUBSET AutomationOperation]
AutomationState == [entries : Seq(AutomationEntry)]

\* The definitions, entries and changes a host and its users make.
Definitions ==
    [title : {Sample(Texts)}, message : {Sample(Message)}, session : {Sample(AutomationSessionTemplate)},
     enabled : BOOLEAN, disableConditions : {None},
     triggers : {<<>>, <<Sample(AutomationScheduleTrigger)>>, <<Sample(AutomationEventTrigger)>>}]
Entries ==
    [resource : Automations, definition : Definitions, nextRunAt : {None}, runCount : Number,
     runs : {<<>>}, runsNextCursor : {None}, operations : {AutomationOperation}]
Changes ==
    [title : {None}, message : {None}, session : {None}, enabled : BOOLEAN, triggers : {None},
     disableConditions : {None}]

AutomationCreateRequestedAction ==
    [type : {"automation/createRequested"}, resource : Automations, definition : Definitions]
AutomationUpdateRequestedAction ==
    [type : {"automation/updateRequested"}, resource : Automations,
     changes : Changes]
AutomationSetAction     == [type : {"automation/set"}, automation : Entries]
AutomationRemovedAction == [type : {"automation/removed"}, resource : Automations]

\* A request changes nothing before the host answers it with a set.
automationReducer(state, action) ==
    CASE action.type \in {"automation/createRequested", "automation/updateRequested"} -> state
      [] action.type = "automation/set" ->
            [state EXCEPT !.entries = SetEntry(@, "resource", action.automation)]
      [] action.type = "automation/removed" ->
            [state EXCEPT !.entries = RemoveEntry(@, "resource", action.resource)]

AutomationRunState ==
    [origin : AutomationRunOrigin, lifecycle : AutomationRunLifecycle, sessions : Seq(RunSessions),
     primarySession : RunSessions \cup {None}]

AutomationRunLifecycleChangedAction ==
    [type : {"automationRun/lifecycleChanged"},
     lifecycle : {Sample(AutomationPendingRunLifecycle), Sample(AutomationRunningRunLifecycle),
                  Sample(AutomationCompletedRunLifecycle), Sample(AutomationFailedRunLifecycle),
                  Sample(AutomationCancelledRunLifecycle)}]
AutomationRunSessionSetAction     == [type : {"automationRun/sessionSet"}, session : RunSessions]
AutomationRunSessionRemovedAction == [type : {"automationRun/sessionRemoved"}, session : RunSessions]
AutomationRunPrimarySessionChangedAction ==
    [type : {"automationRun/primarySessionChanged"}, primarySession : RunSessions \cup {None}]
AutomationRunCancelRequestedAction == [type : {"automationRun/cancelRequested"}]

automationRunReducer(state, action) ==
    CASE action.type = "automationRun/lifecycleChanged" ->
            [state EXCEPT !.lifecycle = action.lifecycle]
      [] action.type = "automationRun/sessionSet" ->
            [state EXCEPT !.sessions = Include(@, action.session)]
      [] action.type = "automationRun/sessionRemoved" ->
            [state EXCEPT !.sessions = Exclude(@, action.session),
                          !.primarySession =
                              IF @ = action.session /\ Contains(state.sessions, @) THEN None ELSE @]
      [] action.type = "automationRun/primarySessionChanged" ->
            [state EXCEPT !.primarySession = action.primarySession]
      [] action.type = "automationRun/cancelRequested" -> state

-----------------------------------------------------------------------------
(* Canvas and resource watch.                                              *)

CanvasState == [canvasId : Values, title : Values \cup {None}]
CanvasStateChangedAction == [type : {"canvas/stateChanged"}, canvas : CanvasState]

canvasReducer(state, action) ==
    IF action.type = "canvas/stateChanged" THEN action.canvas ELSE state

ResourceWatchState == [root : Values, recursive : BOOLEAN]
ResourceChangeType == {"added", "updated", "deleted"}
ResourceChange     == [uri : URI, type : ResourceChangeType]
ResourceWatchChangedAction == [type : {"resourceWatch/changed"}, changes : ListOf(ResourceChange)]

\* The changes are events: the state stays as it is.
resourceWatchReducer(state, action) == state

=============================================================================
