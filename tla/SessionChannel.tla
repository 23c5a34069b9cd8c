--------------------------- MODULE SessionChannel ---------------------------
(***************************************************************************)
(* The session channel: SessionState and the actions of                      *)
(* types/channels-session, and sessionReducer.                               *)
(*                                                                           *)
(* The status bit set is the set of its bits, so the reducer's masks are set *)
(* operations.  A list that is absent is None or empty.  Of a type whose     *)
(* content the reducer only carries, the actions bring one sample.           *)
(***************************************************************************)
EXTENDS ProtocolTypes

CONSTANTS
    RequestIds,     \* ids of session input requests
    Keys, Values    \* configuration keys, and opaque values

ConfigValues == UNION {[ks -> Values] : ks \in SUBSET Keys}

-----------------------------------------------------------------------------
(* State.                                                                  *)

SessionLifecycle == {"creating", "ready", "failed"}

\* STATUS_ACTIVITY_MASK, and the values of SessionStatus as sets of bits.
ActivityMask == {"idle", "error", "reserved", "inProgress", "inputNeeded"}
SessionStatus ==
    [Idle |-> {"idle"}, Error |-> {"error"}, InProgress |-> {"inProgress"},
     InputNeeded |-> {"inProgress", "inputNeeded"},
     IsRead |-> {"read"}, IsArchived |-> {"archived"}]
Activities == {SessionStatus[a] : a \in {"Idle", "Error", "InProgress", "InputNeeded"}}

StatusBits == SUBSET (ActivityMask \cup {"read", "archived"})

\* What a session's catalogue entry and its state have in common.
SessionMetadata ==
    [provider : Providers, title : Values, status : StatusBits, activity : Maybe(Values),
     origin : Maybe(SessionOrigin), project : Maybe(ProjectInfo),
     workingDirectories : Maybe(Seq(Directories)), annotations : Maybe(AnnotationsSummary)]

ChatSummary == [resource : Chats, provider : Providers, title : Values]

\* SessionInputRequestBase with its discriminant.
SessionInputRequestBase(kind) == [id : RequestIds, chat : Chats, kind : {kind}]
SessionChatInputRequest           == SessionInputRequestBase("chatInput")
SessionToolConfirmationRequest    == SessionInputRequestBase("toolConfirmation")
SessionToolClientExecutionRequest == SessionInputRequestBase("toolClientExecution")
SessionToolAuthenticationRequest  == SessionInputRequestBase("toolAuthentication")
SessionInputRequest ==
    SessionChatInputRequest \cup SessionToolConfirmationRequest
        \cup SessionToolClientExecutionRequest \cup SessionToolAuthenticationRequest

SessionConfigState == [values : ConfigValues]

CustomizationEnablementKind == {"global", "workspace", "session"}
CustomizationEnablement == [kind : CustomizationEnablementKind, enabled : BOOLEAN]

McpServerStartingState     == [kind : {"starting"}, blocking : BOOLEAN]
McpServerReadyState        == [kind : {"ready"}]
McpAuthRequiredReason      == {"required", "expired", "insufficientScope"}
McpOAuthClient             == [clientId : Texts, clientSecret : Maybe(Texts)]
McpAuthRequirement ==
    [reason : McpAuthRequiredReason, oauthClient : Maybe(McpOAuthClient),
     resource : ProtectedResourceMetadata, requiredScopes : Maybe(ListOf(Texts)),
     description : Maybe(Texts)]
McpServerAuthRequiredState == [kind : {"authRequired"}, base : McpAuthRequirement]
McpServerErrorState        == [kind : {"error"}, error : ErrorInfo]
McpServerStoppedState      == [kind : {"stopped"}]
McpServerState ==
    McpServerStartingState \cup McpServerReadyState \cup McpServerAuthRequiredState
        \cup McpServerErrorState \cup McpServerStoppedState

\* The id of a customization is a field of its own.
CustomizationBase ==
    [uri : URI, name : Texts, icons : Maybe(ListOf(Icon)), range : Maybe(TextRange)]
CustomizationLoadingState  == [kind : {"loading"}]
CustomizationLoadedState   == [kind : {"loaded"}]
CustomizationDegradedState == [kind : {"degraded"}, message : Texts]
CustomizationErrorState    == [kind : {"error"}, message : Texts]
CustomizationLoadState ==
    CustomizationLoadingState \cup CustomizationLoadedState \cup CustomizationDegradedState
        \cup CustomizationErrorState
ContainerCustomizationBase ==
    [base : CustomizationBase, clientId : Maybe(Clients), load : Maybe(CustomizationLoadState)]
AhpMcpUiHostCapabilities ==
    LET listing == Maybe([listChanged : Maybe(BOOLEAN)])
    IN  [serverTools : listing, serverResources : listing, logging : Maybe(EmptyState),
         sampling : Maybe([tools : Maybe(EmptyState)])]
McpServerCustomizationApps == [capabilities : AhpMcpUiHostCapabilities]

ChildCustomizationType == {"agent", "skill", "prompt", "rule", "hook", "mcpServer"}

\* A child other than an MCP server is enabled or not; its texts are left out.
ChildCustomizationBase(type) ==
    [type : {type}, id : STRING, enabled : BOOLEAN, base : CustomizationBase]
AgentCustomization  == ChildCustomizationBase("agent")
SkillCustomization  == ChildCustomizationBase("skill")
PromptCustomization == ChildCustomizationBase("prompt")
RuleCustomization   == ChildCustomizationBase("rule")
HookCustomization   == ChildCustomizationBase("hook")
McpServerCustomization ==
    [type : {"mcpServer"}, id : STRING, base : CustomizationBase,
     enablement : Seq(CustomizationEnablement), mcpApp : Maybe(McpServerCustomizationApps),
     state : McpServerState, channel : Values \cup {None}, children : Seq(SkillCustomization)]
ChildCustomization ==
    AgentCustomization \cup SkillCustomization \cup PromptCustomization
        \cup RuleCustomization \cup HookCustomization \cup McpServerCustomization
PluginCustomization ==
    [type : {"plugin"}, id : STRING, base : ContainerCustomizationBase, version : Maybe(Texts),
     enablement : Seq(CustomizationEnablement), children : Seq(ChildCustomization)]
\* A plugin that a client brings.
ClientPluginCustomization ==
    [plugin : PluginCustomization, nonce : Maybe(Texts),
     childEnablement : Maybe(MapOf(ListOf(CustomizationEnablement)))]
DirectoryCustomization ==
    [type : {"directory"}, id : STRING, base : ContainerCustomizationBase, enabled : BOOLEAN,
     contents : ChildCustomizationType, writable : BOOLEAN, children : Seq(ChildCustomization)]
Customization == PluginCustomization \cup DirectoryCustomization \cup McpServerCustomization

SessionActiveClient ==
    [clientId : Clients, displayName : Maybe(Texts), tools : ListOf(ToolDefinition),
     customizations : Maybe(Seq(ClientPluginCustomization))]

SessionState ==
    [lifecycle : SessionLifecycle, creationError : Maybe(ErrorInfo),
     title : Values, status : StatusBits,
     activity : Maybe(Values), changesets : Maybe(ListOf(Changeset)),
     meta : Maybe(Values), serverTools : Maybe(ListOf(ToolDefinition)),
     config : SessionConfigState \cup {None},
     chats : Seq(ChatSummary), defaultChat : Chats \cup {None},
     activeClients : Seq(SessionActiveClient), workingDirectories : Seq(Directories),
     inputNeeded : Seq(SessionInputRequest), customizations : Seq(Customization)]

-----------------------------------------------------------------------------
(* Actions.                                                                *)

SessionReadyAction          == [type : {"session/ready"}]
SessionCreationFailedAction == [type : {"session/creationFailed"}, error : {Sample(ErrorInfo)}]
SessionTitleChangedAction      == [type : {"session/titleChanged"}, title : Values]
SessionIsReadChangedAction     == [type : {"session/isReadChanged"}, isRead : BOOLEAN]
SessionIsArchivedChangedAction == [type : {"session/isArchivedChanged"}, isArchived : BOOLEAN]
SessionActivityChangedAction   == [type : {"session/activityChanged"}, activity : Values \cup {None}]
SessionChangesetsChangedAction ==
    [type : {"session/changesetsChanged"}, changesets : {None, <<>>, <<Sample(Changeset)>>}]
SessionMetaChangedAction        == [type : {"session/metaChanged"}, meta : Values \cup {None}]
SessionServerToolsChangedAction == [type : {"session/serverToolsChanged"}, tools : SampleLists(ToolDefinition)]
SessionConfigChangedAction ==
    [type : {"session/configChanged"}, config : ConfigValues, replace : BOOLEAN]

SessionChatAddedAction   == [type : {"session/chatAdded"}, summary : ChatSummary]
SessionChatRemovedAction == [type : {"session/chatRemoved"}, chat : Chats]
\* Partial<ChatSummary>: any of its fields, the identity fields included.
SessionChatUpdatedAction ==
    [type : {"session/chatUpdated"}, chat : Chats,
     changes : [resource : Chats] \cup [provider : Providers, title : Values]]
SessionChatsReorderedAction ==
    [type : {"session/chatsReordered"},
     chats : UNION {[1..n -> Chats] : n \in 1..Cardinality(Chats)}]
SessionDefaultChatChangedAction ==
    [type : {"session/defaultChatChanged"}, defaultChat : Chats \cup {None}]

SessionActiveClientSetAction ==
    [type : {"session/activeClientSet"},
     activeClient : [clientId : Clients, displayName : {None}, tools : SampleLists(ToolDefinition),
                     customizations : {None}]]
SessionActiveClientRemovedAction ==
    [type : {"session/activeClientRemoved"}, clientId : Clients]

SessionWorkingDirectorySetAction ==
    [type : {"session/workingDirectorySet"}, directory : Directories]
SessionWorkingDirectoryRemovedAction ==
    [type : {"session/workingDirectoryRemoved"}, directory : Directories]
SessionWorkingDirectoryReplacedAction ==
    [type : {"session/workingDirectoryReplaced"}, directory : Directories, replacement : Directories]

SessionInputNeededSetAction ==
    [type : {"session/inputNeededSet"}, request : SessionInputRequest]
SessionInputNeededRemovedAction == [type : {"session/inputNeededRemoved"}, id : RequestIds]

\* The customizations a host offers: a plugin with a skill and an MCP server
\* that serves a skill, a directory with a rule, and an MCP server.
Off    == <<[kind |-> "session", enabled |-> FALSE]>>
Child(type, id) ==
    [type |-> type, id |-> id, enabled |-> TRUE, base |-> Sample(CustomizationBase)]
Server(id, skill) ==
    [type |-> "mcpServer", id |-> id, base |-> Sample(CustomizationBase), enablement |-> <<>>,
     mcpApp |-> Sample(McpServerCustomizationApps), channel |-> None,
     state |-> [kind |-> "starting", blocking |-> TRUE], children |-> <<Child("skill", skill)>>]
Offered ==
    LET base == Sample(ContainerCustomizationBase) IN
    {[type |-> "plugin", id |-> "plugin", base |-> base, version |-> None, enablement |-> <<>>,
      children |-> <<Child("prompt", "prompt"), Server("inner", "innerSkill")>>],
     [type |-> "directory", id |-> "directory", base |-> base, enabled |-> TRUE, contents |-> "rule",
      writable |-> FALSE, children |-> <<Child("rule", "rule")>>],
     Server("server", "skill")}
CustomizationIds ==
    {"plugin", "prompt", "inner", "innerSkill", "directory", "rule", "server", "skill"}

SessionCustomizationsChangedAction ==
    [type : {"session/customizationsChanged"},
     customizations : {<<>>} \cup {l \in [1..2 -> Offered] : l[1] # l[2]}]
SessionCustomizationToggledAction ==
    [type : {"session/customizationToggled"}, id : CustomizationIds,
     enablement : {<<>>, Off, <<[kind |-> "global", enabled |-> TRUE]>> \o Off}]
SessionCustomizationUpdatedAction ==
    [type : {"session/customizationUpdated"}, customization : Offered]
SessionCustomizationRemovedAction ==
    [type : {"session/customizationRemoved"}, id : CustomizationIds]
\* A host offers a side channel only while the server is ready.
ServerStates ==
    McpServerStartingState \cup McpServerReadyState \cup McpServerStoppedState
        \cup {Sample(McpServerAuthRequiredState), Sample(McpServerErrorState)}
SessionMcpServerStateChangedAction ==
    [type : {"session/mcpServerStateChanged"}, id : CustomizationIds,
     state : McpServerReadyState, channel : Values]
    \cup [type : {"session/mcpServerStateChanged"}, id : CustomizationIds,
          state : ServerStates, channel : {None}]
SessionMcpServerStartRequestedAction ==
    [type : {"session/mcpServerStartRequested"}, id : CustomizationIds]
SessionMcpServerBackgroundRequestedAction ==
    [type : {"session/mcpServerBackgroundRequested"}, id : CustomizationIds]
SessionMcpServerStopRequestedAction ==
    [type : {"session/mcpServerStopRequested"}, id : CustomizationIds]

-----------------------------------------------------------------------------
(* Helpers of the reducer.                                                 *)

withStatusFlag(status, flag, set) == IF set THEN status \cup flag ELSE status \ flag

\* A tool call a client executes is not a prompt to the user.
awaitsUser(request) == request.kind # "toolClientExecution"

\* Faulty: leaves the other activity bits in place.
FaultyWithInputNeededStatus(status, inputNeeded) ==
    IF \E i \in DOMAIN inputNeeded : awaitsUser(inputNeeded[i])
    THEN status \cup SessionStatus.InputNeeded
    ELSE status \ (SessionStatus.InputNeeded \ SessionStatus.InProgress)

withInputNeededStatus(status, inputNeeded) ==
    IF \E i \in DOMAIN inputNeeded : awaitsUser(inputNeeded[i])
    THEN (status \ ActivityMask) \cup SessionStatus.InputNeeded
    ELSE status \ (SessionStatus.InputNeeded \ SessionStatus.InProgress)

\* Plugins and MCP servers keep the decisions, the others derive `enabled`.
applyCustomizationEnablement(c, enablement) ==
    IF c.type \in {"plugin", "mcpServer"} THEN [c EXCEPT !.enablement = enablement]
    ELSE [c EXCEPT !.enabled = IF enablement = <<>> THEN TRUE ELSE Head(enablement).enabled]

HasChild(c, id) == FindIndex(c.children, "id", id) # 0

toggleMcpServerSkill(server, id, enablement) ==
    [server EXCEPT !.children = [k \in DOMAIN @ |->
        IF k = FindIndex(server.children, "id", id)
        THEN applyCustomizationEnablement(@[k], enablement) ELSE @[k]]]

\* The positions of the MCP servers of a container that serve skill id.
ServersOf(container, id) ==
    {k \in DOMAIN container.children :
        container.children[k].type = "mcpServer" /\ HasChild(container.children[k], id)}

\* A child, or else a skill of an MCP server child.
toggleContainerChild(container, id, enablement) ==
    IF HasChild(container, id)
    THEN [container EXCEPT !.children[FindIndex(container.children, "id", id)] =
             applyCustomizationEnablement(@, enablement)]
    ELSE LET k == Min(ServersOf(container, id))
         IN  [container EXCEPT !.children[k] = toggleMcpServerSkill(@, id, enablement)]

\* Whether the entry c of the list is found to hold id below itself.
HoldsBelow(c, id) ==
    HasChild(c, id) \/ (c.type # "mcpServer" /\ ServersOf(c, id) # {})

Toggled(list, id, enablement) ==
    LET top == FindIndex(list, "id", id)
        below == {k \in DOMAIN list : HoldsBelow(list[k], id)}
    IN  IF top # 0 THEN [list EXCEPT ![top] = applyCustomizationEnablement(@, enablement)]
        ELSE IF below = {} THEN list
        ELSE [list EXCEPT ![Min(below)] =
                IF @.type = "mcpServer" THEN toggleMcpServerSkill(@, id, enablement)
                ELSE toggleContainerChild(@, id, enablement)]

\* A top-level entry, or else the child of every container that has it.
CustomizationRemoved(list, id) ==
    IF FindIndex(list, "id", id) # 0 THEN RemoveEntry(list, "id", id)
    ELSE [k \in DOMAIN list |->
            IF list[k].type = "mcpServer" THEN list[k]
            ELSE [list[k] EXCEPT !.children = RemoveEntry(@, "id", id)]]

\* The changes of the MCP actions to the server's entry.
ServerAfter(entry, action) ==
    CASE action.type = "session/mcpServerStateChanged" ->
            [entry EXCEPT !.state = action.state, !.channel = action.channel]
      [] action.type = "session/mcpServerStartRequested" ->
            [entry EXCEPT !.state = [kind |-> "starting", blocking |-> FALSE], !.channel = None]
      [] action.type = "session/mcpServerBackgroundRequested" ->
            IF entry.state.kind = "starting" THEN [entry EXCEPT !.state.blocking = FALSE] ELSE entry
      [] action.type = "session/mcpServerStopRequested" ->
            [entry EXCEPT !.state = [kind |-> "stopped"], !.channel = None]


\* The action's entry at the top level, or else below every container that has
\* it; an entry of another type is left alone.
updateMcpServerCustomization(list, action) ==
    LET At(l) == FindIndex(l, "id", action.id)
        Update(c) == IF c.type = "mcpServer" THEN ServerAfter(c, action) ELSE c
    IN  IF At(list) # 0 THEN [list EXCEPT ![At(list)] = Update(@)]
        ELSE [k \in DOMAIN list |->
                IF list[k].type = "mcpServer" \/ At(list[k].children) = 0 THEN list[k]
                ELSE [list[k] EXCEPT !.children[At(list[k].children)] = Update(@)]]

\* The identity fields of a summary are not part of an update.
ChatUpdated(list, chat, changes) ==
    LET i == FindIndex(list, "resource", chat)
        fields == DOMAIN changes \ {"resource", "provider"}
    IN  IF i = 0 THEN list
        ELSE [list EXCEPT ![i] = [f \in DOMAIN @ |-> IF f \in fields THEN changes[f] ELSE @[f]]]

\* Taken only when it names every chat exactly once.
ChatsReordered(list, order) ==
    IF \/ Len(order) # Len(list) \/ ~IsInjective(order)
       \/ \E k \in DOMAIN order : FindIndex(list, "resource", order[k]) = 0
    THEN list
    ELSE [k \in DOMAIN order |-> list[FindIndex(list, "resource", order[k])]]

\* Faulty: a replacement that is already listed stays where it was, too.
FaultyDirectoryReplaced(list, directory, replacement) ==
    [k \in DOMAIN list |-> IF list[k] = directory THEN replacement ELSE list[k]]

\* A replacement that is listed before the target keeps its place; one that is
\* listed after it moves to the target's.
DirectoryReplaced(list, directory, replacement) ==
    LET target == SelectInSeq(list, LAMBDA d : d = directory)
        earlier == SelectInSeq(list, LAMBDA d : d = replacement)
    IN  IF target = 0 THEN list
        ELSE IF earlier \in 1..(target - 1) THEN RemoveAt(list, target)
        ELSE SelectSeq(SubSeq(list, 1, target - 1), LAMBDA d : d # replacement)
                \o <<replacement>>
                \o SelectSeq(SubSeq(list, target + 1, Len(list)), LAMBDA d : d # replacement)

-----------------------------------------------------------------------------
(* The reducer.                                                            *)

MetadataReduced(state, action) ==
    CASE action.type = "session/ready" -> [state EXCEPT !.lifecycle = "ready"]
      [] action.type = "session/creationFailed" ->
            [state EXCEPT !.lifecycle = "failed", !.creationError = action.error]
      [] action.type = "session/titleChanged" -> [state EXCEPT !.title = action.title]
      [] action.type = "session/isReadChanged" ->
            [state EXCEPT !.status = withStatusFlag(@, SessionStatus.IsRead, action.isRead)]
      [] action.type = "session/isArchivedChanged" ->
            [state EXCEPT !.status = withStatusFlag(@, SessionStatus.IsArchived, action.isArchived)]
      [] action.type = "session/activityChanged" -> [state EXCEPT !.activity = action.activity]
      [] action.type = "session/changesetsChanged" -> [state EXCEPT !.changesets = action.changesets]
      [] action.type = "session/metaChanged" -> [state EXCEPT !.meta = action.meta]
      [] action.type = "session/serverToolsChanged" -> [state EXCEPT !.serverTools = action.tools]
      [] action.type = "session/configChanged" ->
            IF state.config = None THEN state
            ELSE [state EXCEPT !.config.values = MergeValues(@, action.config, action.replace)]

ChatsReduced(state, action) ==
    CASE action.type = "session/chatAdded" ->
            [state EXCEPT !.chats = SetEntry(@, "resource", action.summary)]
      [] action.type = "session/chatRemoved" ->
            IF FindIndex(state.chats, "resource", action.chat) = 0 THEN state
            ELSE [state EXCEPT !.chats = RemoveEntry(@, "resource", action.chat),
                               !.defaultChat = IF @ = action.chat THEN None ELSE @]
      [] action.type = "session/chatUpdated" ->
            [state EXCEPT !.chats = ChatUpdated(@, action.chat, action.changes)]
      [] action.type = "session/chatsReordered" ->
            [state EXCEPT !.chats = ChatsReordered(@, action.chats)]
      [] action.type = "session/defaultChatChanged" ->
            [state EXCEPT !.defaultChat = action.defaultChat]

ClientsReduced(state, action) ==
    CASE action.type = "session/activeClientSet" ->
            [state EXCEPT !.activeClients = SetEntry(@, "clientId", action.activeClient)]
      [] action.type = "session/activeClientRemoved" ->
            [state EXCEPT !.activeClients = RemoveEntry(@, "clientId", action.clientId)]

DirectoriesReduced(state, action) ==
    CASE action.type = "session/workingDirectorySet" ->
            [state EXCEPT !.workingDirectories = Include(@, action.directory)]
      [] action.type = "session/workingDirectoryRemoved" ->
            [state EXCEPT !.workingDirectories = Exclude(@, action.directory)]
      [] action.type = "session/workingDirectoryReplaced" ->
            [state EXCEPT !.workingDirectories =
                DirectoryReplaced(@, action.directory, action.replacement)]

\* Removing an entry that is not there does not refresh the status.
InputsReduced(state, action) ==
    LET list == IF action.type = "session/inputNeededSet"
                THEN SetEntry(state.inputNeeded, "id", action.request)
                ELSE RemoveEntry(state.inputNeeded, "id", action.id)
    IN  IF action.type = "session/inputNeededRemoved" /\ list = state.inputNeeded THEN state
        ELSE [state EXCEPT !.inputNeeded = list, !.status = withInputNeededStatus(@, list)]

CustomizationsReduced(state, action) ==
    [state EXCEPT !.customizations =
        CASE action.type = "session/customizationsChanged" -> action.customizations
          [] action.type = "session/customizationToggled" -> Toggled(@, action.id, action.enablement)
          [] action.type = "session/customizationUpdated" -> SetEntry(@, "id", action.customization)
          [] action.type = "session/customizationRemoved" -> CustomizationRemoved(@, action.id)
          [] OTHER -> updateMcpServerCustomization(@, action)]

\* The actions by the part of the state they change.
MetadataActions ==
    SessionReadyAction \cup SessionCreationFailedAction \cup SessionTitleChangedAction
        \cup SessionIsReadChangedAction \cup SessionIsArchivedChangedAction
        \cup SessionActivityChangedAction \cup SessionChangesetsChangedAction
        \cup SessionMetaChangedAction \cup SessionServerToolsChangedAction
        \cup SessionConfigChangedAction
ChatCatalogActions ==
    SessionChatAddedAction \cup SessionChatRemovedAction \cup SessionChatUpdatedAction
        \cup SessionChatsReorderedAction \cup SessionDefaultChatChangedAction
ClientActions == SessionActiveClientSetAction \cup SessionActiveClientRemovedAction
DirectoryActions ==
    SessionWorkingDirectorySetAction \cup SessionWorkingDirectoryRemovedAction
        \cup SessionWorkingDirectoryReplacedAction
InputActions == SessionInputNeededSetAction \cup SessionInputNeededRemovedAction
CustomizationActions ==
    SessionCustomizationsChangedAction \cup SessionCustomizationToggledAction
        \cup SessionCustomizationUpdatedAction \cup SessionCustomizationRemovedAction
McpActions ==
    SessionMcpServerStateChangedAction \cup SessionMcpServerStartRequestedAction
        \cup SessionMcpServerBackgroundRequestedAction \cup SessionMcpServerStopRequestedAction

sessionReducer(state, action) ==
    CASE action \in MetadataActions  -> MetadataReduced(state, action)
      [] action \in ChatCatalogActions -> ChatsReduced(state, action)
      [] action \in ClientActions    -> ClientsReduced(state, action)
      [] action \in DirectoryActions -> DirectoriesReduced(state, action)
      [] action \in InputActions     -> InputsReduced(state, action)
      [] OTHER                       -> CustomizationsReduced(state, action)

=============================================================================
