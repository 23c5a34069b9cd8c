-------------------------- MODULE ProtocolVersions --------------------------
(***************************************************************************)
(* Protocol versions (types/version/registry.ts): how client and host agree  *)
(* on one, and which actions and notifications it knows.                     *)
(*                                                                           *)
(* A version is the triple of its numbers; a string that is not a version is *)
(* None.                                                                     *)
(***************************************************************************)
EXTENDS ActionOrigins

SUPPORTED_PROTOCOL_VERSIONS == <<<<1, 0, 0>>, <<0, 9, 0>>>>

\* The three numbers of a version; throws on any other string.
parseSemver(version) == [throws |-> version = None, numbers |-> version]

\* The sign of the first difference.
compareProtocolVersions(left, right) ==
    LET differ == {k \in 1..3 : left[k] # right[k]}
    IN  IF differ = {} THEN 0 ELSE left[Min(differ)] - right[Min(differ)]

\* Faulty: takes the newest baseline for the only one.
FaultyCompatible(version) == version[1] = SUPPORTED_PROTOCOL_VERSIONS[1][1]

\* A later release of some baseline: same major version, for 0.y.z the same
\* minor, for 0.0.z the same patch.
Compatible(version) ==
    \E baseline \in ToSet(SUPPORTED_PROTOCOL_VERSIONS) :
        /\ version[1] = baseline[1]
        /\ version[1] > 0 \/ version[2] = baseline[2]
        /\ version[1] > 0 \/ version[2] > 0 \/ version[3] = baseline[3]
        /\ compareProtocolVersions(version, baseline) >= 0

\* The highest compatible offer, None without one; any string that is not a
\* version makes it throw.
negotiateProtocolVersion(offered) ==
    LET Select(selected, version) ==
            IF Compatible(version)
               /\ (selected = None \/ compareProtocolVersions(version, selected) > 0)
            THEN version ELSE selected
        throws == \E k \in DOMAIN offered : parseSemver(offered[k]).throws
    IN  [throws |-> throws, version |-> IF throws THEN None ELSE FoldLeft(Select, None, offered)]

-----------------------------------------------------------------------------
(* What each version introduced.                                           *)

At(minor, patch, types) == [t \in types |-> <<0, minor, patch>>]

ACTION_INTRODUCED_IN ==
    LET new ==
        [t \in {"chat/configChanged", "chat/moved"} |-> <<1, 1, 0>>]
        @@ At(10, 0, {"chat/canvasesChanged", "canvas/stateChanged"})
        @@ At(9, 0, {"session/chatsReordered", "session/mcpServerBackgroundRequested",
                     "chat/turnResume", "chat/backgroundWorkSet", "chat/backgroundWorkRemoved",
                     "chat/movableChanged", "chat/changesetsChanged", "chat/isReadChanged",
                     "chat/isArchivedChanged"})
        @@ At(8, 0, {"session/workingDirectoryReplaced"} \cup TypesOf(AutomationAction)
                        \cup TypesOf(AutomationRunAction))
        @@ At(7, 0, {"session/workingDirectorySet", "session/workingDirectoryRemoved",
                     "chat/workingDirectorySet", "chat/workingDirectoryRemoved"})
        @@ At(6, 0, {"chat/toolCallAuthRequired", "chat/toolCallAuthResolved",
                     "changeset/filesReviewChanged"})
        @@ At(5, 2, {"session/mcpServerStartRequested", "session/mcpServerStopRequested"})
        @@ At(5, 1, {"session/inputNeededSet", "session/inputNeededRemoved", "chat/turnsLoaded"})
        @@ At(5, 0, {"session/activeClientSet", "session/activeClientRemoved",
                     "chat/activityChanged", "chat/draftChanged"})
        @@ At(4, 0, {"session/chatAdded", "session/chatRemoved", "session/chatUpdated",
                     "session/defaultChatChanged", "changeset/contentChanged"}
                        \cup TypesOf(AnnotationsAction))
        @@ At(3, 0, {"session/mcpServerStateChanged", "changeset/operationStatusChanged"})
        @@ At(2, 0, {"session/customizationRemoved", "session/changesetsChanged",
                     "resourceWatch/changed"})
    IN  new @@ At(4, 0, ChatTypes) @@ At(2, 0, TypesOf(ChangesetAction)) @@ At(1, 0, ActionType)

isActionKnownToVersion(action, clientVersion) ==
    compareProtocolVersions(ACTION_INTRODUCED_IN[action.type], clientVersion) <= 0

NOTIFICATION_INTRODUCED_IN ==
    [m \in {"channel/frame", "channel/credit", "channel/snapshot", "tcp/data", "tcp/eof", "tcp/reset"}
        |-> <<1, 1, 0>>]
    @@ At(5, 0, {"root/progress"})
    @@ At(2, 0, {"otlp/exportLogs", "otlp/exportTraces", "otlp/exportMetrics"})
    @@ At(1, 0, {"root/sessionAdded", "root/sessionRemoved", "root/sessionSummaryChanged",
                 "auth/required"})

isNotificationKnownToVersion(method, clientVersion) ==
    compareProtocolVersions(NOTIFICATION_INTRODUCED_IN[method], clientVersion) <= 0

=============================================================================
