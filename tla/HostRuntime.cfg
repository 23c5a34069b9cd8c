SPECIFICATION Spec
CONSTANTS
    Root = root
    Uris = {u1}
    Sessions = {s1}
    Policies <- MCPolicies
    Reasons = {"removed"}
    MaxSeq = 2
    MaxSteps = 2
    MaxConnects = 2
    MaxReconnects = 1
    MaxHandles = 1
INVARIANTS
    MirrorsFollowServer
    NoClientLeft
    HandlesStayCurrent
    GivesUpAsConfigured
PROPERTIES
    CallsReturn
CHECK_DEADLOCK FALSE
