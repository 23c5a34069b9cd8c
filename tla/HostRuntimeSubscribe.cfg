SPECIFICATION Spec
CONSTANTS
    Root = root
    Uris = {u1}
    Sessions = {}
    Policies <- MCPolicies
    Reasons = {"removed"}
    MaxSeq = 2
    MaxSteps = 2
    MaxConnects = 2
    MaxReconnects = 1
    MaxHandles = 1
INVARIANT
    TrackedIsSubscribed
CHECK_DEADLOCK FALSE
