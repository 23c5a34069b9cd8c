SPECIFICATION Spec
CONSTANTS
    HostIds <- MCHostIds
    Uris <- MCUris
    Automations <- MCAutomations
    Calls = {c1, c2}
    Explicit = {99}
    MaxRuntimes = 2
    MaxMirrored = 2
    MaxActions = 1
    MaxCrashes = 1
SYMMETRY CallSymmetry
INVARIANTS
    IdentityPersisted
    NoHostEscapes
    MirrorKeepsHostsApart
CHECK_DEADLOCK FALSE
