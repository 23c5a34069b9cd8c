SPECIFICATION Spec
CONSTANTS
    Uris = {u1}
    Handles = {h1, h2}
    MaxRequests = 2
    MaxEvents = 2
    MaxServerRequests = 0
    MaxDispatches = 0
    MaxSending = 1
    Timeouts = TRUE
    CloseMayFail = FALSE
SYMMETRY HandleSymmetry
INVARIANTS
    NothingMissed
    ClosedLeavesNothing
PROPERTIES
    SettlesOnce
CHECK_DEADLOCK FALSE
