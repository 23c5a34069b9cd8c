SPECIFICATION FairSpec
CONSTANTS
    Uris = {}
    Handles = {}
    MaxRequests = 1
    MaxEvents = 0
    MaxServerRequests = 1
    MaxDispatches = 2
    MaxSending = 1
    Timeouts = TRUE
    CloseMayFail = TRUE
INVARIANTS
    FreshClientSeq
PROPERTIES
    CallsSettle
    ServerAnsweredOnce
CHECK_DEADLOCK FALSE
