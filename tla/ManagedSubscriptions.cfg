SPECIFICATION Spec
CONSTANTS
    Uris = {u1}
    Options = {o1, o2}
    MaxEntries = 2
    MaxLeases = 3
    MaxEvents = 2
INVARIANTS
    MapMatchesLifecycle
    OneWireSubscription
    LeaseGetsTheRest
PROPERTIES
    EverythingSettles
CHECK_DEADLOCK FALSE
