SPECIFICATION FairSpec
CONSTANTS
    Devices = {desktop, phone}
    Host = host
    MaxEmits = 2
    MaxDispatch = 2
    MaxDrops = 2
CHECK_DEADLOCK FALSE
INVARIANTS
    ConfirmedSideSound
    OptimisticSideSound
PROPERTIES
    EventuallyConverged
