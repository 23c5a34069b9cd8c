SPECIFICATION FairSpec
CONSTANTS
    Readers = {r1, r2}
    BufferLimit = 2
    MaxPublished = 4
    MaxOutstanding = 1
CHECK_DEADLOCK FALSE
INVARIANTS
    BufferAligned
    StreamsSound
PROPERTIES
    ImplementsMailboxes
    ClosedReachesReaders
