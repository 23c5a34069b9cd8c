SPECIFICATION Spec
CONSTANTS
    Readers = {r1, r2}
    BufferLimit = 2
    MaxPublished = 2
    MaxOutstanding = 1
CHECK_DEADLOCK FALSE
INVARIANTS
    ReturnSettlesNext
