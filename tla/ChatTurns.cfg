SPECIFICATION Spec
CONSTANTS
    OlderTurns = 2
    MaxTurns = 1
    MaxParts = 3
    ToolIds = {k1, k2}
    InputIds = {r1}
    Flags = {"read"}
    GenericParts <- SentParts
SYMMETRY IdSymmetry
INVARIANTS
    StatusFollowsTurn
    HistoryIsSettled
PROPERTIES
    TranscriptAppendOnly
