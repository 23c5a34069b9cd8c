SPECIFICATION Spec
CONSTANTS
    None = None
    a = a  b = b  c = c  k1 = k1  k2 = k2  v1 = v1  v2 = v2  x1 = x1  x2 = x2
    d1 = d1  d2 = d2  d3 = d3
    Chats = {a, b, c}
    Providers = {x1}
    Clients = {x1, x2}
    Directories = {d1, d2, d3}
    RequestIds = {a, b}
    Keys = {k1, k2}
    Values = {v1, v2}
    Texts = {v1}
    Fields = {}
    Commands = {a, b}
    Chunks <- ThreeChunks
    FileIds = {a, b}
    OperationIds = {a, b}
    AnnotationIds = {a, b}
    EntryIds = {a, b}
    Automations = {a, b}
    RunSessions = {a, b}
    Turns = {a, b}
    PartIds = {a, b}
    OptionIds = {x1}
    AnswerTexts = {v1}
    PendingIds = {a, b, c}
    MaxOrder = 3
    MaxParts = 2
    MaxCalls = 1
INVARIANTS
    ListsStayConsistent
    StatusAgrees
    ContentComplete
    ReplacementIsExact
    PendingMessagesKept
PROPERTIES
    ApprovalStaysOnRecord
CHECK_DEADLOCK FALSE
