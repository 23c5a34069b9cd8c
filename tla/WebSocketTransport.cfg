SPECIFICATION Spec
CONSTANTS
    None = None
    a = a  r1 = r1  r2 = r2
    Chats = {a}
    Providers = {a}
    Clients = {a}
    Directories = {a}
    RequestIds = {a}
    Keys = {a}
    Values = {a}
    Texts = {a}
    Fields = {}
    Commands = {a}
    Chunks <- OneChunk
    FileIds = {a}
    OperationIds = {a}
    AnnotationIds = {a}
    EntryIds = {a}
    Automations = {a}
    RunSessions = {a}
    Turns = {a}
    PartIds = {a}
    OptionIds = {a}
    AnswerTexts = {a}
    PendingIds = {a}
    MaxOrder = 1
    Readers = {r1, r2}
    Loop = r1
    Offers <- SomeOffers
    Asks <- SomeAsks
    ServerAsks <- SomeServerAsks
    News <- SomeNews
    MaxFrames = 3
    MaxRequests = 2
INVARIANTS
    TransportContract
    RoutedAsMeant
PROPERTIES
    NegotiationIsBest
    ClosedIsNoticed
CHECK_DEADLOCK FALSE
