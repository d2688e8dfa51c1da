\* Two requests at a relay that may be evicted after the first has timed out.
SPECIFICATION Spec
CONSTANTS
    Guest = {g1, g2}
    Visitor = {}
    MaxDials = 2
    MaxStreams = 2
    MaxMessages = 1
    Base = 9
    MaxChunk = 2
    Meta <- Metas
    Json <- JsonBytes
    Text <- SomeText
    JsonParse <- Parse
    Null = Null
    Undefined = Undefined
    Thrown = Thrown
    Hibernates = TRUE
CHECK_DEADLOCK FALSE
INVARIANTS
    OwnResponse
