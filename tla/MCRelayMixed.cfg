\* A request and a visitor who share a tunnel that may be lost and a relay that
\* may be evicted: what either is promised, and what ends for either.
SPECIFICATION Spec
CONSTANTS
    Guest = {g1}
    Visitor = {v1}
    MaxDials = 2
    MaxStreams = 2
    MaxMessages = 1
    Base = 9
    MaxChunk = 2
    Meta <- Metas
    Json <- JsonBytes
    Text <- SomeText
    JsonParse <- Parse
    Null = Null
    Undefined = Undefined
    Thrown = Thrown
    Hibernates = TRUE
\* The guest makes one request and tunnels are numbered: the model runs out.
CHECK_DEADLOCK FALSE
PROPERTIES
    ImplementsService
    EveryRequestAnswered
    NoBodyHangs
    GuestsReleased
