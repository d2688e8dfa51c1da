\* Three requests over two tunnel sockets and a client that serves two at once.
SPECIFICATION Spec
CONSTANTS
    Guest = {g1, g2, g3}
    Visitor = {}
    MaxDials = 2
    MaxStreams = 2
    MaxMessages = 1
    Base = 9
    MaxChunk = 2
    Meta <- Metas
    Json <- JsonBytes
    Text <- SomeText
    JsonParse <- Parse
    Null = Null
    Undefined = Undefined
    Thrown = Thrown
    Hibernates = FALSE
SYMMETRY Symmetry
\* Guests make one request each and tunnels are numbered: the model runs out.
CHECK_DEADLOCK FALSE
INVARIANTS
    OwnResponse
    OnlyMetadataRejected
