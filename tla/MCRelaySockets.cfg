\* Two visitors with two messages each way, over two tunnel sockets, at a
\* relay that may be evicted while their sockets live on.
SPECIFICATION Spec
CONSTANTS
    Guest = {}
    Visitor = {v1, v2}
    MaxDials = 2
    MaxStreams = 2
    MaxMessages = 2
    Base = 9
    MaxChunk = 2
    Meta <- Metas
    Json <- JsonBytes
    Text <- SomeText
    JsonParse <- Parse
    Null = Null
    Undefined = Undefined
    Thrown = Thrown
    Hibernates = TRUE
SYMMETRY Symmetry
\* Visitors open one socket each and tunnels are numbered: the model runs out.
CHECK_DEADLOCK FALSE
INVARIANTS
    OwnMessages
