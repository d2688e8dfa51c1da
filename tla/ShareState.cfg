\* Three ids, so that an invitation is deleted and another minted while a third
\* is live; one RPC waits behind a running one, which may invalidate it.
CONSTANTS
    Token = {t1, t2, t3}
    Thread = {h1}
    Perm = {"read", "write"}
    MaxQueue = 1
SPECIFICATION Spec
INVARIANTS
    LiveIsDurable
    BearersKnown
PROPERTIES
    ImplementsLedger
    ImplementsLiveShares
    QueueDrains
