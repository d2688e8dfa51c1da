\* macOS, where the security command may be missing at a start: both providers.
CONSTANTS
    Darwin = TRUE
    Faults = {"cli"}
    MaxKeys = 3
    MaxValue = 3
    None = None
    Damaged = Damaged
    Plain = Plain
    Foreign = Foreign
SPECIFICATION KeysSpec
INVARIANTS
    NoKeyLost
PROPERTIES
    NothingLost
