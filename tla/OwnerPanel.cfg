\* One thread and one invitation, which may be deleted or minted; two calls, of
\* this window or another, and two list requests that overlap.
CONSTANTS
    Token = {t1}
    Thread = {h1}
    Perm = {"write"}
    Here = h1
    Host = {d1}
    None = None
    MaxLoads = 2
    MaxCalls = 2
SPECIFICATION PanelSpec
\* Calls are bounded: the model runs out of them.
CHECK_DEADLOCK FALSE
INVARIANTS
    PanelInvariant
PROPERTIES
    ViewMovesForward
    ViewSettles
