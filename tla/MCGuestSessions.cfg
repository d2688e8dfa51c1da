\* Sessions against invitations: durability, no lost addition.
CONSTANTS
    Token = {t1, t2}
    Thread = {h1}
    Perm = {"read"}
    SessionId = {s1, s2}
    NoCookie = NoCookie
    MaxRedeem = 1
    MaxSessions = 2
    MaxGrants = 2
    MaxSize = 4
    TTL = 1
    MaxTime = 1
SYMMETRY Symmetry
SPECIFICATION SessionsSpec
INVARIANTS
    SessionsDurable
    AdditionsKept
