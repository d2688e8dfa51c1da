\* The limits of the session record: eviction by count and refusal by grants.
CONSTANTS
    Token = {t1, t2}
    Thread = {h1}
    Perm = {"read"}
    SessionId = {s1, s2}
    NoCookie = NoCookie
    MaxRedeem = 1
    MaxSessions = 1
    MaxGrants = 1
    MaxSize = 4
    TTL = 1
    MaxTime = 1
SPECIFICATION SessionsSpec
INVARIANTS
    RecordLoads
PROPERTY
    RedemptionsDrain
