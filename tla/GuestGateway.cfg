\* Two open connections of one session against the invitation they were
\* admitted on.
CONSTANTS
    Token = {t1}
    Thread = {h1}
    Perm = {"read", "write"}
    SessionId = {s1}
    NoCookie = NoCookie
    MaxRedeem = 1
    MaxSessions = 1
    MaxGrants = 1
    MaxSize = 2
    TTL = 1
    MaxTime = 1
    Slot = {c1, c2}
SPECIFICATION GatewaySpec
INVARIANTS
    GatewayTypeOK
    OpenWithinGrants
PROPERTIES
    SendsAuthorized
    LostSocketsClose
