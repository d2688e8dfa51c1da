\* A request or a socket of one guest while grants change and threads move.
CONSTANTS
    t1 = t1
    t2 = t2
    p1 = p1
    s1 = s1
    Thread = {t1, t2}
    Project = {p1, personal}
    Section = {s1}
    Personal = personal
    None = None
    SectionOf <- OneSection
    Offered <- TwoShares
    Sent <- OnePage
    MaxFrames = 2
SPECIFICATION ViewSpec
INVARIANTS
    
    ListedIsServed
    GrantedThreadsListed
    SubscriptionsCarried
PROPERTIES
    ChangesReachGuest
    SubscriptionsSettle
