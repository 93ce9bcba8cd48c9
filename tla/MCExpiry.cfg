SPECIFICATION FairSpec
CHECK_DEADLOCK FALSE

CONSTANTS
    SessionIDs = {s1}
    Requests = {r1, r2}
    Origins = {o1}
    s1 = s1
    r1 = r1
    r2 = r2
    o1 = o1
    Registrations = {"complete"}
    TTL = 2
    Skew = 1
    MaxTime = 4
    Serialized = FALSE
    NoSession = NoSession
    NoCode = NoCode
    NoInput = NoInput
    Foreign = Foreign

PROPERTIES
    EverySessionDies
    NoLateSuccess
    NoExpiredOpen
