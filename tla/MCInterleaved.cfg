SPECIFICATION Spec
SYMMETRY Symmetry
CHECK_DEADLOCK FALSE

CONSTANTS
    SessionIDs = {s1}
    Requests = {r1, r2, r3}
    Origins = {o1}
    s1 = s1
    r1 = r1
    r2 = r2
    r3 = r3
    o1 = o1
    Registrations = {"complete", "partial"}
    TTL = 2
    Skew = 0
    MaxTime = 2
    Serialized = FALSE
    NoSession = NoSession
    NoCode = NoCode
    NoInput = NoInput
    Foreign = Foreign

INVARIANTS
    TypeOK
    IdentityKept
    MarkersTruthful
    RedeemedOwnCode
    ServerErrorsAreInternal

PROPERTIES
    NoLateSuccess
    NoExpiredOpen
