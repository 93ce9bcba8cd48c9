SPECIFICATION Spec
SYMMETRY Symmetry
CHECK_DEADLOCK FALSE

CONSTANTS
    SessionIDs = {s1}
    Requests = {r1, r2, r3}
    Origins = {o1}
    s1 = s1
    r1 = r1
    r2 = r2
    r3 = r3
    o1 = o1
    Registrations = {"complete"}
    TTL = 1
    Skew = 0
    MaxTime = 1
    Serialized = FALSE
    NoSession = NoSession
    NoCode = NoCode
    NoInput = NoInput
    Foreign = Foreign

PROPERTIES
    EngineEnforcesExpiry
