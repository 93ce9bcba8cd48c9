SPECIFICATION Spec
SYMMETRY Symmetry
CHECK_DEADLOCK FALSE

CONSTANTS
    SessionIDs = {s1, s2}
    Requests = {r1, r2}
    Origins = {o1}
    s1 = s1
    s2 = s2
    r1 = r1
    r2 = r2
    o1 = o1
    Registrations = {"complete"}
    TTL = 1
    Skew = 0
    MaxTime = 1
    Serialized = TRUE
    NoSession = NoSession
    NoCode = NoCode
    NoInput = NoInput
    Foreign = Foreign

INVARIANTS
    NoCrossSessionReplay

PROPERTIES
    ImplementsOneTimeSession
