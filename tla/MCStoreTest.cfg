\* The contract suite with three racing goroutines, and three goroutines that
\* use one session while it expires.  The suite ends, so deadlock is not an
\* error.
CONSTANTS
    SessionIDs = {s1, s2}
    s1 = s1
    Requests = {r1}
    Origins = {}
    Registrations = {"complete"}
    TTL = 2
    Skew = 0
    NoSession = NoSession
    NoCode = NoCode
    Foreign = Foreign
    Callers = {test, g1, g2, g3}
    Saved <- SuiteSaves
    MaxTime = 1
    Unlocked = Unlocked
    Test = test
    Busy = s1
    Traffic <- MCTraffic
SPECIFICATION SuiteSpec
CHECK_DEADLOCK FALSE
INVARIANTS
    TypeOK
    SuitePasses
PROPERTIES
    ImplementsContract
    CallsReturn
    SuiteCompletes
