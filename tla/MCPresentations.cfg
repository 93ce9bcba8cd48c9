\* Three keys: known and unknown ids in any order; origins and response URIs
\* that validateSpec has to refuse among the candidates.
CONSTANTS
    IDs = {1, 2, 3}
    Values <- MCValues
    ResponseURIs <- MCResponseURIs
    Origins <- MCOrigins
SPECIFICATION Spec
INVARIANTS
    TypeOK
    ErrorIsDeterministic
    WholeOrNothing
    MdocHasTranscript
CHECK_DEADLOCK FALSE
