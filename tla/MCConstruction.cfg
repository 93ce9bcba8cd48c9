\* Two working configurations and three working specs, with up to one change each.
CONSTANTS
    Configs <- MCConfigs
    Specs <- MCSpecs
    None = None
SPECIFICATION Spec
INVARIANTS
    TypeOK
    EveryRequestTrusted
    InvocationArrives
    CodeReturns
