\* Safety: three callers, two keys, two providers.
CONSTANTS
    c1 = c1
    c2 = c2
    c3 = c3
    p1 = p1
    p2 = p2
    k1 = k1
    a1 = a1
    a2 = a2
    b1 = b1
    NoPrompt = NoPrompt
    Callers <- ThreeCallers
    Providers <- TwoProviders
    Preference <- InOrder
    Prompts <- TwoPrompts
    FirstMessage <- Itself
    Checkers <- NoChecker
    MaxRequests = 1
    FailureThreshold = 1
    HasInterval = FALSE
SPECIFICATION Spec
SYMMETRY Symmetry
INVARIANTS
    TypeOK
    NobodyLeftBehind
    NoLostProbe
PROPERTIES
    ImplementsCoalescing
    BreakersKeepContract
