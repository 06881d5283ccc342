\* Prompts that differ after the first message share a result.
CONSTANTS
    c1 = c1
    c2 = c2
    c3 = c3
    p1 = p1
    p2 = p2
    k1 = k1
    a1 = a1
    a2 = a2
    b1 = b1
    NoPrompt = NoPrompt
    Callers <- TwoCallers
    Providers <- TwoProviders
    Preference <- InOrder
    Prompts <- ThreePrompts
    FirstMessage <- BeginsLike
    Checkers <- OneChecker
    MaxRequests = 1
    FailureThreshold = 2
    HasInterval = TRUE
SPECIFICATION Spec
INVARIANTS
    DifferentNotShared
