\* Four callers of one breaker: two probes, two failures to trip.
CONSTANTS
    c1 = c1
    c2 = c2
    c3 = c3
    c4 = c4
    Callers <- FourCallers
    MaxRequests = 2
    FailureThreshold = 2
    HasInterval = TRUE
SPECIFICATION FairSpec
INVARIANTS
    TypeOK
    GaugeFollowsState
PROPERTIES
    OnlyProbesDecide
    KeepsContract
    RecoversWithBackend
