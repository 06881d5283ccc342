\* Two routes with health checks, in tables where their checks come to their own
\* handler, to each other's or the router's endpoints, or nowhere.
CONSTANTS
    N = 2
    Requesters = {1, 2, q1}
    Addresses = {local, other}
    Nobody = nobody
    Burst = 2
    MaxMinutes = 1
    Local = local
    Guests = {q1}
    Paths <- FivePaths
    Versions <- NoneOrV1
    Chains <- FiveChains
    Tables <- SomeTables
    Enough = 2
SPECIFICATION FairSpec
INVARIANTS
    PassesBounded
    UnhealthyHasCause
PROPERTIES
    FailureReported
    RecoveryReported
