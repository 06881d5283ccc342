\* A change that finds the channel full is not applied.
CONSTANTS
    A = A
    B = B
    Configs <- TwoConfigs
    Initial = A
    Invalid = Invalid
    MaxWrites = 2
    PortOf <- SamePort
    WithHTTP3 <- OneHTTP3
SPECIFICATION WrittenLateSpec
CHECK_DEADLOCK FALSE
INVARIANTS
    NewestIsApplied
