\* Reloads between two configurations of one port, one with HTTP/3, and one Start.
CONSTANTS
    A = A
    B = B
    Configs <- TwoConfigs
    Initial = A
    Invalid = Invalid
    MaxWrites = 2
    PortOf <- SamePort
    WithHTTP3 <- OneHTTP3
SPECIFICATION FairSpec
CHECK_DEADLOCK FALSE
INVARIANTS
    TypeOK
    NoOrphan
    NewestUnlessMissed
PROPERTIES
    OnlyReloadsBreakStart
    ReloadEnds
    ReloadServes
