\* Two resizes, a shutdown and the ticker save concurrently; a crash and a failure.
CONSTANTS
    s1 = s1
    s2 = s2
    c1 = c1
    routine = routine
    Routine = routine
    Setters <- TwoSetters
    Closers <- OneCloser
    Periodic = TRUE
    Sizes <- OneSize
    InitialSize = 5
    MaxCrashes = 1
    MaxFaults = 1
SPECIFICATION FairSpec
CHECK_DEADLOCK FALSE
INVARIANTS
    TypeOK
    OnlyKnownLimits
    TickerFileConsistent
PROPERTIES
    FileHeals
