\* Three requests, two concurrent shutdowns, fair goroutines.
CONSTANTS
    r1 = r1
    r2 = r2
    r3 = r3
    c1 = c1
    c2 = c2
    Requests <- ThreeRequests
    Closers <- TwoClosers
    Sizes <- SomeSizes
    InitialSize = 2
SPECIFICATION FairSpec
INVARIANTS
    TypeOK
    Accounting
    RemoveFindsElement
    GaugeLag
PROPERTIES
    AdmissionBounded
    DrainedMeansIdle
    Implements
    PlaceIsGivenBack
    ShutdownEnds
