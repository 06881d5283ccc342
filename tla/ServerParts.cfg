\* Two concurrent POST requests, of three hashes or with a reload; one completion
\* request; files with three variables.
CONSTANTS
    h3 = h3
    Senders = {s1, s2}
    Hashes = {h1, h2, h3}
    NoHash = nohash
    MaxRouters = 1
    A = A
    B = B
    C = C
    Names = {A, B, C}
    Values <- SomeValues
    Files <- TwoFiles
    MaxLength = 9
SPECIFICATION FairSpec
CHECK_DEADLOCK FALSE
INVARIANTS
    CompleteIfInTime
    NeverEmpty
PROPERTIES
    AcceptedOncePerWindow
    StoreShrinks
    RequestAnswered
    AcyclicExpanded
