\* Two savers at once tear the state file, with no crash and no failing operation.
CONSTANTS
    s1 = s1
    s2 = s2
    c1 = c1
    routine = routine
    Routine = routine
    Setters <- TwoSetters
    Closers <- None
    Periodic = FALSE
    Sizes <- OneSize
    InitialSize = 5
    MaxCrashes = 0
    MaxFaults = 0
SPECIFICATION Spec
CHECK_DEADLOCK FALSE
INVARIANTS
    StateFileConsistent
