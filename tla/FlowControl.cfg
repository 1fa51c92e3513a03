\* A clock that jumps forward and back, a timer up to two periods late.
SPECIFICATION FairSpec
CONSTANTS
    Capacity = 3
    TokensPerMs = 1
    Period = 2
    MaxAdvance = 2
    MaxBack = 2
    MaxLate = 4
    MaxElapsed = 7
INVARIANTS TypeOK WindowBound
PROPERTIES RefillArrives
