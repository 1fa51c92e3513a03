\* A clock that only goes forward, a timer one millisecond late.
SPECIFICATION Spec
CONSTANTS
    Capacity = 3
    TokensPerMs = 1
    Period = 2
    MaxAdvance = 1
    MaxBack = 0
    MaxLate = 1
    MaxElapsed = 9
INVARIANTS PaceKept
