\* Every timer may be deleted, the first one too.
SPECIFICATION Spec
CONSTANTS
    MaxTimers = 2
    MaxDelay = 1
    MaxDepth = 1
    Stays = FALSE
PROPERTIES NoTimersNoTimeout
CHECK_DEADLOCK FALSE
