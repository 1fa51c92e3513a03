\* Three timers; the first is the server's, which is re-armed for ever.
SPECIFICATION FairSpec
CONSTANTS
    MaxTimers = 3
    MaxDelay = 2
    MaxDepth = 3
    Stays = TRUE
INVARIANTS TypeOK ListIntact NothingDangles CheckIsUseless WakesInTime NeverCrashes
PROPERTIES DeletionIsFinal WalksEnd DueTimersRun DeletedAreFreed
