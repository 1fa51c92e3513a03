SPECIFICATION FairSpec
CONSTANTS
    SetSize = 3
    LastFd = 3
    Reserved = {0}
    Pollers = {"epoll"}
    OneProc = {}
    MaxConcurrency = 2
    ServerFd = 0
    MaxBacklog = 1
INVARIANTS ServerTypeOK CountIsRight NoFdLeak EveryClientHeard
PROPERTIES ServerImplements ClientsRead BacklogMoves
CHECK_DEADLOCK FALSE
