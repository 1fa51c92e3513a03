\* Two descriptors within SetSize and one above; all pollers.
SPECIFICATION Spec
CONSTANTS
    SetSize = 2
    LastFd = 2
    Reserved = {0}
    Pollers = {"epoll", "kqueue", "select"}
    OneProc = {1}
INVARIANTS TypeOK KernelAgrees MaxFdRight NothingLost
PROPERTIES NoStaleEvent CalledOnceInOrder
