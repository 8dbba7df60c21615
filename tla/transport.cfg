SPECIFICATION FairSpec
CONSTANTS
    Users = {app}
    Epoll = epoll
    Reacting = {"Found", "NeighborLost", "Opened", "Received"}
    None = None
CHECK_DEADLOCK FALSE
INVARIANT NoCircularWait
INVARIANT NotifiedUnlocked
INVARIANT ManagerOutlivesCallbacks
PROPERTY DestructorReturns
