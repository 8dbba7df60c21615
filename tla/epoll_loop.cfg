SPECIFICATION FairSpec
CONSTANTS
    Fds = {c1}
    Ops = {o1, o2}
    Users = {app}
    Epoll = epoll
    None = None
CHECK_DEADLOCK FALSE
INVARIANT RunningIsAlive
INVARIANT RemovalSignalled
INVARIANT EventsHaveCallbacks
PROPERTY CallbacksDestroyed
PROPERTY StopIsHeeded
