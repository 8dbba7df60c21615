SPECIFICATION Spec
CONSTANTS
    Fds = {c1}
    Ops = {o1, o2, o3}
    Users = {}
    Epoll = epoll
    None = None
CHECK_DEADLOCK FALSE
INVARIANT HandshakeIsAwaited
