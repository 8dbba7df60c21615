SPECIFICATION Spec
CONSTANTS
    Peers = {p}
    Self = self
    Addrs = {a1}
    Ifs = {i1}
    Local = {a1}
    IfOf <- MCIfOf
    Fds = {f1, f2}
    LostDelay = 2
    InboxMax = 1
    TcpHellos = FALSE
    LinkChanges = FALSE
    EpollFaults = FALSE
    None = None
PROPERTY LostMeansSilent
