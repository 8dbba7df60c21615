SPECIFICATION FairSpec
CONSTANTS
    Peers = {p}
    Self = self
    Addrs = {a1, a2}
    Ifs = {i1}
    Local = {a1}
    IfOf <- MCIfOf
    Fds = {f1, f2}
    LostDelay = 2
    InboxMax = 1
    TcpHellos = TRUE
    LinkChanges = TRUE
    EpollFaults = TRUE
    None = None
INVARIANT TypeOK
INVARIANT TablesConsistent
INVARIANT FoundIsTracked
INVARIANT TimerTracksSilence
PROPERTY SilentPeerIsDropped
PROPERTY KeepsAnnouncing
