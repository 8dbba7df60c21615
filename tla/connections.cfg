SPECIFICATION Spec
CONSTANTS
    Peers = {p, q}
    Fds = {c1, c2, c3}
    MaxOpens = 3
    EpollFaults = TRUE
    None = None
SYMMETRY MCSymmetry
INVARIANT TypeOK
INVARIANT TablesMatchSockets
INVARIANT PeerIsGenuine
INVARIANT MessagesReachTheirPeer
INVARIANT NotificationsBalance
