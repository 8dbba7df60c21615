SPECIFICATION Spec
CONSTANTS
    Peers = {p}
    Fds = {c1, c2}
    MaxOpens = 2
    EpollFaults = FALSE
    None = None
SYMMETRY MCSymmetry
INVARIANT FailureIsTold
