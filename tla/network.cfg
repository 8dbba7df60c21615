SPECIFICATION FairSpec
CONSTANTS
    A = A
    B = B
    Fds = {1, 2}
    MaxDials = 2
    MaxRestarts = 2
    None = None
CHECK_DEADLOCK FALSE
INVARIANT SessionIsShared
INVARIANT SessionsAgree
PROPERTY Settles
