SPECIFICATION FairSpec
CONSTANTS
    Users = {app, epoll}
    Epoll = epoll
    MaxMsgs = 3
    None = None
CHECK_DEADLOCK FALSE
INVARIANT OneSender
INVARIANT FrontIsTakenOnce
INVARIANT NoStalledQueue
INVARIANT ClosedOnce
PROPERTY RefinesChannel
PROPERTY QueueDrains
PROPERTY ClosingIsTold
