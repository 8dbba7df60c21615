SPECIFICATION FairSpec
CONSTANTS
    Nodes = {a, b}
    a = a
    b = b
    Dialled <- MCDialled
    Plan <- MCPlan
    LenSize = 2
    Lengths = {1, 2}
    Capacity <- MCCapacity
    WriteFaults = TRUE
    None = None
CHECK_DEADLOCK FALSE
INVARIANT FramesIntact
PROPERTY MessagesArrive
PROPERTY HalfOpenIsClosed
