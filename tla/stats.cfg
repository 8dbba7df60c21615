SPECIFICATION StatsSpec
CONSTANTS
    Vertices = {n1, n2, n3}
    MaxEvents = 8
    None = None
SYMMETRY MCSymmetry
CHECK_DEADLOCK FALSE
INVARIANT GraphCountsSessions
INVARIANT TimesAreRight
INVARIANT PrintedIsReal
