SPECIFICATION FairSpec
CONSTANTS
    Nodes = {1, 2, 3}
    InitEdges <- MCInitEdges
    Custom <- MCCustom
    Mods <- MCMods
    MaxFaults = 2
    Main = Main
CHECK_DEADLOCK FALSE
INVARIANT NothingLeftBehind
INVARIANT LinksFollowScenario
PROPERTY Evaluated
