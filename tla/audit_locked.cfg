SPECIFICATION FairSpec
CHECK_DEADLOCK FALSE
CONSTANTS
    Ops = {o1, o2, o3}
    NoOp = NoOp
    Sections <- LockedSections
    MaxCrashes = 2
    MayTear = FALSE
    MayFailOpen = FALSE
PROPERTIES EveryOpEnds ImplementsChainLog
