SPECIFICATION ESpec
CHECK_DEADLOCK FALSE
CONSTANTS
    Ops = {o1, o2}
    NoOp = NoOp
    Sections <- TwoLocked
    MaxCrashes = 1
    MayTear = FALSE
    MayFailOpen = FALSE
    MaxBackups = 2
    MayEdit = TRUE
INVARIANTS SidecarIsOfArchive LinksAloneShowAnEdit
