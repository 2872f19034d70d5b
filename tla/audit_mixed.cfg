SPECIFICATION Spec
CHECK_DEADLOCK FALSE
CONSTANTS
    analyze = analyze
    event = event
    approve = approve
    Ops = {analyze, event}
    NoOp = NoOp
    Sections <- MixedSections
    MaxCrashes = 2
    MayTear = TRUE
    MayFailOpen = TRUE
INVARIANTS LinkedWhileGuarded HeadMatchesLog RecordedOnce SeqNeverAhead
PROPERTY AppendOnly
