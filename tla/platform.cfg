SPECIFICATION Spec
CHECK_DEADLOCK FALSE
CONSTANTS
    Workers = {"v", "w"}
    Conns <- MCConns
    Clients <- MCClients
    Progs = {p, q}
    Results = {1, 2}
    Limits = {0, 1, 2, 3}
    Grain = 2
    Boxes <- MCBoxes
    Sessions = {1, 2}
    Ids = {1}
    Bodies = {7}
    MaxChunk = 2
    MaxOlder = 2
    MaxCalls = 2
    Names = {"report", "table"}
    Contents = {"p", "q", "s"}
    Ext <- MCExt
    Opens <- MCOpens
    ModelOf <- MCModelOf
    CellsOf <- MCCellsOf
    MaxOps = 4
    MaxCrashes = 1
INVARIANTS InOnePlace RowsAreTheAnswer VersionsDiffer OneGapPerEnd
PROPERTIES EveryoneIsServed ImplementsLruCache
