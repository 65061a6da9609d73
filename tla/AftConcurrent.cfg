SPECIFICATION FairSpec
CONSTANTS
    Threads = {t1, t2}
    Names = {1, 2, 3}
    EntryName = 1
    LpmName = 2
    Creators <- MCCreators
    Configs <- MCComplete
    Unparsed = {}
    Writes <- MCWrites
    CliTables = {3}
    ShowAllowed = FALSE
    Actions = {10}
    NULL = NULL
    ABSENT = ABSENT
    MaxCalls = 3
    NumPorts = 2
INVARIANTS TypeOK NoNullDeref QuietTreesBound RouteOwnsEncap
PROPERTY EveryCallReturns
