SPECIFICATION Spec
CONSTANTS
    Threads = {t1}
    Names = {1, 2, 3}
    EntryName = 1
    LpmName = 2
    Creators <- MCCreators
    Configs <- MCPartial
    Unparsed = {}
    Writes <- MCMoreWrites
    CliTables = {3}
    ShowAllowed = FALSE
    Actions = {10}
    NULL = NULL
    ABSENT = ABSENT
    MaxCalls = 3
    NumPorts = 3
INVARIANT NoNullDeref
