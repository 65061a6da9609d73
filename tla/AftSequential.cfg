SPECIFICATION Spec
CONSTANTS
    Threads = {t1}
    Names = {1, 2, 3}
    EntryName = 1
    LpmName = 2
    Creators <- MCCreators
    Configs <- MCPartial
    Unparsed <- MCUnparsed
    Writes <- MCMoreWrites
    CliTables = {3}
    ShowAllowed = TRUE
    Actions = {10}
    NULL = NULL
    ABSENT = ABSENT
    MaxCalls = 4
    NumPorts = 3
INVARIANT IngressIsLatest
PROPERTY NamesKeepObjects
