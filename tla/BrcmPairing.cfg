SPECIFICATION Spec
CONSTANTS
    Threads = {t1, t2}
    Names = {1, 2, 3, 4, 5, 6, 7, 8}
    EntryName = 7
    LpmName = 8
    Creators <- MCCreators
    Configs <- MCOneConfig
    Unparsed = {}
    Writes <- MCCapWrites
    CliTables = {}
    ShowAllowed = FALSE
    Actions = {10}
    NULL = NULL
    ABSENT = ABSENT
    MaxCalls = 3
INVARIANT RulePaired
