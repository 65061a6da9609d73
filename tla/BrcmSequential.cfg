SPECIFICATION Spec
CONSTANTS
    Threads = {t1}
    Names = {1, 2, 3, 4, 5, 6, 7, 8}
    EntryName = 7
    LpmName = 8
    Creators <- MCCreators
    Configs <- MCConfigs
    Unparsed = {}
    Writes <- MCWrites
    CliTables = {1, 8}
    ShowAllowed = FALSE
    Actions = {10}
    NULL = NULL
    ABSENT = ABSENT
    MaxCalls = 4
INVARIANTS TypeOK NoNullDeref RulePaired RuleHasGroup EntriesInstalled
