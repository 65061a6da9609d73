SPECIFICATION FairSpec
CONSTANTS
    Clients = {c1, c2}
    Lines <- MCLines
    Names = {"entry1", "ipv4_lpm"}
    Numbers = {"4", "32", "1000"}
    MaxLines = 2
    MaxStarts = 3
INVARIANT TypeOK
INVARIANT AnsweredTruthfully
INVARIANT ShowSeesAdded
INVARIANT NoNullAfterTable
PROPERTY CommandAnswered
