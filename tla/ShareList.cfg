SPECIFICATION FairSpec
CONSTANTS
    Shared = {"a1", "a2"}
    Category = {1, 2}
    First = 1
    Lists <- TwoLists
    MaxRequests = 2
INVARIANTS
    TypeOK
    ListIsOneReply
    LitCategoryIsShown
    CellsShowList
PROPERTIES
    CrashesWhileReplacing
    OpensTouchedMemo
    QuietScreenSettles
