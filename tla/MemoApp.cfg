SPECIFICATION Spec
CONSTANTS
    Contents = {0, 1, 2, 3}
    NoParse = NoParse
    Literal <- QuoteLast
    Dates = {"19-05-01"}
    Photos = {"20190501_091500"}
    Dream = {1}
    SortKeys = {"SORT_DATE"}
    Absent = Absent
INVARIANTS
    TypeOK
    UniqueContents
    ListShowsStore
    DetailShowsStored
    NoDanglingPhoto
PROPERTIES
    MemosLeaveOnlyOnRequest
    OtherMemosSurviveEdit
    CrashCauses
    ImplementsBook
