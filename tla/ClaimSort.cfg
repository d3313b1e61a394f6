SPECIFICATION Spec
CONSTANTS
    Contents = {0, 1, 2}
    NoParse = NoParse
    Literal <- AllPlain
    Dates = {"19-05-01"}
    Photos = {"20190501_091500"}
    Dream = {1}
    SortKeys = {"SORT_DATE"}
    Absent = Absent
PROPERTIES
    SortButtonsSort
