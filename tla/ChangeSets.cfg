SPECIFICATION Spec
CONSTANTS
    MaxRows = 8
    Kinds = {"list", "table", "unsorted"}
    MaxLen = 3
    MaxSteps = 5
INVARIANTS
    ChangesTurnOldIntoNew
    ModificationsAreComplete
    ResultsTurnOldIntoNew
