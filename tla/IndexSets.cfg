SPECIFICATION Spec
CONSTANTS
    MaxSize = 2
    Top = 8
    ArgSize = 2
INVARIANTS
    Denotes
    WellFormed
    QueriesAnswer
