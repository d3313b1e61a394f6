SPECIFICATION Spec
CONSTANTS
    MaxVersion = 2
    MaxTokens = 2
INVARIANTS
    TypeOK
    NewsIsConserved
    NewsMatchesVersion
    LoopSeesPackage
PROPERTIES
    ErrorsReachEveryone
    WaitsEnd
CHECK_DEADLOCK FALSE
