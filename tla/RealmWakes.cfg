SPECIFICATION Spec
CONSTANTS
    MaxVersion = 2
    MaxTokens = 2
PROPERTIES
    NewsArrives
CHECK_DEADLOCK FALSE
