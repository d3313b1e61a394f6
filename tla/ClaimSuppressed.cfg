SPECIFICATION Spec
CONSTANTS
    MaxVersion = 2
    MaxTokens = 1
INVARIANTS
    SuppressedStaysSilent
CHECK_DEADLOCK FALSE
