SPECIFICATION Spec
CONSTANTS
    Picture = {"p1", "p2"}
    MaxRequests = 2
INVARIANTS
    SharesSendWhatWasShown
PROPERTIES
    SharesAreTold
\* A form that was left, or a process that ended, does nothing more.
CHECK_DEADLOCK FALSE
