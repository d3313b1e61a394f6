SPECIFICATION Spec
SYMMETRY Symmetry
CONSTANTS
    m1 = m1
    m2 = m2
    Memo = {m1, m2}
    Opinion = {1}
    MaxRequests = 2
INVARIANTS
    TypeOK
    SettledScreenIsCurrent
PROPERTIES
    CrashesWhileReplacing
    RevotesOnlyInFlux
