SPECIFICATION FairSpec
CONSTANTS
    m1 = m1
    Memo = {m1}
    Opinion = {1}
    MaxRequests = 2
PROPERTIES
    EmptiedTableIsReloaded
