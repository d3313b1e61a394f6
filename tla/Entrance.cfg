SPECIFICATION Spec
CONSTANTS
    n1 = n1
    Name = {n1}
    NoName = NoName
    Garbled = Garbled
    Installed <- Installed203
    Offered <- Offers
    MaxMains = 2
    MaxQuestions = 2
    MaxRequests = 3
INVARIANTS
    TypeOK
    NamelessWasAsked
    PopupsCanBeClosed
    UpdatesAreNewer
