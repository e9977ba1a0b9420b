SPECIFICATION Spec
CONSTANTS
    Order <- MCOrder
    Starts <- MCStarts
    HumanEdits = TRUE
    LateUpdates = TRUE
    MaxInputs = 2
    MaxFaults = 2
INVARIANTS
    JournalStaysReadable
    PendingIsUnambiguous
    GroupsEndOneWay
PROPERTIES
    WritesAreAnnounced
