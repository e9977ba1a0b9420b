SPECIFICATION Spec
CONSTANTS
    Order <- MCOrder
    Starts <- MCStarts
    HumanEdits = FALSE
    LateUpdates = FALSE
    MaxInputs = 3
    MaxFaults = 2
INVARIANTS
    NoteFollowsJournal
PROPERTIES
    ImplementsLifecycle
    PendingIsResolved
