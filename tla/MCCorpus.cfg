SPECIFICATION Spec
CONSTANTS
    u1 = u1
    u2 = u2
    f1 = f1
    f2 = f2
    bad = bad
    UnitKeys <- MCUnitKeys
    FileNames <- MCFileNames
    Sources = {s1, s2}
    Lemmas <- MCLemmas
    Contents <- MCContents
    Rejected <- MCRejected
    Absent = Absent
    NoSource = NoSource
    Tokens = {"a", "b", "c"}
    MaxInserted = 1
    MaxSlot = 2
    MaxEdits = 2
    MaxFaults = 1
INVARIANTS
    CountsAreMaximal
    HistoryStaysAccepted
    ReportsAreTrue
PROPERTIES
    ImplementsLedger
    ConflictsAppendNothing
    RetriesComplete
CHECK_DEADLOCK FALSE
