SPECIFICATION Spec
CONSTANTS
    Order <- MCOrder
    Starts <- MCStarts
    MinInterval = 1
    MinAge = 2
    LapseWindow = 1
    MinPasses = 2
    MinDelay = 1
    DormantAfter = 1
    Stimuli = {x, y}
    MaxNow = 3
    MaxInputs = 4
    MaxFaults = 1
INVARIANTS
    DecisionsAreEarned
    EvidenceCountsOnce
PROPERTIES
    CommitsFitTheirDecision
    PlansOutliveTime
    FailureLeadsToRelapse
CHECK_DEADLOCK FALSE
