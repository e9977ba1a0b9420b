CONSTANTS
    Bootstraps = {b1, b2}
    Operations = {o1, o2}
    Nobody = Nobody
    MaxPowerLoss = 1
SPECIFICATION Spec
SYMMETRY Interchangeable
CHECK_DEADLOCK FALSE
INVARIANT OperationsFindADeployment
INVARIANT NothingIsAdopted
INVARIANT CommitMarkerIsLast
