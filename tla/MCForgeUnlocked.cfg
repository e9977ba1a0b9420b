CONSTANTS
    Keys = {k1, k2}
    Attempts = {a1}
    NoteIds = {n1, n2}
    Procs = {p1, p2}
    NoKey = NoKey
    NoAttempt = NoAttempt
    NoNote = NoNote
    NoProc = NoProc
    Human = Human
    RecoveryTakesLock = FALSE
SPECIFICATION Spec
SYMMETRY InterchangeableUnits
INVARIANT AcceptanceNamesANote
