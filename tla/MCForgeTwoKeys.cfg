CONSTANTS
    Keys = {k1, k2}
    Attempts = {a1, a2}
    NoteIds = {n1}
    Procs = {p1}
    NoKey = NoKey
    NoAttempt = NoAttempt
    NoNote = NoNote
    NoProc = NoProc
    Human = Human
    RecoveryTakesLock = TRUE
SPECIFICATION Spec
SYMMETRY Interchangeable
INVARIANT AttemptsAreNotReused
PROPERTY ImplementsPromise
