CONSTANTS
    Keys = {k1}
    Attempts = {a1, a2}
    NoteIds = {n1, n2}
    Procs = {p1, p2}
    NoKey = NoKey
    NoAttempt = NoAttempt
    NoNote = NoNote
    NoProc = NoProc
    Human = Human
    RecoveryTakesLock = TRUE
SPECIFICATION Spec
SYMMETRY Interchangeable
INVARIANT RequestHasIntent
INVARIANT HistoryStaysReadable
INVARIANT ReportsAreTrue
PROPERTY ResolvedAttemptsAskNothing
