SPECIFICATION Spec
CONSTANTS
    a1 = a1
    a2 = a2
    s1 = s1
    x = x
    y = y
    Attempts <- MCAttempts
    Speech <- MCSpeech
    Stimulus <- MCStimulus
    Responses = {r1}
    Grades = {"PASS"}
    NoAttempt = NoAttempt
    NoResponse = NoResponse
    MaxFaults = 2
SYMMETRY Symmetric
INVARIANTS
    OneNovelAttempt
    HistoriesStayAccepted
    NoFalseNovelty
    EvidenceCanBeJudged
    GradedSpeechWasTranscribed
PROPERTIES
    FailsClosed
    AbandonedStaysAbandoned
    ImplementsAttemptLife
CHECK_DEADLOCK FALSE
