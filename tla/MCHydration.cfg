SPECIFICATION Spec
CONSTANTS
    original = original
    revised = revised
    plain = plain
    reworded = reworded
    respoken = respoken
    hello = hello
    goodbye = goodbye
    Runs = {r1, r2}
    Ids = {original, revised}
    Forged = original
    Banks = {plain, reworded, respoken}
    Names = {hello, goodbye}
    Spoken <- MCSpoken
    ValidFor <- MCValidFor
    MaxEdits = 1
    MaxFaults = 2
INVARIANTS
    AudioHasMedia
PROPERTIES
    WritesFitTheNote
    RecordingsAreImmutable
    HydrationCompletes
CHECK_DEADLOCK FALSE
