CONSTANTS
    MaxUid = 2
    Caller = {c1, c2}
    q1 = q1
    q2 = q2
    Question = {q1, q2}
    Match <- MCMatch
    Limits = {1}
    Window = 2
    MaxCalls = 3
    MaxFaults = 2
SYMMETRY Callers
SPECIFICATION Spec
CHECK_DEADLOCK FALSE
INVARIANT TypeOK
INVARIANT RecordedIsAnswered
INVARIANT NewIsNew
