SPECIFICATION FairSpec
CONSTANTS
    Requests = {q1, q2}
    Periods = {p1, p2}
    Days = {d1}
    Figures = {f1, f2}
    Null = Null
    Earlier = Earlier
    MaxAttempts = 2
INVARIANTS
    TypeOK
    SummariesReadCurves
    HandledBaselinesAreAnchored
PROPERTIES
    HistoryIsAppendOnly
    SerialAuthorsOwnTheirVersion
    RequestsTerminate
CHECK_DEADLOCK FALSE
