SPECIFICATION Spec
CONSTANTS
    Requests = {q1, q2}
    Periods = {p1, p2}
    Days = {d1}
    Figures = {f1, f2}
    Null = Null
    Earlier = Earlier
    MaxAttempts = 2
PROPERTY
    SecondCaptureReturnsTheRow
CHECK_DEADLOCK FALSE
