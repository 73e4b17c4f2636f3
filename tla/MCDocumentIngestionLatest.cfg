SPECIFICATION Spec
CONSTANTS
    Requests = {q1, q2}
    Sources = {s1}
    NoSource = NoSource
    MaxEarlier = 2
    workflow = workflow
    Handlers = {workflow}
    Workflows = {workflow}
    Registered <- MCRegistered
    MaxAttempts = 1
INVARIANT IndexesItsOwnVersion
CHECK_DEADLOCK FALSE
