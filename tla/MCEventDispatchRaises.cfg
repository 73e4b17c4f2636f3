SPECIFICATION Spec
CONSTANTS
    e1 = e1
    e2 = e2
    workflow = workflow
    plain = plain
    Events = {e1, e2}
    Handlers = {workflow, plain}
    Workflows = {workflow}
    Registered <- MCRegistered
    MaxAttempts = 3
PROPERTY DispatchNeverRaises
CHECK_DEADLOCK FALSE
