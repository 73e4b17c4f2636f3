SPECIFICATION FairSpec
CONSTANTS
    e1 = e1
    e2 = e2
    workflow = workflow
    plain = plain
    Events = {e1, e2}
    Handlers = {workflow, plain}
    Workflows = {workflow}
    Registered <- MCRegistered
    MaxAttempts = 3
INVARIANTS
    TypeOK
    ReturnedMeansSettled
    HandledWorkflowsAreCompleted
    ExhaustionIsRecordedTwice
    OnlyTableWritesRaise
PROPERTIES
    ImplementsDelivery
    PublicationsEnd
CHECK_DEADLOCK FALSE
