SPECIFICATION FairSpec
CONSTANTS
    Requests = {q1, q2}
    Sources = {s1}
    NoSource = NoSource
    MaxEarlier = 2
    workflow = workflow
    Handlers = {workflow}
    Workflows = {workflow}
    Registered <- MCRegistered
    MaxAttempts = 1
INVARIANTS
    TypeOK
    AnnouncedChunksExist
    HandlersCannotFailTheRequest
PROPERTIES
    SerialUploadsShareADocument
    SerialUploadsIndexOnce
    RequestsTerminate
CHECK_DEADLOCK FALSE
