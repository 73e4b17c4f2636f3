SPECIFICATION FairSpec
CONSTANTS
    InvitationIds = {i1}
    Emails = {e1, e2}
    Requests = {q1, q2}
    NoEmail = NoEmail
    Direct = Direct
    NoRequest = NoRequest
    NoId = NoId
    Never = Never
    TTL = 2
    MaxTime = 3
INVARIANTS
    TypeOK
    SingleUse
    AcceptedInTime
PROPERTIES
    ImplementsLifecycle
    RequestsTerminate
