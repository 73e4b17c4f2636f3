SPECIFICATION FairSpec
CONSTANTS
    Users = {u1, u2}
    Requests = {q1, q2}
    NoRequest = NoRequest
    NoUser = NoUser
INVARIANTS
    TypeOK
    StatusChangesKeepAnAdmin
    LockedUsersStayActive
PROPERTIES
    SerialRequestsKeepAnAdmin
    RequestsTerminate
CHECK_DEADLOCK FALSE
