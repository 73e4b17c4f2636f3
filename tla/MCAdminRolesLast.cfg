SPECIFICATION Spec
CONSTANTS
    Users = {u1, u2}
    Requests = {q1, q2}
    NoRequest = NoRequest
    NoUser = NoUser
SYMMETRY Interchangeable
INVARIANT SomeActiveAdmin
CHECK_DEADLOCK FALSE
