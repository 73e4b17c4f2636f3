------------------------------- MODULE Access --------------------------------
(***************************************************************************)
(* How one user gets into the API and how that ends: the login route with  *)
(* its guard, server-side sessions and their revocation, API keys, and the *)
(* permission check every protected route passes through, as concurrent    *)
(* requests.  Each step is one transaction or one critical section; the    *)
(* database is read and written between them by the other requests.        *)
(*                                                                         *)
(* Requests that manage sessions and keys are those of an administrator    *)
(* whose own permission check is behind them.  The role changes themselves *)
(* are module AdminRoles; here an administrator's commit of is_active is   *)
(* one step.                                                               *)
(***************************************************************************)
EXTENDS LoginGuard

CONSTANTS
    Requests,  \* request slots of the thread pool
    Sessions   \* session ids that can be minted (bound: their number)

ASSUME RequestsAssumption == IsFiniteSet(Requests) /\ Requests # {}

VARIABLES
    active,    \* users.is_active of the user
    session,   \* sessions: no row, a row, or a row with revoked_at
    key,       \* the user's API key, likewise
    audited,   \* what audit_logs has a revocation or creation entry for
    req        \* what each request slot is doing

dbVars == <<active, session, key, audited>>
accessVars == <<time, failures, lockedUntil, active, session, key, audited, req>>

Status == {"none", "active", "revoked"}

Ops == {"login", "logout", "browse", "browseByKey", "revokeSession", "createKey", "revokeKey"}

Steps ==
    {"idle", "check", "authenticate", "recordFailure", "recordSuccess", "mint",
     "findKey", "touchKey", "revocation", "permission", "serve",
     "find", "load", "write", "insertKey", "audit"}

RequestState ==
    [step: Steps, op: Ops \cup {"none"},
     stamp: 0..LastTime,      \* the clock value read for the guard's next call
     password: BOOLEAN,       \* the password of a login attempt is right
     target: Sessions \cup {"none"},
     cutOff: BOOLEAN,         \* history: the credential was revoked when the request arrived
     seenActive: BOOLEAN]     \* history: the user was active at some time since then

Idle ==
    [step |-> "idle", op |-> "none", stamp |-> 0, password |-> FALSE, target |-> "none",
     cutOff |-> FALSE, seenActive |-> FALSE]

\* The types of the guard, the tables and the requests.
AccessTypeOK ==
    /\ GuardTypeOK
    /\ active \in BOOLEAN
    /\ session \in [Sessions -> Status]
    /\ key \in Status
    /\ audited \subseteq Sessions \cup {"key"}
    /\ req \in [Requests -> RequestState]

AccessInit ==
    /\ GuardInit
    /\ active = TRUE
    /\ session = [s \in Sessions |-> "none"]
    /\ key = "none"
    /\ audited = {}
    /\ req = [r \in Requests |-> Idle]

At(r, step) == req[r].step = step

Goto(r, step) == req' = [req EXCEPT ![r].step = step]

\* The method goes on to a call that reads the clock first.
GotoStamped(r, step) == req' = [req EXCEPT ![r].step = step, ![r].stamp = time]

Respond(r) == req' = [req EXCEPT ![r] = Idle]

Start(r, step, op) == [Idle EXCEPT !.step = step, !.op = op]

-----------------------------------------------------------------------------
(* POST /auth/login. *)

BeginLogin(r, right) ==
    /\ At(r, "idle")
    /\ req' = [req EXCEPT ![r] = [Start(r, "check", "login") EXCEPT !.stamp = time, !.password = right]]
    /\ UNCHANGED <<guardVars, dbVars>>

CheckGuard(r) ==
    /\ At(r, "check")
    /\ \/ /\ Locked(req[r].stamp)
          /\ Respond(r)
          /\ UNCHANGED <<failures, lockedUntil>>
       \/ /\ ClearElapsedLock(req[r].stamp)
          /\ Goto(r, "authenticate")
    /\ UNCHANGED <<time, dbVars>>

\* One transaction: the user must be active and the password right.
Authenticate(r) ==
    /\ At(r, "authenticate")
    /\ IF active /\ req[r].password
       THEN Goto(r, "recordSuccess")
       ELSE GotoStamped(r, "recordFailure")
    /\ UNCHANGED <<guardVars, dbVars>>

FailLogin(r) ==
    /\ At(r, "recordFailure")
    /\ RecordFailure(req[r].stamp)
    /\ Respond(r)
    /\ UNCHANGED <<time, dbVars>>

PassLogin(r) ==
    /\ At(r, "recordSuccess")
    /\ RecordSuccess
    /\ Goto(r, "mint")
    /\ UNCHANGED <<time, dbVars>>

\* create_session: a transaction of its own, after the one that authenticated.
MintSession(r) ==
    /\ At(r, "mint")
    /\ \E s \in Sessions :
         /\ session[s] = "none"
         /\ session' = [session EXCEPT ![s] = "active"]
    /\ Respond(r)
    /\ UNCHANGED <<guardVars, active, key, audited>>

-----------------------------------------------------------------------------
(* A protected route: get_request_context, then require_permission. *)

BeginBrowse(r, s) ==
    /\ At(r, "idle")
    /\ session[s] # "none"
    /\ req' = [req EXCEPT ![r] =
                 [Start(r, "revocation", "browse") EXCEPT
                    !.target = s, !.cutOff = (session[s] = "revoked"), !.seenActive = active]]
    /\ UNCHANGED <<guardVars, dbVars>>

BeginBrowseByKey(r) ==
    /\ At(r, "idle")
    /\ key # "none"
    /\ req' = [req EXCEPT ![r] =
                 [Start(r, "findKey", "browseByKey") EXCEPT
                    !.cutOff = (key = "revoked"), !.seenActive = active]]
    /\ UNCHANGED <<guardVars, dbVars>>

\* authenticate_api_key: the candidates are the keys that are not revoked.
FindKey(r) ==
    /\ At(r, "findKey")
    /\ IF key = "active" THEN Goto(r, "touchKey") ELSE Respond(r)
    /\ UNCHANGED <<guardVars, dbVars>>

TouchWritesTheRow(r) ==   \* variant of TouchKey: writes back the row that FindKey read
    /\ At(r, "touchKey")
    /\ key' = "active"
    /\ Goto(r, "permission")
    /\ UNCHANGED <<guardVars, active, session, audited>>

\* touch_api_key_last_used reads the row again and updates last_used_at alone.
TouchKey(r) ==
    /\ At(r, "touchKey")
    /\ Goto(r, "permission")
    /\ UNCHANGED <<guardVars, dbVars>>

\* is_session_revoked: only an explicit revocation counts.
CheckRevocation(r) ==
    /\ At(r, "revocation")
    /\ IF session[req[r].target] = "revoked" THEN Respond(r) ELSE Goto(r, "permission")
    /\ UNCHANGED <<guardVars, dbVars>>

PermissionOfAnyone(r) ==   \* variant of CheckPermission: the join leaves users.is_active out
    /\ At(r, "permission")
    /\ Goto(r, "serve")
    /\ UNCHANGED <<guardVars, dbVars>>

\* has_permission: a user that is not active holds none.
CheckPermission(r) ==
    /\ At(r, "permission")
    /\ IF active THEN Goto(r, "serve") ELSE Respond(r)
    /\ UNCHANGED <<guardVars, dbVars>>

\* The handler of the route runs.
Serve(r) ==
    /\ At(r, "serve")
    /\ Respond(r)
    /\ UNCHANGED <<guardVars, dbVars>>

-----------------------------------------------------------------------------
(* Ending a session or a key. *)

\* POST /auth/logout: no permission check, the session id is the authorization.
BeginLogout(r, s) ==
    /\ At(r, "idle")
    /\ session[s] # "none"
    /\ req' = [req EXCEPT ![r] = [Start(r, "load", "logout") EXCEPT !.target = s]]
    /\ UNCHANGED <<guardVars, dbVars>>

\* DELETE /admin/sessions/{id}: get_session first, for the organization check.
BeginRevokeSession(r, s) ==
    /\ At(r, "idle")
    /\ session[s] # "none"
    /\ req' = [req EXCEPT ![r] = [Start(r, "find", "revokeSession") EXCEPT !.target = s]]
    /\ UNCHANGED <<guardVars, dbVars>>

FindSession(r) ==
    /\ At(r, "find")
    /\ Goto(r, "load")
    /\ UNCHANGED <<guardVars, dbVars>>

\* The key's row is named by its id, so a missing one ends in LoadRow.
BeginRevokeKey(r) ==
    /\ At(r, "idle")
    /\ req' = [req EXCEPT ![r] = Start(r, "load", "revokeKey")]
    /\ UNCHANGED <<guardVars, dbVars>>

\* revoke_session and revoke_api_key read the row without a lock; a row that
\* is revoked already is answered like one that is not there.
LoadRow(r) ==
    LET status == IF req[r].op = "revokeKey" THEN key ELSE session[req[r].target]
    IN  /\ At(r, "load")
        /\ IF status = "active" THEN Goto(r, "write") ELSE Respond(r)
        /\ UNCHANGED <<guardVars, dbVars>>

\* revoked_at = now and COMMIT; a logout is not audited.
WriteRevocation(r) ==
    LET q == req[r]
    IN  /\ At(r, "write")
        /\ IF q.op = "revokeKey"
           THEN key' = "revoked" /\ UNCHANGED session
           ELSE session' = [session EXCEPT ![q.target] = "revoked"] /\ UNCHANGED key
        /\ IF q.op = "logout" THEN Respond(r) ELSE Goto(r, "audit")
        /\ UNCHANGED <<guardVars, active, audited>>

\* POST /admin/api-keys.  Bound: one key.
BeginCreateKey(r) ==
    /\ At(r, "idle")
    /\ active /\ key = "none"
    /\ req' = [req EXCEPT ![r] = Start(r, "insertKey", "createKey")]
    /\ UNCHANGED <<guardVars, dbVars>>

InsertKey(r) ==
    /\ At(r, "insertKey") /\ key = "none"
    /\ key' = "active"
    /\ Goto(r, "audit")
    /\ UNCHANGED <<guardVars, active, session, audited>>

\* record_audit: a transaction of its own.
RecordAudit(r) ==
    /\ At(r, "audit")
    /\ audited' = audited \cup {IF req[r].op = "revokeSession" THEN req[r].target ELSE "key"}
    /\ Respond(r)
    /\ UNCHANGED <<guardVars, active, session, key>>

-----------------------------------------------------------------------------
(* The rest of the system. *)

\* COMMIT of set_user_active by an administrator.
CommitStatus(isActive) ==
    /\ active # isActive
    /\ active' = isActive
    /\ req' = [r \in Requests |->
                 IF isActive /\ req[r].op \in {"browse", "browseByKey"}
                 THEN [req[r] EXCEPT !.seenActive = TRUE] ELSE req[r]]
    /\ UNCHANGED <<guardVars, session, key, audited>>

\* An exception ends a request between two of its transactions.
FailRequest(r) ==
    /\ ~ At(r, "idle")
    /\ Respond(r)
    /\ UNCHANGED <<guardVars, dbVars>>

\* The process ends: the guard starts empty again, the tables stay.
RestartProcess ==
    /\ ForgetAll
    /\ req' = [r \in Requests |-> Idle]
    /\ UNCHANGED <<time, dbVars>>

Tick == PassTime /\ UNCHANGED <<dbVars, req>>

AccessNext ==
    \/ \E r \in Requests :
         \/ \E right \in BOOLEAN : BeginLogin(r, right)
         \/ CheckGuard(r) \/ Authenticate(r) \/ FailLogin(r) \/ PassLogin(r) \/ MintSession(r)
         \/ \E s \in Sessions : BeginBrowse(r, s) \/ BeginLogout(r, s) \/ BeginRevokeSession(r, s)
         \/ BeginBrowseByKey(r) \/ FindKey(r) \/ TouchKey(r)
         \/ CheckRevocation(r) \/ CheckPermission(r) \/ Serve(r)
         \/ BeginRevokeKey(r) \/ BeginCreateKey(r) \/ InsertKey(r)
         \/ FindSession(r) \/ LoadRow(r) \/ WriteRevocation(r) \/ RecordAudit(r)
         \/ FailRequest(r)
    \/ \E isActive \in BOOLEAN : CommitStatus(isActive)
    \/ RestartProcess
    \/ Tick

AccessSpec == AccessInit /\ [][AccessNext]_accessVars

-----------------------------------------------------------------------------
(* Properties. *)

\* Attempts that are past the guard and have not been counted by it yet.
Uncounted == {r \in Requests : req[r].step \in {"authenticate", "recordFailure"}}

\* What LOGIN_LOCKOUT_MAX_ATTEMPTS bounds although check(), authenticate() and
\* record_failure() are three critical sections: the wrong passwords counted
\* and those still being tried never exceed the maximum by more than the
\* requests that can overlap.
GuessesBounded ==
    Cardinality(failures) + Cardinality(Uncounted) < MaxAttempts + Cardinality(Requests)

\* The handler of a protected route never runs for a request that arrived
\* after its session or key was revoked, nor for one during which the user was
\* never active: not even for a session minted after the deactivation, between
\* authenticate() and create_session().
AccessEndsWithRevocation ==
    \A r \in Requests : At(r, "serve") => ~ req[r].cutOff /\ req[r].seenActive

\* No request that read a row before its revocation brings the row back.
RevocationIsFinal ==
    [][ /\ key = "revoked" => key' = "revoked"
        /\ \A s \in Sessions : session[s] = "revoked" => session'[s] = "revoked" ]_accessVars

=============================================================================
