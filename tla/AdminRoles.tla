----------------------------- MODULE AdminRoles -----------------------------
(***************************************************************************)
(* Activation, deactivation and role changes of an organization's users,   *)
(* as the administration API runs them: several requests at once, each a   *)
(* PostgreSQL transaction under READ COMMITTED, all of them free to        *)
(* interleave at statement boundaries.                                     *)
(*                                                                         *)
(* An organization must keep an active user that holds the role            *)
(* organization_admin.  The repository guards the two operations that can  *)
(* take the last one away with SELECT ... FOR UPDATE OF users.  The model  *)
(* gives that statement its PostgreSQL meaning: the rows are those of the  *)
(* statement's snapshot, they are locked one at a time, and a row that     *)
(* was updated meanwhile is re-checked in its newest version while the     *)
(* joined user_roles row stays the one of the snapshot.                    *)
(***************************************************************************)
EXTENDS Naturals

CONSTANTS
    Users,      \* the users of one organization
    Requests,   \* concurrent request slots of the API's thread pool
    NoRequest,  \* "row not locked"
    NoUser      \* "no target": the request slot is free

ASSUME NoRequestAssumption == NoRequest \notin Requests
ASSUME NoUserAssumption == NoUser \notin Users

VARIABLES
    active,       \* users.is_active
    admin,        \* users with a user_roles row for organization_admin
    rowLock,      \* the request that holds FOR UPDATE on a users row
    req,          \* what each request slot is doing
    roleChanged,  \* history: some user_roles row changed since the start
    alone         \* history: requests no other request has overlapped so far

vars == <<active, admin, rowLock, req, roleChanged, alone>>

Ops == {"deactivate", "activate", "remove", "assign"}

\* Where a request stands: what it does next.
Steps == {"idle", "load", "checkRole", "select", "locking", "write", "audit"}

RequestState ==
    [step: Steps, op: Ops \cup {"none"}, target: Users \cup {NoUser},
     seen: BOOLEAN,          \* the value the ORM loaded: is_active or already_has
     pending: SUBSET Users,  \* snapshot rows still to be locked
     locked: SUBSET Users]   \* locked_ids: rows returned by the locking select

Idle ==
    [step |-> "idle", op |-> "none", target |-> NoUser,
     seen |-> FALSE, pending |-> {}, locked |-> {}]

\* Types, and a free slot carries nothing over from its last request.
TypeOK ==
    /\ active \in [Users -> BOOLEAN]
    /\ admin \subseteq Users
    /\ rowLock \in [Users -> Requests \cup {NoRequest}]
    /\ req \in [Requests -> RequestState]
    /\ \A r \in Requests : req[r].step = "idle" => req[r] = Idle
    /\ \A r \in Requests : req[r].step \notin {"idle", "audit"} => req[r].target \in Users
    /\ roleChanged \in BOOLEAN
    /\ alone \subseteq Requests

ActiveAdmins == {u \in admin : active[u]}

\* An organization starts with the administrator the bootstrap created.
Init ==
    /\ active \in [Users -> BOOLEAN]
    /\ admin \in SUBSET Users
    /\ ActiveAdmins # {}
    /\ rowLock = [u \in Users |-> NoRequest]
    /\ req = [r \in Requests |-> Idle]
    /\ roleChanged = FALSE
    /\ alone = {}

-----------------------------------------------------------------------------
(* Moves of one request. *)

At(r, step) == req[r].step = step

Goto(r, step) == req' = [req EXCEPT ![r].step = step]

LocksKept(r) == rowLock' = rowLock   \* variant of ReleaseLocks: locks outlive the rollback

ReleaseLocks(r) ==
    rowLock' = [u \in Users |-> IF rowLock[u] = r THEN NoRequest ELSE rowLock[u]]

\* COMMIT: the row locks go, and the service still has to record the audit entry.
Commit(r) ==
    /\ ReleaseLocks(r)
    /\ req' = [req EXCEPT ![r] = [Idle EXCEPT !.step = "audit"]]
    /\ alone' = alone \ {r}

RolledBackInPlace(r) ==   \* variant of Rollback: the slot keeps what the request had read
    /\ ReleaseLocks(r)
    /\ Goto(r, "idle")
    /\ alone' = alone \ {r}

\* ROLLBACK and an error response.
Rollback(r) ==
    /\ ReleaseLocks(r)
    /\ req' = [req EXCEPT ![r] = Idle]
    /\ alone' = alone \ {r}

Unlocked(r, u) == rowLock[u] \in {NoRequest, r}

IsEmpty(S) == S = {}   \* variant of AtMostOne: len(S) < 1

\* len(S) <= 1
AtMostOne(S) == \A u, v \in S : u = v

\* require_permission("administration.write") lets the request in: only
\* organization_admin holds that permission, and an inactive user holds none.
\* Deactivating oneself is refused before the transaction starts.
Begin(r, op, actor, target) ==
    /\ At(r, "idle")
    /\ actor \in ActiveAdmins
    /\ ~ (op = "deactivate" /\ target = actor)
    /\ req' = [req EXCEPT ![r] = [Idle EXCEPT !.step = "load", !.op = op, !.target = target]]
    /\ alone' = {q \in {r} : \A p \in Requests \ {r} : At(p, "idle")}
    /\ UNCHANGED <<active, admin, rowLock, roleChanged>>

LoadGuardsInactive(r) ==   \* variant of Load: remove_role guards inactive users instead
    LET q == req[r]
        seen == IF q.op = "assign" THEN q.target \in admin ELSE active[q.target]
        next == CASE q.op = "deactivate" /\ seen -> "checkRole"
                  [] q.op = "remove" /\ ~ seen -> "select"
                  [] OTHER -> "write"
    IN  /\ At(r, "load")
        /\ req' = [req EXCEPT ![r].step = next, ![r].seen = seen]
        /\ UNCHANGED <<active, admin, rowLock, roleChanged, alone>>

\* The first reads of the transaction: the user row, and for assign_role
\* whether the role row exists.  The ORM keeps what it loaded.
Load(r) ==
    LET q == req[r]
        seen == IF q.op = "assign" THEN q.target \in admin ELSE active[q.target]
        next == CASE q.op = "deactivate" /\ seen -> "checkRole"
                  [] q.op = "remove" /\ seen -> "select"
                  [] OTHER -> "write"
    IN  /\ At(r, "load")
        /\ req' = [req EXCEPT ![r].step = next, ![r].seen = seen]
        /\ UNCHANGED <<active, admin, rowLock, roleChanged, alone>>

\* set_user_active: has_admin_role decides whether the guard runs at all.
CheckRole(r) ==
    /\ At(r, "checkRole")
    /\ Goto(r, IF req[r].target \in admin THEN "select" ELSE "write")
    /\ UNCHANGED <<active, admin, rowLock, roleChanged, alone>>

\* The locking select takes its snapshot.
SelectActiveAdmins(r) ==
    /\ At(r, "select")
    /\ req' = [req EXCEPT ![r].step = "locking", ![r].pending = ActiveAdmins]
    /\ UNCHANGED <<active, admin, rowLock, roleChanged, alone>>

LockRowUnchecked(r) ==   \* variant of LockRow: an updated row is not re-checked
    /\ At(r, "locking")
    /\ \E u \in req[r].pending :
         /\ rowLock[u] = NoRequest
         /\ rowLock' = [rowLock EXCEPT ![u] = r]
         /\ req' = [req EXCEPT ![r].pending = @ \ {u}, ![r].locked = @ \cup {u}]
    /\ UNCHANGED <<active, admin, roleChanged, alone>>

\* One row of the snapshot is locked, in no particular order (there is no
\* ORDER BY).  The re-check sees a deactivation, not a removed role.
LockRow(r) ==
    /\ At(r, "locking")
    /\ \E u \in req[r].pending :
         /\ rowLock[u] = NoRequest
         /\ rowLock' = [rowLock EXCEPT ![u] = r]
         /\ req' = [req EXCEPT ![r].pending = @ \ {u},
                               ![r].locked = IF active[u] THEN @ \cup {u} ELSE @]
    /\ UNCHANGED <<active, admin, roleChanged, alone>>

\* The guard: the request would take the last active administrator away.
WouldRemoveLast(r) ==
    /\ AtMostOne(req[r].locked)
    /\ req[r].op = "remove" => req[r].target \in req[r].locked

Refuse(r) ==
    /\ At(r, "locking") /\ req[r].pending = {}
    /\ WouldRemoveLast(r)
    /\ Rollback(r)
    /\ UNCHANGED <<active, admin, roleChanged>>

Permit(r) ==
    /\ At(r, "locking") /\ req[r].pending = {}
    /\ ~ WouldRemoveLast(r)
    /\ Goto(r, "write")
    /\ UNCHANGED <<active, admin, rowLock, roleChanged, alone>>

\* UPDATE users SET is_active and COMMIT.  The ORM emits the UPDATE only when
\* the value differs from the one it loaded; it waits for a foreign row lock.
WriteStatus(r) ==
    LET q == req[r]
        new == q.op = "activate"
    IN  /\ At(r, "write") /\ q.op \in {"activate", "deactivate"}
        /\ IF q.seen # new
           THEN /\ Unlocked(r, q.target)
                /\ active' = [active EXCEPT ![q.target] = new]
           ELSE UNCHANGED active
        /\ Commit(r)
        /\ UNCHANGED <<admin, roleChanged>>

\* DELETE of the role row, if there still is one, and COMMIT.
WriteRemoval(r) ==
    LET u == req[r].target
    IN  /\ At(r, "write") /\ req[r].op = "remove"
        /\ admin' = admin \ {u}
        /\ roleChanged' = (roleChanged \/ u \in admin)
        /\ Commit(r)
        /\ UNCHANGED active

\* INSERT of the role row, unless it was there, and COMMIT.  The foreign key
\* check shares the users row, so it waits for FOR UPDATE; a row inserted
\* meanwhile by another request is a primary key conflict.
WriteAssignment(r) ==
    LET u == req[r].target
    IN  /\ At(r, "write") /\ req[r].op = "assign"
        /\ ~ req[r].seen => Unlocked(r, u)
        /\ IF ~ req[r].seen /\ u \in admin
           THEN Rollback(r) /\ UNCHANGED <<admin, roleChanged>>
           ELSE /\ admin' = (IF req[r].seen THEN admin ELSE admin \cup {u})
                /\ roleChanged' = (roleChanged \/ ~ req[r].seen)
                /\ Commit(r)
        /\ UNCHANGED active

\* record_audit: a transaction of its own, after the commit.
RecordAudit(r) ==
    /\ At(r, "audit")
    /\ req' = [req EXCEPT ![r] = Idle]
    /\ UNCHANGED <<active, admin, rowLock, roleChanged, alone>>

-----------------------------------------------------------------------------
(* What the database and the process add. *)

\* The requests whose row locks keep r from moving; none when r can move.
Blockers(r) ==
    LET wanted == IF At(r, "locking") THEN req[r].pending
                  ELSE IF At(r, "write") /\ req[r].op # "remove" THEN {req[r].target}
                  ELSE {}
    IN  IF \A u \in wanted : ~ Unlocked(r, u) THEN {rowLock[u] : u \in wanted} ELSE {}

\* The deadlock detector cancels one request of a cycle of waiters.
BreakDeadlock(r) ==
    /\ \E S \in SUBSET Requests :
         r \in S /\ \A q \in S : Blockers(q) # {} /\ Blockers(q) \subseteq S
    /\ Rollback(r)
    /\ UNCHANGED <<active, admin, roleChanged>>

\* An exception, a lost connection or the end of the process: the open
\* transaction is rolled back, what was committed stays, nothing is audited.
Fail(r) ==
    /\ ~ At(r, "idle")
    /\ Rollback(r)
    /\ UNCHANGED <<active, admin, roleChanged>>

Advance(r) ==
    \/ Load(r)
    \/ CheckRole(r)
    \/ SelectActiveAdmins(r)
    \/ LockRow(r)
    \/ Refuse(r)
    \/ Permit(r)
    \/ WriteStatus(r)
    \/ WriteRemoval(r)
    \/ WriteAssignment(r)
    \/ RecordAudit(r)

Next ==
    \E r \in Requests :
        \/ \E op \in Ops, actor, target \in Users : Begin(r, op, actor, target)
        \/ Advance(r)
        \/ BreakDeadlock(r)
        \/ Fail(r)

Spec == Init /\ [][Next]_vars

\* A thread of the pool keeps running; a waiter on a row lock is served in
\* arrival order, so it is not overtaken for ever; the detector always runs.
Fairness ==
    \A r \in Requests : SF_vars(Advance(r)) /\ WF_vars(BreakDeadlock(r))

FairSpec == Spec /\ Fairness

-----------------------------------------------------------------------------
(* Properties. *)

\* What the repository's docstring promises: two concurrent requests never
\* leave the organization with zero administrators.
SomeActiveAdmin == ActiveAdmins # {}

\* What the lock does give: while no role row has changed, activations and
\* deactivations keep an active administrator whatever their interleaving.
StatusChangesKeepAnAdmin == ~ roleChanged => SomeActiveAdmin

\* A request that saw a user active and locked the row can rely on it until
\* it commits: the guard counts users that are still active when it writes.
LockedUsersStayActive ==
    \A r \in Requests : \A u \in req[r].locked : rowLock[u] = r /\ active[u]

\* The guard itself is right: a request that overlaps no other never takes
\* the last active administrator away, by status or by role.
SerialRequestsKeepAnAdmin ==
    [][ \A r \in Requests :
          /\ SomeActiveAdmin /\ r \in alone
          /\ At(r, "write") /\ ~ At(r, "write")'
          => SomeActiveAdmin' ]_vars

\* Row locks taken in an arbitrary order never block a request for good:
\* every admitted request comes to an end.
RequestsTerminate ==
    \A r \in Requests : ~ At(r, "idle") ~> At(r, "idle")

=============================================================================
