---------------------------- MODULE Invitations ----------------------------
(***************************************************************************)
(* Invitations (Convites) of one organization: issued by an administrator, *)
(* accepted by whoever holds the token, cancelled by an administrator,     *)
(* expired by the clock.  Requests run concurrently, each one a PostgreSQL *)
(* transaction under READ COMMITTED; accept_invitation re-reads the row    *)
(* under SELECT ... FOR UPDATE, cancel_invitation reads it without a lock. *)
(***************************************************************************)
EXTENDS Naturals

CONSTANTS
    InvitationIds,
    Emails,
    Requests,
    NoEmail,    \* the address of an invitation that was not issued
    Direct,     \* the origin of an account no invitation created
    NoRequest,  \* "row not locked"
    NoId,       \* "no invitation": the request slot is free
    Never,      \* a timestamp column that is NULL
    TTL,        \* INVITATION_TTL, in clock ticks
    MaxTime     \* bound on the clock

ASSUME NamesAssumption ==
    /\ NoEmail \notin Emails
    /\ Direct \notin InvitationIds
    /\ NoRequest \notin Requests
    /\ NoId \notin InvitationIds
    /\ Never \notin Nat
ASSUME ClockAssumption == TTL \in Nat \ {0} /\ MaxTime \in Nat

VARIABLES
    now,        \* the clock
    email,      \* invitations.email, NoEmail while there is no such row
    expires,    \* invitations.expires_at
    accepted,   \* invitations.accepted_at
    cancelled,  \* rows whose cancelled_at is not NULL
    accounts,   \* users rows: address and the invitation they come from
    delivered,  \* invitations whose token was returned to the administrator
    rowLock,    \* the request that holds FOR UPDATE on an invitations row
    req         \* what each request slot is doing

table == <<email, expires, accepted, cancelled, accounts>>
vars == <<now, table, delivered, rowLock, req>>

Times == 0 .. MaxTime + TTL

Steps == {"idle", "insert", "auditNew", "publish",      \* create_invitation
          "resolve", "status", "clock", "lock", "write",    \* accept_invitation
          "read", "update",                             \* cancel_invitation
          "audit"}                                      \* the last two

\* stamp is the clock value the request read and still uses.
RequestState ==
    [step: Steps, id: InvitationIds \cup {NoId}, email: Emails \cup {NoEmail}, stamp: Times]

Idle == [step |-> "idle", id |-> NoId, email |-> NoEmail, stamp |-> 0]

\* A request about an existing invitation.
About(i, step) == [step |-> step, id |-> i, email |-> NoEmail, stamp |-> 0]

Account == [email: Emails, origin: InvitationIds \cup {Direct}]

\* Types; a request in progress names an invitation, an issued one unless it
\* is about to insert it.
TypeOK ==
    /\ now \in 0 .. MaxTime
    /\ email \in [InvitationIds -> Emails \cup {NoEmail}]
    /\ expires \in [InvitationIds -> Times]
    /\ accepted \in [InvitationIds -> Times \cup {Never}]
    /\ cancelled \subseteq InvitationIds
    /\ accounts \subseteq Account
    /\ delivered \subseteq InvitationIds
    /\ rowLock \in [InvitationIds -> Requests \cup {NoRequest}]
    /\ req \in [Requests -> RequestState]
    /\ \A r \in Requests : req[r].step # "idle" => req[r].id \in InvitationIds
    /\ \A r \in Requests : req[r].step = "insert" => req[r].email \in Emails
    /\ \A r \in Requests : req[r].step \notin {"idle", "insert"} => email[req[r].id] \in Emails

Init ==
    /\ now = 0
    /\ email = [i \in InvitationIds |-> NoEmail]
    /\ expires = [i \in InvitationIds |-> 0]
    /\ accepted = [i \in InvitationIds |-> Never]
    /\ cancelled = {}
    /\ accounts = {}
    /\ delivered = {}
    /\ rowLock = [i \in InvitationIds |-> NoRequest]
    /\ req = [r \in Requests |-> Idle]

-----------------------------------------------------------------------------
(* Requests and transactions. *)

At(r, step) == req[r].step = step

Goto(r, step) == req' = [req EXCEPT ![r].step = step]

Issued == {i \in InvitationIds : email[i] # NoEmail}

\* Neither accepted_at nor cancelled_at is set.
Open(i) == accepted[i] = Never /\ i \notin cancelled

Free(e) == \A u \in accounts : u.email # e

LocksKept(r) == rowLock' = rowLock   \* variant of ReleaseLocks: a commit keeps its locks

ReleaseLocks(r) ==
    rowLock' = [i \in InvitationIds |-> IF rowLock[i] = r THEN NoRequest ELSE rowLock[i]]

\* The transaction commits and the service records the audit entry next.
Commit(r) == ReleaseLocks(r) /\ Goto(r, "audit")

\* The request ends; a transaction still open is rolled back.
End(r) == ReleaseLocks(r) /\ req' = [req EXCEPT ![r] = Idle]

\* POST /admin/invitations: the service fixes expires_at before the insert.
BeginCreate(r, i, e) ==
    /\ At(r, "idle")
    /\ i \notin Issued /\ \A q \in Requests : req[q].id # i
    /\ req' = [req EXCEPT ![r] = [step |-> "insert", id |-> i, email |-> e, stamp |-> now + TTL]]
    /\ UNCHANGED <<now, table, delivered, rowLock>>

Insert(r) ==
    LET i == req[r].id
    IN  /\ At(r, "insert")
        /\ email' = [email EXCEPT ![i] = req[r].email]
        /\ expires' = [expires EXCEPT ![i] = req[r].stamp]
        /\ Goto(r, "auditNew")
        /\ UNCHANGED <<now, accepted, cancelled, accounts, delivered, rowLock>>

\* record_audit, in a transaction of its own.
AuditNew(r) ==
    /\ At(r, "auditNew")
    /\ Goto(r, "publish")
    /\ UNCHANGED <<now, table, delivered, rowLock>>

\* The notification (no provider yet), the event invitation.created, and the
\* response: only now does anybody hold the token.
PublishAndReturn(r) ==
    /\ At(r, "publish")
    /\ delivered' = delivered \cup {req[r].id}
    /\ End(r)
    /\ UNCHANGED <<now, table>>

\* POST /invitations/accept with a token.
BeginAccept(r, i) ==
    /\ At(r, "idle")
    /\ i \in delivered
    /\ req' = [req EXCEPT ![r] = About(i, "resolve")]
    /\ UNCHANGED <<now, table, delivered, rowLock>>

\* The service looks for the token among the rows neither accepted nor
\* cancelled.
Resolve(r) ==
    /\ At(r, "resolve")
    /\ IF Open(req[r].id) THEN Goto(r, "status") /\ UNCHANGED rowLock ELSE End(r)
    /\ UNCHANGED <<now, table, delivered>>

\* status(now) of the row it found: only the clock is new.
CheckStatus(r) ==
    /\ At(r, "status")
    /\ IF expires[req[r].id] > now THEN Goto(r, "clock") /\ UNCHANGED rowLock ELSE End(r)
    /\ UNCHANGED <<now, table, delivered>>

\* The password is hashed; the repository then reads the clock once more,
\* before its transaction.
ReadClock(r) ==
    /\ At(r, "clock")
    /\ req' = [req EXCEPT ![r].step = "lock", ![r].stamp = now]
    /\ UNCHANGED <<now, table, delivered, rowLock>>

LockUnchecked(r) ==   \* variant of Lock: the row is locked and not checked again
    LET i == req[r].id
    IN  /\ At(r, "lock")
        /\ rowLock[i] = NoRequest
        /\ rowLock' = [rowLock EXCEPT ![i] = r]
        /\ Goto(r, "write")
        /\ UNCHANGED <<now, table, delivered>>

LockTrustsStatus(r) ==   \* variant of Lock: the expiry was the service's business
    LET i == req[r].id
    IN  /\ At(r, "lock")
        /\ rowLock[i] = NoRequest
        /\ IF Open(i)
           THEN rowLock' = [rowLock EXCEPT ![i] = r] /\ Goto(r, "write")
           ELSE End(r)
        /\ UNCHANGED <<now, table, delivered>>

\* SELECT ... FOR UPDATE returns the newest committed row, which is checked
\* again, against the clock value read before the wait.
Lock(r) ==
    LET i == req[r].id
    IN  /\ At(r, "lock")
        /\ rowLock[i] = NoRequest
        /\ IF Open(i) /\ expires[i] > req[r].stamp
           THEN rowLock' = [rowLock EXCEPT ![i] = r] /\ Goto(r, "write")
           ELSE End(r)
        /\ UNCHANGED <<now, table, delivered>>

\* One transaction: the users row, its role, accepted_at.
CreateAccount(r) ==
    LET i == req[r].id
    IN  /\ At(r, "write") /\ Free(email[i])
        /\ accounts' = accounts \cup {[email |-> email[i], origin |-> i]}
        /\ accepted' = [accepted EXCEPT ![i] = req[r].stamp]
        /\ Commit(r)
        /\ UNCHANGED <<now, email, expires, cancelled, delivered>>

\* EmailConflictError: the unique index on lower(email) refuses the account.
EmailConflict(r) ==
    /\ At(r, "write") /\ ~ Free(email[req[r].id])
    /\ End(r)
    /\ UNCHANGED <<now, table, delivered>>

CancelUnknown(r, i) ==   \* variant of BeginCancel: an id without a row is not a 404
    /\ At(r, "idle")
    /\ req' = [req EXCEPT ![r] = About(i, "read")]
    /\ UNCHANGED <<now, table, delivered, rowLock>>

\* DELETE /admin/invitations/{id}, of any invitation the list shows.
BeginCancel(r, i) ==
    /\ At(r, "idle")
    /\ i \in Issued
    /\ req' = [req EXCEPT ![r] = About(i, "read")]
    /\ UNCHANGED <<now, table, delivered, rowLock>>

\* The check of cancel_invitation is made on an unlocked read.
ReadForCancel(r) ==
    /\ At(r, "read")
    /\ IF Open(req[r].id) THEN Goto(r, "update") /\ UNCHANGED rowLock ELSE End(r)
    /\ UNCHANGED <<now, table, delivered>>

ReopenOnUpdate(r) ==   \* variant of UpdateCancelled: the whole row is written back as it was read
    LET i == req[r].id
    IN  /\ At(r, "update") /\ rowLock[i] = NoRequest
        /\ cancelled' = cancelled \cup {i}
        /\ accepted' = [accepted EXCEPT ![i] = Never]
        /\ Commit(r)
        /\ UNCHANGED <<now, email, expires, accounts, delivered>>

\* UPDATE ... SET cancelled_at by primary key, and COMMIT: it waits for the
\* row lock and then applies whatever the row has become.
UpdateCancelled(r) ==
    LET i == req[r].id
    IN  /\ At(r, "update") /\ rowLock[i] = NoRequest
        /\ cancelled' = cancelled \cup {i}
        /\ Commit(r)
        /\ UNCHANGED <<now, email, expires, accepted, accounts, delivered>>

RecordAudit(r) ==
    /\ At(r, "audit")
    /\ End(r)
    /\ UNCHANGED <<now, table, delivered>>

\* An exception, a lost connection or the end of the process, at any step.
Fail(r) ==
    /\ ~ At(r, "idle")
    /\ End(r)
    /\ UNCHANGED <<now, table, delivered>>

-----------------------------------------------------------------------------
(* Around the requests. *)

Tick ==
    /\ now < MaxTime
    /\ now' = now + 1
    /\ UNCHANGED <<table, delivered, rowLock, req>>

\* User management: create_user and update_user (a user may be given another
\* address, so an address that was taken can become free again).
AddAccount(e) ==
    /\ Free(e)
    /\ accounts' = accounts \cup {[email |-> e, origin |-> Direct]}
    /\ UNCHANGED <<now, email, expires, accepted, cancelled, delivered, rowLock, req>>

ChangeEmail(u, e) ==
    /\ Free(e)
    /\ accounts' = (accounts \ {u}) \cup {[u EXCEPT !.email = e]}
    /\ UNCHANGED <<now, email, expires, accepted, cancelled, delivered, rowLock, req>>

Advance(r) ==
    \/ Insert(r)
    \/ AuditNew(r)
    \/ PublishAndReturn(r)
    \/ Resolve(r)
    \/ CheckStatus(r)
    \/ ReadClock(r)
    \/ Lock(r)
    \/ CreateAccount(r)
    \/ EmailConflict(r)
    \/ ReadForCancel(r)
    \/ UpdateCancelled(r)
    \/ RecordAudit(r)

Begin(r) ==
    \E i \in InvitationIds :
        \/ \E e \in Emails : BeginCreate(r, i, e)
        \/ BeginAccept(r, i)
        \/ BeginCancel(r, i)

Next ==
    \/ \E r \in Requests : Begin(r) \/ Advance(r) \/ Fail(r)
    \/ Tick
    \/ \E e \in Emails : AddAccount(e)
    \/ \E e \in Emails : \E u \in accounts : ChangeEmail(u, e)

Spec == Init /\ [][Next]_vars

\* A thread keeps running, and a row lock is granted in arrival order.
FairSpec == Spec /\ \A r \in Requests : SF_vars(Advance(r))

-----------------------------------------------------------------------------
(* Properties. *)

\* A token is good for one account, even when the address it was used for
\* becomes free again; and accepted_at is set in exactly the rows whose
\* account exists (account and stamp are committed together).
SingleUse ==
    /\ \A u, v \in accounts : u.origin = v.origin /\ u.origin # Direct => u = v
    /\ \A i \in InvitationIds :
         accepted[i] # Never <=> \E u \in accounts : u.origin = i

\* accepted_at lies before expires_at, however long the hash and the wait for
\* the row lock took.
AcceptedInTime ==
    \A i \in InvitationIds : accepted[i] # Never => accepted[i] < expires[i]

\* The lifecycle an invitation goes through when accepted_at outranks
\* cancelled_at.
state ==
    [i \in InvitationIds |->
       IF accepted[i] # Never THEN "accepted"
       ELSE IF i \in cancelled THEN "cancelled"
       ELSE IF email[i] # NoEmail THEN "pending" ELSE "absent"]

Lifecycle == INSTANCE InvitationLifecycle WITH
    Invitations <- InvitationIds, address <- email

\* Every interleaving of the requests implements the abstract lifecycle: one
\* terminal step per invitation, an account with every acceptance, nothing
\* accepted once it was cancelled.
ImplementsLifecycle == Lifecycle!LifecycleSpec

\* Every admitted request comes to an end.
RequestsTerminate ==
    \A r \in Requests : ~ At(r, "idle") ~> At(r, "idle")

\* cancel_invitation's docstring: "Cancels only a still-pending invitation".
\* (An expired one may be cancelled too.)
CancelsOnlyOpen ==
    [][ \A i \in InvitationIds : i \in cancelled' /\ i \notin cancelled => accepted[i] = Never ]_vars

=============================================================================
