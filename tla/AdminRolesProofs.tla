-------------------------- MODULE AdminRolesProofs --------------------------
(***************************************************************************)
(* Proofs about AdminRoles, for any sets of users and request slots.       *)
(*                                                                         *)
(* The argument: a request that is about to deactivate an administrator    *)
(* has locked two users at least (GuardPassed); as long as no role row     *)
(* changed, both are administrators (LockedAreAdmins) and both are still   *)
(* active, because nobody else can update a locked row                     *)
(* (LockedUsersStayActive); so one of them remains.  For a request that    *)
(* has had no company, what it read is what is stored: the rows it locks   *)
(* are those of all active administrators (AloneOK), whatever changed      *)
(* before it.                                                              *)
(***************************************************************************)
EXTENDS AdminRoles, TLAPS

\* A status update that can take an administrator away has passed the guard.
GuardPassed ==
    ~ roleChanged =>
        \A r \in Requests :
            At(r, "write") /\ req[r].op = "deactivate" /\ req[r].seen =>
                req[r].target \notin admin \/ ~ AtMostOne(req[r].locked)

\* Rows of the locking select are those of administrators.
LockedAreAdmins ==
    ~ roleChanged =>
        \A r \in Requests : req[r].pending \subseteq admin /\ req[r].locked \subseteq admin

IInv ==
    /\ TypeOK
    /\ LockedUsersStayActive
    /\ GuardPassed
    /\ LockedAreAdmins
    /\ StatusChangesKeepAnAdmin

LEMMA IdleType == Idle \in RequestState /\ Idle.step = "idle"
  BY DEF Idle, RequestState, Steps, Ops

\* The initial states satisfy the inductive invariant.
LEMMA InitIInv == Init => IInv
  <1> SUFFICES ASSUME Init PROVE IInv
    OBVIOUS
  <1>1. \A r \in Requests : req[r] = Idle
    BY DEF Init
  <1>2. TypeOK
    BY <1>1, IdleType DEF Init, TypeOK
  <1>3. LockedUsersStayActive /\ GuardPassed /\ LockedAreAdmins
    BY <1>1 DEF LockedUsersStayActive, GuardPassed, LockedAreAdmins, Idle, At
  <1>4. StatusChangesKeepAnAdmin
    BY DEF Init, StatusChangesKeepAnAdmin, SomeActiveAdmin
  <1> QED BY <1>2, <1>3, <1>4 DEF IInv

\* Every step preserves the types.
LEMMA TypeStep == TypeOK /\ [Next]_vars => TypeOK'
  <1> SUFFICES ASSUME TypeOK, [Next]_vars PROVE TypeOK'
    OBVIOUS
  <1> USE DEF TypeOK
  <1> DEFINE SlotsOK == /\ req' \in [Requests -> RequestState]
                        /\ \A q \in Requests : req'[q].step = "idle" => req'[q] = Idle
                        /\ \A q \in Requests :
                             req'[q].step \notin {"idle", "audit"} => req'[q].target \in Users
  <1>0. ASSUME NEW r \in Requests, NEW n \in RequestState, req' = [req EXCEPT ![r] = n],
               n.step = "idle" => n = Idle,
               n.step \notin {"idle", "audit"} => n.target \in Users
        PROVE  SlotsOK
    BY <1>0
  <1>1. ASSUME NEW r \in Requests, ReleaseLocks(r)
        PROVE  rowLock' \in [Users -> Requests \cup {NoRequest}]
    BY <1>1 DEF ReleaseLocks
  <1>2. ASSUME NEW r \in Requests, Rollback(r), UNCHANGED <<active, admin, roleChanged>>
        PROVE  TypeOK'
    <2>1. SlotsOK
      BY <1>2, <1>0, IdleType DEF Rollback
    <2> QED BY <1>1, <1>2, <2>1 DEF Rollback
  <1>3. ASSUME NEW r \in Requests, Commit(r)
        PROVE  /\ rowLock' \in [Users -> Requests \cup {NoRequest}]
               /\ SlotsOK
               /\ alone' \subseteq Requests
    <2>1. [Idle EXCEPT !.step = "audit"] \in RequestState
      BY DEF Idle, RequestState, Steps, Ops
    <2> QED BY <1>1, <1>3, <2>1 DEF Commit, Idle
  <1>4. ASSUME NEW r \in Requests, NEW s \in Steps \ {"idle"}, ~ At(r, "idle"), ~ At(r, "audit"),
               Goto(r, s)
        PROVE  SlotsOK
    BY <1>4 DEF Goto, At, RequestState, Steps
  <1>5. ASSUME NEW r \in Requests, NEW op \in Ops, NEW actor \in Users, NEW target \in Users,
               Begin(r, op, actor, target)
        PROVE  TypeOK'
    <2> DEFINE n == [Idle EXCEPT !.step = "load", !.op = op, !.target = target]
    <2>1. n \in RequestState /\ n.step = "load" /\ n.target = target
      BY DEF Idle, RequestState, Steps, Ops
    <2>2. req' = [req EXCEPT ![r] = n] /\ alone' \subseteq Requests
      BY <1>5 DEF Begin
    <2> HIDE DEF n
    <2>3. SlotsOK
      BY <1>0, <2>1, <2>2
    <2> QED BY <1>5, <2>2, <2>3 DEF Begin
  <1>6. ASSUME NEW r \in Requests, Load(r) PROVE TypeOK'
    <2>1. PICK next \in {"checkRole", "select", "write"}, seen \in BOOLEAN :
            req' = [req EXCEPT ![r].step = next, ![r].seen = seen]
      <3> DEFINE sn == IF req[r].op = "assign" THEN req[r].target \in admin
                       ELSE active[req[r].target]
                 nx == CASE req[r].op = "deactivate" /\ sn -> "checkRole"
                         [] req[r].op = "remove" /\ sn -> "select"
                         [] OTHER -> "write"
      <3>1. req[r].target \in Users
        BY <1>6, IdleType DEF Load, At
      <3>2. sn \in BOOLEAN
        <4>1. (req[r].target \in admin) \in BOOLEAN /\ active[req[r].target] \in BOOLEAN
          BY <3>1
        <4> QED BY <4>1, Zenon
      <3>3. nx \in {"checkRole", "select", "write"}
        OBVIOUS
      <3>4. req' = [req EXCEPT ![r].step = nx, ![r].seen = sn]
        BY <1>6 DEF Load
      <3> HIDE DEF sn, nx
      <3> QED BY <3>2, <3>3, <3>4
    <2> DEFINE n == [req[r] EXCEPT !.step = next, !.seen = seen]
    <2>2. n \in RequestState /\ n.step = next /\ n.target = req[r].target
      BY DEF RequestState, Steps
    <2>3. req' = [req EXCEPT ![r] = n]
      BY <2>1
    <2> HIDE DEF n
    <2>4. SlotsOK
      BY <1>0, <1>6, <2>2, <2>3 DEF Load, At
    <2> QED BY <1>6, <2>4 DEF Load
  <1>7. ASSUME NEW r \in Requests, CheckRole(r) PROVE TypeOK'
    BY <1>7, <1>4 DEF CheckRole, Steps, At
  <1>8. ASSUME NEW r \in Requests, SelectActiveAdmins(r) PROVE TypeOK'
    <2> DEFINE n == [req[r] EXCEPT !.step = "locking", !.pending = ActiveAdmins]
    <2>1. n \in RequestState /\ n.step = "locking" /\ n.target = req[r].target
      BY DEF RequestState, Steps, ActiveAdmins
    <2>2. req' = [req EXCEPT ![r] = n]
      BY <1>8 DEF SelectActiveAdmins
    <2> HIDE DEF n
    <2>3. SlotsOK
      BY <1>0, <1>8, <2>1, <2>2 DEF SelectActiveAdmins, At
    <2> QED BY <1>8, <2>3 DEF SelectActiveAdmins
  <1>9. ASSUME NEW r \in Requests, LockRow(r) PROVE TypeOK'
    <2>1. PICK u \in req[r].pending :
            /\ rowLock' = [rowLock EXCEPT ![u] = r]
            /\ req' = [req EXCEPT ![r].pending = @ \ {u},
                                  ![r].locked = IF active[u] THEN @ \cup {u} ELSE @]
      BY <1>9 DEF LockRow
    <2> DEFINE n == [req[r] EXCEPT !.pending = @ \ {u},
                                   !.locked = IF active[u] THEN @ \cup {u} ELSE @]
    <2>2. n \in RequestState /\ n.step = req[r].step /\ n.target = req[r].target
      BY DEF RequestState
    <2>3. req' = [req EXCEPT ![r] = n]
      BY <2>1
    <2> HIDE DEF n
    <2>4. SlotsOK
      BY <1>0, <1>9, <2>2, <2>3 DEF LockRow, At
    <2>5. rowLock' \in [Users -> Requests \cup {NoRequest}]
      BY <2>1
    <2> QED BY <1>9, <2>4, <2>5 DEF LockRow
  <1>10. ASSUME NEW r \in Requests, Permit(r) PROVE TypeOK'
    BY <1>10, <1>4 DEF Permit, Steps, At
  <1>11. ASSUME NEW r \in Requests, WriteStatus(r) PROVE TypeOK'
    <2>1. active' \in [Users -> BOOLEAN]
      BY <1>11 DEF WriteStatus
    <2> QED BY <1>11, <1>3, <2>1 DEF WriteStatus
  <1>12. ASSUME NEW r \in Requests, WriteRemoval(r) PROVE TypeOK'
    BY <1>12, <1>3 DEF WriteRemoval
  <1>13. ASSUME NEW r \in Requests, WriteAssignment(r) PROVE TypeOK'
    <2>1. CASE ~ req[r].seen /\ req[r].target \in admin
      BY <1>13, <1>2, <2>1 DEF WriteAssignment
    <2>2. CASE ~ (~ req[r].seen /\ req[r].target \in admin)
      <3>1. req[r].target \in Users
        BY <1>13 DEF WriteAssignment, At, RequestState, Idle
      <3> QED BY <1>13, <1>3, <2>2, <3>1 DEF WriteAssignment
    <2> QED BY <2>1, <2>2
  <1>14. ASSUME NEW r \in Requests, RecordAudit(r) PROVE TypeOK'
    BY <1>14, <1>0, IdleType DEF RecordAudit
  <1>15. CASE UNCHANGED vars
    BY <1>15 DEF vars
  <1> QED
    BY <1>2, <1>5, <1>6, <1>7, <1>8, <1>9, <1>10, <1>11, <1>12, <1>13, <1>14, <1>15
    DEF Next, Advance, Refuse, BreakDeadlock, Fail


\* A step of r leaves what the other slots know alone.
Others(r) == \A q \in Requests \ {r} : req'[q] = req[q]

\* What a slot that no longer holds row locks contributes to the invariant: nothing.
Released(r) ==
    /\ req'[r].pending = {} /\ req'[r].locked = {}
    /\ ~ (req'[r].step = "write")

LEMMA EndsReleased ==
    ASSUME TypeOK, NEW r \in Requests, Commit(r) \/ Rollback(r)
    PROVE  /\ Others(r) /\ Released(r)
           /\ \A q \in Requests \ {r}, u \in Users : rowLock[u] = q => rowLock'[u] = q
  BY NoRequestAssumption DEF TypeOK, Commit, Rollback, ReleaseLocks, Others, Released, Idle

\* A transaction that ends and clears nobody's is_active keeps every conjunct.
LEMMA QuietEnd ==
    ASSUME IInv, TypeOK', NEW r \in Requests, Commit(r) \/ Rollback(r),
           \A u \in Users : active[u] => active'[u],
           roleChanged' \/ (admin' = admin /\ roleChanged' = roleChanged)
    PROVE  IInv'
  <1> USE EndsReleased DEF IInv
  <1>1. LockedUsersStayActive'
    BY DEF LockedUsersStayActive, Others, Released, TypeOK, RequestState
  <1>2. GuardPassed'
    BY DEF GuardPassed, Others, Released, At, TypeOK
  <1>3. LockedAreAdmins'
    BY DEF LockedAreAdmins, Others, Released, TypeOK
  <1>4. StatusChangesKeepAnAdmin'
    BY DEF StatusChangesKeepAnAdmin, SomeActiveAdmin, ActiveAdmins, TypeOK
  <1> QED BY <1>1, <1>2, <1>3, <1>4

\* A step inside a transaction changes one slot only and writes no table.
LEMMA InnerStep ==
    ASSUME IInv, TypeOK', NEW r \in Requests, NEW n, req' = [req EXCEPT ![r] = n],
           UNCHANGED <<active, admin, rowLock, roleChanged>>,
           n.locked = req[r].locked,
           n.pending \subseteq req[r].pending \/ n.pending = ActiveAdmins,
           n.step = "write" /\ n.op = "deactivate" /\ n.seen =>
               n.target \notin admin \/ ~ AtMostOne(n.locked)
    PROVE  IInv'
  <1> USE DEF IInv, TypeOK
  <1>1. LockedUsersStayActive'
    BY DEF LockedUsersStayActive
  <1>2. GuardPassed'
    BY DEF GuardPassed, At
  <1>3. LockedAreAdmins'
    BY DEF LockedAreAdmins, ActiveAdmins
  <1>4. StatusChangesKeepAnAdmin'
    BY DEF StatusChangesKeepAnAdmin, SomeActiveAdmin, ActiveAdmins
  <1> QED BY <1>1, <1>2, <1>3, <1>4

\* The heart of the matter: a deactivation that passed the guard leaves an
\* active administrator, and takes no row that another request has locked.
LEMMA Deactivation ==
    ASSUME IInv, TypeOK', NEW r \in Requests, WriteStatus(r),
           req[r].op = "deactivate", req[r].seen
    PROVE  IInv'
  <1> DEFINE t == req[r].target
  <1> USE DEF IInv
  <1>1. /\ At(r, "write") /\ Commit(r) /\ UNCHANGED <<admin, roleChanged>>
        /\ rowLock[t] \in {NoRequest, r}
        /\ active' = [active EXCEPT ![t] = FALSE]
    BY DEF WriteStatus, Unlocked
  <1> HIDE DEF t
  <1>2. Others(r) /\ Released(r)
        /\ \A q \in Requests \ {r}, u \in Users : rowLock[u] = q => rowLock'[u] = q
    BY <1>1, EndsReleased
  <1>3. LockedUsersStayActive'
    <2> SUFFICES ASSUME NEW q \in Requests, NEW u \in req'[q].locked
                 PROVE  rowLock'[u] = q /\ active'[u]
      BY DEF LockedUsersStayActive
    <2>1. q # r /\ req'[q] = req[q]
      BY <1>2 DEF Others, Released
    <2>2. u \in Users /\ rowLock[u] = q /\ active[u]
      BY <2>1 DEF LockedUsersStayActive, TypeOK, RequestState
    <2>3. u # t
      BY <1>1, <2>1, <2>2, NoRequestAssumption
    <2> QED BY <1>1, <1>2, <2>1, <2>2, <2>3 DEF TypeOK
  <1>4. GuardPassed'
    BY <1>1, <1>2 DEF GuardPassed, Others, Released, At, TypeOK
  <1>5. LockedAreAdmins'
    BY <1>1, <1>2 DEF LockedAreAdmins, Others, Released, TypeOK
  <1>6. StatusChangesKeepAnAdmin'
    <2> SUFFICES ASSUME ~ roleChanged PROVE \E v \in admin : v # t /\ active[v]
      BY <1>1 DEF StatusChangesKeepAnAdmin, SomeActiveAdmin, ActiveAdmins, TypeOK
    <2>1. CASE t \notin admin
      BY <2>1 DEF StatusChangesKeepAnAdmin, SomeActiveAdmin, ActiveAdmins
    <2>2. CASE t \in admin
      <3>1. ~ AtMostOne(req[r].locked)
        BY <1>1, <2>2 DEF GuardPassed, t
      <3>2. PICK v \in req[r].locked : v # t
        BY <3>1 DEF AtMostOne
      <3> QED BY <3>2 DEF LockedAreAdmins, LockedUsersStayActive
    <2> QED BY <2>1, <2>2
  <1> QED BY <1>3, <1>4, <1>5, <1>6


\* Every step preserves the inductive invariant.
LEMMA IInvStep == IInv /\ [Next]_vars => IInv'
  <1> SUFFICES ASSUME IInv, [Next]_vars PROVE IInv'
    OBVIOUS
  <1>0. TypeOK /\ TypeOK'
    BY TypeStep DEF IInv
  <1>1. ASSUME NEW r \in Requests, Rollback(r), UNCHANGED <<active, admin, roleChanged>>
        PROVE  IInv'
    BY <1>0, <1>1, QuietEnd
  <1>2. ASSUME NEW r \in Requests, NEW op \in Ops, NEW actor \in Users, NEW target \in Users,
               Begin(r, op, actor, target)
        PROVE  IInv'
    <2> DEFINE n == [Idle EXCEPT !.step = "load", !.op = op, !.target = target]
    <2>1. n.step = "load" /\ n.pending = {} /\ n.locked = {}
      BY DEF Idle
    <2>2. req[r].locked = {} /\ req' = [req EXCEPT ![r] = n]
      BY <1>0, <1>2 DEF Begin, At, TypeOK, Idle
    <2> HIDE DEF n
    <2> QED BY <1>0, <1>2, <2>1, <2>2, InnerStep DEF Begin
  <1>3. ASSUME NEW r \in Requests, Load(r) PROVE IInv'
    <2> DEFINE sn == IF req[r].op = "assign" THEN req[r].target \in admin
                     ELSE active[req[r].target]
               nx == CASE req[r].op = "deactivate" /\ sn -> "checkRole"
                       [] req[r].op = "remove" /\ sn -> "select"
                       [] OTHER -> "write"
               n == [req[r] EXCEPT !.step = nx, !.seen = sn]
    <2>1. req' = [req EXCEPT ![r] = n]
      BY <1>0, <1>3 DEF Load, TypeOK
    <2>2. /\ n.step = nx /\ n.seen = sn /\ n.op = req[r].op
          /\ n.locked = req[r].locked /\ n.pending = req[r].pending
      BY <1>0 DEF TypeOK, RequestState
    <2>3. ~ (nx = "write" /\ req[r].op = "deactivate" /\ sn)
      OBVIOUS
    <2> HIDE DEF n, nx, sn
    <2> QED BY <1>0, <1>3, <2>1, <2>2, <2>3, InnerStep DEF Load
  <1>4. ASSUME NEW r \in Requests, CheckRole(r) PROVE IInv'
    <2> DEFINE nx == IF req[r].target \in admin THEN "select" ELSE "write"
               n == [req[r] EXCEPT !.step = nx]
    <2>1. req' = [req EXCEPT ![r] = n]
      BY <1>0, <1>4 DEF CheckRole, Goto, TypeOK
    <2>2. /\ n.step = nx /\ n.target = req[r].target
          /\ n.locked = req[r].locked /\ n.pending = req[r].pending
      BY <1>0 DEF TypeOK, RequestState
    <2>3. nx = "write" => req[r].target \notin admin
      OBVIOUS
    <2> HIDE DEF n, nx
    <2> QED BY <1>0, <1>4, <2>1, <2>2, <2>3, InnerStep DEF CheckRole
  <1>5. ASSUME NEW r \in Requests, SelectActiveAdmins(r) PROVE IInv'
    <2> DEFINE n == [req[r] EXCEPT !.step = "locking", !.pending = ActiveAdmins]
    <2>1. req' = [req EXCEPT ![r] = n]
      BY <1>0, <1>5 DEF SelectActiveAdmins, TypeOK
    <2>2. n.step = "locking" /\ n.locked = req[r].locked /\ n.pending = ActiveAdmins
      BY <1>0 DEF TypeOK, RequestState
    <2> HIDE DEF n
    <2> QED BY <1>0, <1>5, <2>1, <2>2, InnerStep DEF SelectActiveAdmins
  <1>6. ASSUME NEW r \in Requests, LockRow(r) PROVE IInv'
    <2>1. PICK u \in req[r].pending :
            /\ rowLock[u] = NoRequest
            /\ rowLock' = [rowLock EXCEPT ![u] = r]
            /\ req' = [req EXCEPT ![r].pending = @ \ {u},
                                  ![r].locked = IF active[u] THEN @ \cup {u} ELSE @]
      BY <1>6 DEF LockRow
    <2>2. /\ At(r, "locking") /\ u \in Users
          /\ UNCHANGED <<active, admin, roleChanged>>
      BY <1>0, <1>6 DEF LockRow, TypeOK, RequestState
    <2>3. /\ req'[r].step = "locking"
          /\ req'[r].pending = req[r].pending \ {u}
          /\ req'[r].locked = IF active[u] THEN req[r].locked \cup {u} ELSE req[r].locked
          /\ Others(r)
      BY <1>0, <2>1, <2>2 DEF At, TypeOK, RequestState, Others
    <2>4. LockedUsersStayActive'
      BY <1>0, <2>1, <2>2, <2>3, NoRequestAssumption
      DEF IInv, LockedUsersStayActive, Others, TypeOK, RequestState
    <2>5. GuardPassed'
      BY <1>0, <2>2, <2>3 DEF IInv, GuardPassed, Others, At
    <2>6. LockedAreAdmins'
      <3> SUFFICES ASSUME ~ roleChanged, NEW q \in Requests
                   PROVE  req'[q].pending \subseteq admin /\ req'[q].locked \subseteq admin
        BY <2>2 DEF LockedAreAdmins
      <3>1. req[q].pending \subseteq admin /\ req[q].locked \subseteq admin /\ u \in admin
        BY <2>1 DEF IInv, LockedAreAdmins
      <3>2. CASE q = r
        BY <2>3, <3>1, <3>2
      <3>3. CASE q # r
        BY <2>3, <3>1, <3>3 DEF Others
      <3> QED BY <3>2, <3>3
    <2>7. StatusChangesKeepAnAdmin'
      BY <2>2 DEF IInv, StatusChangesKeepAnAdmin, SomeActiveAdmin, ActiveAdmins
    <2> QED BY <1>0, <2>4, <2>5, <2>6, <2>7 DEF IInv
  <1>7. ASSUME NEW r \in Requests, Permit(r) PROVE IInv'
    <2> DEFINE n == [req[r] EXCEPT !.step = "write"]
    <2>1. req' = [req EXCEPT ![r] = n]
      BY <1>0, <1>7 DEF Permit, Goto, TypeOK
    <2>2. /\ n.op = req[r].op
          /\ n.locked = req[r].locked /\ n.pending = req[r].pending
      BY <1>0 DEF TypeOK, RequestState
    <2>3. req[r].op = "deactivate" => ~ AtMostOne(req[r].locked)
      BY <1>7 DEF Permit, WouldRemoveLast
    <2> HIDE DEF n
    <2> QED BY <1>0, <1>7, <2>1, <2>2, <2>3, InnerStep DEF Permit
  <1>8. ASSUME NEW r \in Requests, WriteStatus(r) PROVE IInv'
    <2>1. CASE req[r].op = "deactivate" /\ req[r].seen
      BY <1>0, <1>8, <2>1, Deactivation
    <2>2. CASE ~ (req[r].op = "deactivate" /\ req[r].seen)
      <3>1. \A u \in Users : active[u] => active'[u]
        <4>1. \/ UNCHANGED active
              \/ /\ req[r].op = "activate"
                 /\ active' = [active EXCEPT ![req[r].target] = TRUE]
          <5>1. CASE req[r].op = "activate"
            BY <1>8, <5>1 DEF WriteStatus
          <5>2. CASE req[r].op # "activate"
            <6>1. req[r].op = "deactivate" /\ req[r].seen = FALSE
              BY <1>0, <1>8, <2>2, <5>2 DEF WriteStatus, TypeOK, RequestState
            <6> QED BY <1>8, <5>2, <6>1 DEF WriteStatus
          <5> QED BY <5>1, <5>2
        <4> QED BY <1>0, <4>1 DEF TypeOK
      <3> QED BY <1>0, <1>8, <3>1, QuietEnd DEF WriteStatus
    <2> QED BY <2>1, <2>2
  <1>9. ASSUME NEW r \in Requests, WriteRemoval(r) PROVE IInv'
    <2>1. roleChanged' \/ (admin' = admin /\ roleChanged' = roleChanged)
      BY <1>0, <1>9 DEF WriteRemoval, TypeOK
    <2> QED BY <1>0, <1>9, <2>1, QuietEnd DEF WriteRemoval
  <1>10. ASSUME NEW r \in Requests, WriteAssignment(r) PROVE IInv'
    <2>1. roleChanged' \/ (admin' = admin /\ roleChanged' = roleChanged)
      BY <1>0, <1>10 DEF WriteAssignment, TypeOK
    <2> QED BY <1>0, <1>10, <2>1, QuietEnd DEF WriteAssignment
  <1>11. ASSUME NEW r \in Requests, RecordAudit(r) PROVE IInv'
    <2>1. Idle.locked = {} /\ Idle.pending = {} /\ Idle.step = "idle"
      BY DEF Idle
    <2>2. req' = [req EXCEPT ![r] = Idle] /\ Others(r) /\ Released(r)
          /\ UNCHANGED <<active, admin, rowLock, roleChanged>>
      BY <1>0, <1>11, <2>1 DEF RecordAudit, Others, Released, TypeOK
    <2>3. LockedUsersStayActive'
      BY <2>2 DEF IInv, LockedUsersStayActive, Others, Released
    <2>4. GuardPassed'
      BY <2>2 DEF IInv, GuardPassed, Others, Released, At
    <2>5. LockedAreAdmins' /\ StatusChangesKeepAnAdmin'
      BY <2>2 DEF IInv, LockedAreAdmins, Others, Released, StatusChangesKeepAnAdmin,
                  SomeActiveAdmin, ActiveAdmins
    <2> QED BY <1>0, <2>3, <2>4, <2>5 DEF IInv
  <1>12. CASE UNCHANGED vars
    BY <1>0, <1>12 DEF vars, IInv, LockedUsersStayActive, GuardPassed, LockedAreAdmins, At,
                       StatusChangesKeepAnAdmin, SomeActiveAdmin, ActiveAdmins
  <1> QED
    BY <1>1, <1>2, <1>3, <1>4, <1>5, <1>6, <1>7, <1>8, <1>9, <1>10, <1>11, <1>12
    DEF Next, Advance, Refuse, BreakDeadlock, Fail

\* The inductive invariant holds in every reachable state.
THEOREM Invariance == Spec => []IInv
  BY InitIInv, IInvStep, PTL DEF Spec

\* Every reachable state is well typed and a free request slot carries
\* nothing over from its last request.
THEOREM TypeCorrect == Spec => []TypeOK
  <1>1. IInv => TypeOK
    BY DEF IInv
  <1> QED BY <1>1, Invariance, PTL

\* A user that a request has locked through _lock_active_admin_user_ids is
\* still active whenever the request acts on that count.
THEOREM LockSoundness == Spec => []LockedUsersStayActive
  <1>1. IInv => LockedUsersStayActive
    BY DEF IInv
  <1> QED BY <1>1, Invariance, PTL

\* However many requests change users.is_active at once, the organization
\* keeps an active administrator as long as no user_roles row changes.
THEOREM LastAdminSurvivesStatusChanges == Spec => []StatusChangesKeepAnAdmin
  <1>1. IInv => StatusChangesKeepAnAdmin
    BY DEF IInv
  <1> QED BY <1>1, Invariance, PTL

-----------------------------------------------------------------------------
(* Requests that no other has overlapped. *)

\* To write would leave an active administrator.
SparesOne(q) ==
    SomeActiveAdmin /\ ((q.op = "deactivate" /\ q.seen) \/ q.op = "remove") =>
        ActiveAdmins \ {q.target} # {}

\* What such a request has read is what is stored, so the guard counts the
\* administrators there are.
AloneOK(r) ==
    /\ \A p \in Requests \ {r} : At(p, "idle")
    /\ ~ At(r, "idle") /\ ~ At(r, "audit")
    /\ req[r].step \in {"load", "checkRole", "select"} => req[r].locked = {}
    /\ At(r, "locking") => req[r].pending \cup req[r].locked = ActiveAdmins
    /\ At(r, "write") => SparesOne(req[r])

SerialInv == \A r \in alone : AloneOK(r)

\* A step inside the transaction, which writes no table.
LEMMA AloneMoves ==
    ASSUME TypeOK, TypeOK', SerialInv, NEW r \in Requests,
           NEW n, req' = [req EXCEPT ![r] = n], UNCHANGED <<active, admin, alone>>,
           ~ At(r, "idle"), n.step \in {"checkRole", "select", "locking", "write"},
           AloneOK(r) =>
              /\ n.step \in {"checkRole", "select"} => n.locked = {}
              /\ n.step = "locking" => n.pending \cup n.locked = ActiveAdmins
              /\ n.step = "write" => SparesOne(n)
    PROVE  SerialInv'
  <1> SUFFICES ASSUME NEW s \in alone PROVE AloneOK(s)'
    BY DEF SerialInv
  <1>1. s \in Requests /\ AloneOK(s)
    BY DEF SerialInv, TypeOK
  <1>2. s = r
    BY <1>1 DEF AloneOK
  <1>3. req'[r] = n /\ \A p \in Requests \ {r} : req'[p] = req[p]
    BY DEF TypeOK
  <1>4. ActiveAdmins' = ActiveAdmins /\ (SomeActiveAdmin' <=> SomeActiveAdmin)
    BY DEF ActiveAdmins, SomeActiveAdmin
  <1>5. SparesOne(n) => SparesOne(n)'
    BY <1>4 DEF SparesOne
  <1> QED BY <1>1, <1>2, <1>3, <1>4, <1>5 DEF AloneOK, At

\* A transaction that ends is not followed any more.
LEMMA AloneEnds ==
    ASSUME TypeOK, SerialInv, NEW r \in Requests, Commit(r) \/ Rollback(r),
           At(r, "idle") => UNCHANGED <<active, admin>> /\ Rollback(r)
    PROVE  SerialInv'
  <1> SUFFICES ASSUME NEW s \in alone' PROVE AloneOK(s)'
    BY DEF SerialInv
  <1>1. s \in Requests /\ s # r /\ AloneOK(s)
    BY DEF SerialInv, TypeOK, Commit, Rollback
  <1>2. At(r, "idle")
    BY <1>1 DEF AloneOK
  <1>3. req' = [req EXCEPT ![r] = Idle] /\ UNCHANGED <<active, admin>>
    BY <1>2 DEF Rollback
  <1>4. \A p \in Requests : req'[p] = req[p]
    BY <1>2, <1>3 DEF TypeOK, At
  <1> QED BY <1>1, <1>3, <1>4 DEF AloneOK, At, SparesOne, SomeActiveAdmin, ActiveAdmins

LEMMA SerialStep == IInv /\ SerialInv /\ [Next]_vars => SerialInv'
  <1> SUFFICES ASSUME IInv, SerialInv, [Next]_vars PROVE SerialInv'
    OBVIOUS
  <1>0. TypeOK /\ TypeOK'
    BY TypeStep DEF IInv
  <1>1. ASSUME NEW r \in Requests, NEW op \in Ops, NEW actor \in Users, NEW target \in Users,
               Begin(r, op, actor, target)
        PROVE  SerialInv'
    <2> SUFFICES ASSUME NEW s \in alone' PROVE AloneOK(s)'
      BY DEF SerialInv
    <2> DEFINE n == [Idle EXCEPT !.step = "load", !.op = op, !.target = target]
    <2>1. n.step = "load" /\ n.locked = {}
      BY DEF Idle
    <2>2. s = r /\ (\A p \in Requests \ {r} : At(p, "idle")) /\ req' = [req EXCEPT ![r] = n]
      BY <1>1 DEF Begin
    <2> HIDE DEF n
    <2> QED BY <1>0, <2>1, <2>2 DEF AloneOK, At, TypeOK
  <1>2. ASSUME NEW r \in Requests, Load(r) PROVE SerialInv'
    <2> DEFINE sn == IF req[r].op = "assign" THEN req[r].target \in admin
                     ELSE active[req[r].target]
               nx == CASE req[r].op = "deactivate" /\ sn -> "checkRole"
                       [] req[r].op = "remove" /\ sn -> "select"
                       [] OTHER -> "write"
               n == [req[r] EXCEPT !.step = nx, !.seen = sn]
    <2>1. req' = [req EXCEPT ![r] = n]
      BY <1>0, <1>2 DEF Load, TypeOK
    <2>2. /\ n.step = nx /\ n.seen = sn /\ n.op = req[r].op /\ n.target = req[r].target
          /\ n.locked = req[r].locked
      BY <1>0 DEF TypeOK, RequestState
    <2>3. nx \in {"checkRole", "select", "write"}
      OBVIOUS
    <2>4. /\ ~ (nx = "write" /\ req[r].op = "deactivate" /\ sn)
          /\ nx = "write" /\ req[r].op = "remove" => ~ active[req[r].target]
      OBVIOUS
    <2> HIDE DEF n, nx, sn
    <2>5. n.step = "write" => SparesOne(n)
      BY <2>2, <2>4 DEF SparesOne, SomeActiveAdmin, ActiveAdmins
    <2> QED BY <1>0, <1>2, <2>1, <2>2, <2>3, <2>5, AloneMoves DEF Load, At, AloneOK
  <1>3. ASSUME NEW r \in Requests, CheckRole(r) PROVE SerialInv'
    <2> DEFINE nx == IF req[r].target \in admin THEN "select" ELSE "write"
               n == [req[r] EXCEPT !.step = nx]
    <2>1. req' = [req EXCEPT ![r] = n]
      BY <1>0, <1>3 DEF CheckRole, Goto, TypeOK
    <2>2. n.step = nx /\ n.target = req[r].target /\ n.locked = req[r].locked
      BY <1>0 DEF TypeOK, RequestState
    <2>3. nx \in {"select", "write"} /\ (nx = "write" => req[r].target \notin admin)
      OBVIOUS
    <2> HIDE DEF n, nx
    <2>4. n.step = "write" => SparesOne(n)
      BY <2>2, <2>3 DEF SparesOne, SomeActiveAdmin, ActiveAdmins
    <2> QED BY <1>0, <1>3, <2>1, <2>2, <2>3, <2>4, AloneMoves DEF CheckRole, At, AloneOK
  <1>4. ASSUME NEW r \in Requests, SelectActiveAdmins(r) PROVE SerialInv'
    <2> DEFINE n == [req[r] EXCEPT !.step = "locking", !.pending = ActiveAdmins]
    <2>1. req' = [req EXCEPT ![r] = n]
      BY <1>0, <1>4 DEF SelectActiveAdmins, TypeOK
    <2>2. n.step = "locking" /\ n.locked = req[r].locked /\ n.pending = ActiveAdmins
      BY <1>0 DEF TypeOK, RequestState
    <2> HIDE DEF n
    <2> QED BY <1>0, <1>4, <2>1, <2>2, AloneMoves DEF SelectActiveAdmins, At, AloneOK
  <1>5. ASSUME NEW r \in Requests, LockRow(r) PROVE SerialInv'
    <2>1. PICK u \in req[r].pending :
            req' = [req EXCEPT ![r].pending = @ \ {u},
                               ![r].locked = IF active[u] THEN @ \cup {u} ELSE @]
      BY <1>5 DEF LockRow
    <2> DEFINE n == [req[r] EXCEPT !.pending = req[r].pending \ {u},
                         !.locked = IF active[u] THEN req[r].locked \cup {u} ELSE req[r].locked]
    <2>2. req' = [req EXCEPT ![r] = n]
      BY <1>0, <2>1 DEF TypeOK
    <2>3. /\ n.step = "locking" /\ n.pending = req[r].pending \ {u}
          /\ n.locked = IF active[u] THEN req[r].locked \cup {u} ELSE req[r].locked
      BY <1>0, <1>5 DEF TypeOK, RequestState, LockRow, At
    <2> HIDE DEF n
    <2>4. AloneOK(r) => n.pending \cup n.locked = ActiveAdmins
      BY <1>5, <2>1, <2>3 DEF AloneOK, LockRow, ActiveAdmins
    <2> QED BY <1>0, <1>5, <2>2, <2>3, <2>4, AloneMoves DEF LockRow, At
  <1>6. ASSUME NEW r \in Requests, Permit(r) PROVE SerialInv'
    <2> DEFINE n == [req[r] EXCEPT !.step = "write"]
    <2>1. req' = [req EXCEPT ![r] = n]
      BY <1>0, <1>6 DEF Permit, Goto, TypeOK
    <2>2. n.step = "write" /\ n.op = req[r].op /\ n.target = req[r].target
      BY <1>0 DEF TypeOK, RequestState
    <2> HIDE DEF n
    <2>3. ASSUME AloneOK(r) PROVE SparesOne(n)
      <3>1. req[r].locked = ActiveAdmins
        BY <1>6, <2>3 DEF Permit, AloneOK
      <3>2. ~ AtMostOne(ActiveAdmins) \/ req[r].target \notin ActiveAdmins
        BY <1>6, <3>1 DEF Permit, WouldRemoveLast
      <3>3. SomeActiveAdmin => ActiveAdmins \ {req[r].target} # {}
        BY <3>2 DEF AtMostOne, SomeActiveAdmin
      <3> QED BY <2>2, <3>3 DEF SparesOne
    <2> QED BY <1>0, <1>6, <2>1, <2>2, <2>3, AloneMoves DEF Permit, At
  <1>7. ASSUME NEW r \in Requests, Rollback(r), UNCHANGED <<active, admin>> PROVE SerialInv'
    BY <1>0, <1>7, AloneEnds
  <1>8. ASSUME NEW r \in Requests, WriteStatus(r) \/ WriteRemoval(r) \/ WriteAssignment(r)
        PROVE  SerialInv'
    BY <1>0, <1>8, AloneEnds DEF WriteStatus, WriteRemoval, WriteAssignment, At
  <1>9. ASSUME NEW r \in Requests, RecordAudit(r) PROVE SerialInv'
    <2>1. alone = {}
      BY <1>0, <1>9 DEF RecordAudit, SerialInv, AloneOK, At, TypeOK
    <2> QED BY <1>9, <2>1 DEF RecordAudit, SerialInv
  <1>10. CASE UNCHANGED vars
    BY <1>10 DEF vars, SerialInv, AloneOK, At, SparesOne, SomeActiveAdmin, ActiveAdmins
  <1> QED
    BY <1>1, <1>2, <1>3, <1>4, <1>5, <1>6, <1>7, <1>8, <1>9, <1>10
    DEF Next, Advance, Refuse, BreakDeadlock, Fail

\* A request that has had no company writes only what leaves an active
\* administrator, whether it deactivates a user or removes a role.
LEMMA AloneWrites ==
    ASSUME IInv, SerialInv, [Next]_vars, SomeActiveAdmin, NEW r \in alone,
           At(r, "write"), ~ At(r, "write")'
    PROVE  SomeActiveAdmin'
  <1>1. TypeOK /\ r \in Requests /\ AloneOK(r) /\ SparesOne(req[r])
    BY DEF IInv, TypeOK, SerialInv, AloneOK
  <1>2. CASE UNCHANGED <<active, admin>>
    BY <1>2 DEF SomeActiveAdmin, ActiveAdmins
  <1>3. ASSUME NEW p \in Requests, WriteStatus(p) \/ WriteRemoval(p) \/ WriteAssignment(p)
        PROVE  p = r
    BY <1>1, <1>3 DEF AloneOK, At, WriteStatus, WriteRemoval, WriteAssignment
  <1>4. CASE WriteStatus(r)
    <2>1. CASE req[r].op = "deactivate" /\ req[r].seen
      <3>1. active' = [active EXCEPT ![req[r].target] = FALSE] /\ admin' = admin
        BY <1>4, <2>1 DEF WriteStatus
      <3>2. PICK u \in ActiveAdmins : u # req[r].target
        BY <1>1, <2>1 DEF SparesOne
      <3>3. u \in admin /\ active'[u]
        BY <1>1, <3>1, <3>2 DEF ActiveAdmins, TypeOK
      <3> QED BY <3>1, <3>3 DEF SomeActiveAdmin, ActiveAdmins
    <2>2. CASE req[r].op = "activate"
      <3>1. (active' = active \/ active' = [active EXCEPT ![req[r].target] = TRUE]) /\ admin' = admin
        BY <1>4, <2>2 DEF WriteStatus
      <3>2. \A u \in Users : active[u] => active'[u]
        BY <1>1, <3>1 DEF TypeOK
      <3> QED BY <1>1, <3>1, <3>2 DEF SomeActiveAdmin, ActiveAdmins, TypeOK
    <2>3. CASE req[r].op = "deactivate" /\ ~ req[r].seen
      <3>1. req[r].seen = FALSE
        BY <1>1, <2>3 DEF TypeOK, RequestState
      <3>2. UNCHANGED <<active, admin>>
        BY <1>4, <2>3, <3>1 DEF WriteStatus
      <3> QED BY <1>2, <3>2
    <2> QED BY <1>4, <2>1, <2>2, <2>3 DEF WriteStatus
  <1>5. CASE WriteRemoval(r)
    BY <1>1, <1>5 DEF WriteRemoval, SparesOne, SomeActiveAdmin, ActiveAdmins
  <1>6. CASE WriteAssignment(r)
    <2>1. active' = active /\ admin \subseteq admin'
      BY <1>6 DEF WriteAssignment
    <2> QED BY <2>1 DEF SomeActiveAdmin, ActiveAdmins
  <1>7. CASE \E p \in Requests : WriteStatus(p) \/ WriteRemoval(p) \/ WriteAssignment(p)
    BY <1>3, <1>4, <1>5, <1>6, <1>7
  <1>8. UNCHANGED <<active, admin>>
           \/ \E p \in Requests : WriteStatus(p) \/ WriteRemoval(p) \/ WriteAssignment(p)
    BY DEF Next, Begin, Advance, Load, CheckRole, SelectActiveAdmins, LockRow, Refuse, Permit,
           RecordAudit, BreakDeadlock, Fail, vars
  <1> QED BY <1>2, <1>7, <1>8

\* A request that overlaps no other never takes the last active
\* administrator away, by status or by role: the guards of set_user_active
\* and remove_role are right, it is their interleaving that is not.
THEOREM SerialGuards == Spec => SerialRequestsKeepAnAdmin
  <1>1. Init => SerialInv
    BY DEF Init, SerialInv
  <1>2. Spec => []SerialInv
    BY <1>1, SerialStep, Invariance, PTL DEF Spec
  <1>3. IInv /\ SerialInv /\ [Next]_vars =>
          [ \A r \in Requests :
              /\ SomeActiveAdmin /\ r \in alone
              /\ At(r, "write") /\ ~ At(r, "write")'
              => SomeActiveAdmin' ]_vars
    BY AloneWrites
  <1> QED BY <1>2, <1>3, Invariance, PTL DEF Spec, SerialRequestsKeepAnAdmin

=============================================================================
