------------------------- MODULE InvitationsProofs -------------------------
(***************************************************************************)
(* Proofs about Invitations, for any sets of invitations, addresses and    *)
(* request slots, any TTL and any bound on the clock.                      *)
(*                                                                         *)
(* The argument: a request about to write the account (step "write") holds *)
(* the row lock of an invitation that is open and not expired by the clock *)
(* value it carries, and every step that ends or closes an invitation      *)
(* needs that row unlocked (SlotsOK).  So two requests never write for one *)
(* invitation, and a cancellation lands before the lock or after the       *)
(* commit.  That the row is not expired is known from the check under the  *)
(* lock alone: the clock may have passed it since the service looked.      *)
(***************************************************************************)
EXTENDS Invitations, TLAPS

\* A request that inserts an invitation is the only one that knows its id; a
\* request that writes the account holds the lock of an acceptable row.
SlotsOK ==
    \A r \in Requests :
        /\ At(r, "insert") =>
             /\ email[req[r].id] = NoEmail
             /\ \A p \in Requests \ {r} : req[p].id # req[r].id
        /\ At(r, "write") =>
             /\ rowLock[req[r].id] = r
             /\ Open(req[r].id)
             /\ req[r].stamp < expires[req[r].id]

\* A row that was not inserted is neither accepted, cancelled nor delivered.
RowsOK ==
    /\ \A i \in InvitationIds : email[i] = NoEmail => Open(i)
    /\ \A i \in delivered : email[i] \in Emails

IInv ==
    /\ TypeOK
    /\ SlotsOK
    /\ RowsOK
    /\ SingleUse
    /\ AcceptedInTime

\* The conjuncts of TypeOK about the request slots.
SlotTypes ==
    /\ req \in [Requests -> RequestState]
    /\ \A r \in Requests : req[r].step # "idle" => req[r].id \in InvitationIds
    /\ \A r \in Requests : req[r].step = "insert" => req[r].email \in Emails
    /\ \A r \in Requests : req[r].step \notin {"idle", "insert"} => email[req[r].id] \in Emails

LEMMA IdleType == /\ Idle \in RequestState
                  /\ Idle.step = "idle" /\ Idle.id = NoId /\ Idle.email = NoEmail /\ Idle.stamp = 0
  BY ClockAssumption DEF Idle, RequestState, Steps, Times

LEMMA AboutType ==
  ASSUME NEW s \in Steps, NEW i \in InvitationIds
  PROVE  About(i, s) \in RequestState /\ About(i, s).step = s /\ About(i, s).id = i
  BY ClockAssumption DEF About, RequestState, Times

LEMMA InitIInv == Init => IInv
  <1> SUFFICES ASSUME Init PROVE IInv
    OBVIOUS
  <1>1. \A r \in Requests : req[r] = Idle
    BY DEF Init
  <1>2. TypeOK
    <2>1. 0 \in Times /\ 0 \in 0 .. MaxTime
      BY ClockAssumption DEF Times
    <2> QED BY <1>1, <2>1, IdleType DEF Init, TypeOK
  <1>3. SlotsOK
    BY <1>1, IdleType DEF SlotsOK, At
  <1>4. RowsOK /\ SingleUse /\ AcceptedInTime
    BY DEF Init, RowsOK, SingleUse, AcceptedInTime, Open
  <1> QED BY <1>2, <1>3, <1>4 DEF IInv

\* A step that gives slot r the value n, and does not disturb the other slots,
\* keeps what is known of every slot.
LEMMA SlotStep ==
  ASSUME SlotTypes, SlotsOK,
         NEW r \in Requests, NEW n \in RequestState,
         req' = [req EXCEPT ![r] = n],
         \A i \in InvitationIds : email[i] \in Emails => email'[i] \in Emails,
         \A p \in Requests \ {r} : At(p, "insert") => email'[req[p].id] = email[req[p].id],
         \A p \in Requests \ {r} : At(p, "write") =>
            /\ rowLock'[req[p].id] = p
            /\ accepted'[req[p].id] = Never /\ req[p].id \notin cancelled'
            /\ req[p].stamp < expires'[req[p].id],
         n.step = "idle" => n.id = NoId,
         n.step # "idle" =>
            /\ n.id \in InvitationIds
            /\ \A p \in Requests \ {r} : At(p, "insert") => req[p].id # n.id,
         n.step = "insert" =>
            /\ n.email \in Emails /\ email'[n.id] = NoEmail
            /\ \A p \in Requests \ {r} : req[p].id # n.id,
         n.step \notin {"idle", "insert"} => email'[n.id] \in Emails,
         n.step = "write" =>
            /\ rowLock'[n.id] = r
            /\ accepted'[n.id] = Never /\ n.id \notin cancelled'
            /\ n.stamp < expires'[n.id]
  PROVE  SlotTypes' /\ SlotsOK'
  <1>1. req'[r] = n /\ \A p \in Requests \ {r} : req'[p] = req[p]
    BY DEF SlotTypes
  <1>2. SlotTypes'
    BY <1>1 DEF SlotTypes
  <1>3. ASSUME NEW p \in Requests, At(p, "insert")'
        PROVE  /\ email'[req'[p].id] = NoEmail
               /\ \A s \in Requests \ {p} : req'[s].id # req'[p].id
    <2>1. CASE p = r
      BY <1>1, <1>3, <2>1 DEF At
    <2>2. CASE p # r
      <3>1. At(p, "insert") /\ req'[p] = req[p] /\ req[p].id \in InvitationIds
        BY <1>1, <1>3, <2>2 DEF At, SlotTypes
      <3>2. email[req[p].id] = NoEmail /\ \A s \in Requests \ {p} : req[s].id # req[p].id
        BY <3>1 DEF SlotsOK
      <3>3. n.id # req[p].id
        BY <3>1, <2>2, NamesAssumption
      <3> QED BY <1>1, <2>2, <3>1, <3>2, <3>3
    <2> QED BY <2>1, <2>2
  <1>4. ASSUME NEW p \in Requests, At(p, "write")'
        PROVE  /\ rowLock'[req'[p].id] = p
               /\ accepted'[req'[p].id] = Never /\ req'[p].id \notin cancelled'
               /\ req'[p].stamp < expires'[req'[p].id]
    <2>1. CASE p = r
      BY <1>1, <1>4, <2>1 DEF At
    <2>2. CASE p # r
      <3>1. At(p, "write") /\ req'[p] = req[p]
        BY <1>1, <1>4, <2>2 DEF At
      <3> QED BY <2>2, <3>1 DEF Open
    <2> QED BY <2>1, <2>2
  <1>5. SlotsOK'
    BY <1>3, <1>4 DEF SlotsOK, Open
  <1> QED BY <1>2, <1>5

\* TypeOK is the slots' types and those of the other variables.
LEMMA TypeParts ==
  TypeOK <=> /\ SlotTypes
             /\ now \in 0 .. MaxTime
             /\ email \in [InvitationIds -> Emails \cup {NoEmail}]
             /\ expires \in [InvitationIds -> Times]
             /\ accepted \in [InvitationIds -> Times \cup {Never}]
             /\ cancelled \subseteq InvitationIds
             /\ accounts \subseteq Account
             /\ delivered \subseteq InvitationIds
             /\ rowLock \in [InvitationIds -> Requests \cup {NoRequest}]
  BY DEF TypeOK, SlotTypes

\* Locks released by r are not those of the other requests.
LEMMA Released ==
  ASSUME IInv, NEW r \in Requests, ReleaseLocks(r)
  PROVE  /\ rowLock' \in [InvitationIds -> Requests \cup {NoRequest}]
         /\ \A p \in Requests \ {r} : At(p, "write") => rowLock'[req[p].id] = p
  BY DEF IInv, TypeOK, SlotsOK, ReleaseLocks, At

\* A request that ends, the invitations untouched, keeps types and slots.
LEMMA EndStep ==
  ASSUME IInv, NEW r \in Requests, End(r), UNCHANGED <<now, table>>,
         delivered' \subseteq InvitationIds
  PROVE  TypeOK' /\ SlotsOK'
  <1>1. SlotTypes /\ SlotsOK
    BY TypeParts DEF IInv
  <1>2. \A p \in Requests \ {r} : At(p, "write") =>
            /\ rowLock'[req[p].id] = p
            /\ accepted'[req[p].id] = Never /\ req[p].id \notin cancelled'
            /\ req[p].stamp < expires'[req[p].id]
    BY Released DEF End, IInv, SlotsOK, table, Open
  <1>3. SlotTypes' /\ SlotsOK'
    <2>1. req' = [req EXCEPT ![r] = Idle]
      BY DEF End
    <2>2. email' = email
      BY DEF table
    <2> QED BY <1>1, <1>2, <2>1, <2>2, IdleType, SlotStep
  <1>4. rowLock' \in [InvitationIds -> Requests \cup {NoRequest}]
    BY Released DEF End
  <1> QED BY <1>3, <1>4, TypeParts DEF IInv, TypeOK, table, SlotTypes

\* A request that only moves on to a step with no obligation keeps them too.
LEMMA MoveStep ==
  ASSUME IInv, NEW r \in Requests, NEW n \in RequestState,
         req' = [req EXCEPT ![r] = n],
         n.step \notin {"idle", "insert", "write"}, n.id \in InvitationIds,
         email[n.id] \in Emails,
         UNCHANGED <<now, table, delivered, rowLock>>
  PROVE  TypeOK' /\ SlotsOK'
  <1>1. SlotTypes /\ SlotsOK /\ email' = email
    BY TypeParts DEF IInv, table
  <1>2. \A p \in Requests \ {r} : At(p, "write") =>
            /\ rowLock'[req[p].id] = p
            /\ accepted'[req[p].id] = Never /\ req[p].id \notin cancelled'
            /\ req[p].stamp < expires'[req[p].id]
    BY <1>1 DEF SlotsOK, table, Open
  <1>3. \A p \in Requests \ {r} : At(p, "insert") => req[p].id # n.id
    BY <1>1, NamesAssumption DEF SlotsOK
  <1>4. SlotTypes' /\ SlotsOK'
    BY <1>1, <1>2, <1>3, SlotStep
  <1> QED BY <1>4, TypeParts DEF IInv, TypeOK, table, SlotTypes

\* Every step keeps the types and what is known of the slots: the steps that
\* begin a request.
LEMMA BeginStep ==
  ASSUME IInv, NEW r \in Requests, Begin(r)
  PROVE  TypeOK' /\ SlotsOK'
  <1>1. PICK i \in InvitationIds :
           \/ \E e \in Emails : BeginCreate(r, i, e)
           \/ BeginAccept(r, i)
           \/ BeginCancel(r, i)
    BY DEF Begin
  <1>0. TypeOK /\ SlotTypes /\ SlotsOK /\ RowsOK
    BY TypeParts DEF IInv
  <1>2. ASSUME NEW e \in Emails, BeginCreate(r, i, e)
        PROVE  TypeOK' /\ SlotsOK'
    <2> DEFINE n == [step |-> "insert", id |-> i, email |-> e, stamp |-> now + TTL]
    <2>1. n \in RequestState /\ n.step = "insert" /\ n.id = i /\ n.email = e
      BY <1>0, <1>2, ClockAssumption DEF TypeOK, RequestState, Steps, Times
    <2>2. req' = [req EXCEPT ![r] = n]
      BY <1>2 DEF BeginCreate
    <2> HIDE DEF n
    <2>3. /\ now' = now /\ email' = email /\ expires' = expires /\ accepted' = accepted
          /\ cancelled' = cancelled /\ accounts' = accounts /\ delivered' = delivered
          /\ rowLock' = rowLock
      BY <1>2 DEF BeginCreate, table
    <2>4. email[i] = NoEmail /\ \A q \in Requests : req[q].id # i
      BY <1>2 DEF BeginCreate, Issued
    <2>5. \A p \in Requests \ {r} : At(p, "write") =>
            /\ rowLock'[req[p].id] = p
            /\ accepted'[req[p].id] = Never /\ req[p].id \notin cancelled'
            /\ req[p].stamp < expires'[req[p].id]
      BY <1>0, <2>3 DEF SlotsOK, Open
    <2>7. SlotTypes' /\ SlotsOK'
      <3>1. n.step \notin {"idle", "write"} /\ email' = email
        BY <2>1, <2>3
      <3>2. \A p \in Requests : req[p].id # n.id
        BY <2>1, <2>4
      <3>3. n.id \in InvitationIds /\ email'[n.id] = NoEmail /\ n.email \in Emails
        BY <2>1, <2>3, <2>4
      <3>4. /\ \A k \in InvitationIds : email[k] \in Emails => email'[k] \in Emails
            /\ \A p \in Requests \ {r} :
                 At(p, "insert") => email'[req[p].id] = email[req[p].id]
        BY <3>1
      <3> QED BY <1>0, <2>1, <2>2, <2>5, <3>1, <3>2, <3>3, <3>4, SlotStep
    <2> QED BY <1>0, <2>3, <2>7, TypeParts DEF TypeOK, SlotTypes
  <1>3. ASSUME NEW s \in {"resolve", "read"}, email[i] \in Emails,
               req' = [req EXCEPT ![r] = About(i, s)],
               UNCHANGED <<now, table, delivered, rowLock>>
        PROVE  TypeOK' /\ SlotsOK'
    <2>1. s \in Steps /\ s \notin {"idle", "insert", "write"}
      BY DEF Steps
    <2>2. /\ About(i, s) \in RequestState
          /\ About(i, s).step \notin {"idle", "insert", "write"}
          /\ About(i, s).id = i
      BY <2>1, AboutType
    <2> QED BY <1>3, <2>2, MoveStep
  <1>4. CASE BeginAccept(r, i)
    <2>1. email[i] \in Emails
      BY <1>0, <1>4 DEF BeginAccept, RowsOK
    <2> QED BY <1>3, <1>4, <2>1 DEF BeginAccept
  <1>5. CASE BeginCancel(r, i)
    <2>1. email[i] \in Emails
      BY <1>0, <1>5 DEF BeginCancel, Issued, TypeOK
    <2> QED BY <1>3, <1>5, <2>1 DEF BeginCancel
  <1> QED BY <1>1, <1>2, <1>4, <1>5

\* The steps that only look: they move on, or end the request.
LEMMA LookStep ==
  ASSUME IInv, NEW r \in Requests,
         \/ AuditNew(r) \/ PublishAndReturn(r) \/ Resolve(r) \/ CheckStatus(r)
         \/ ReadClock(r) \/ EmailConflict(r) \/ ReadForCancel(r) \/ RecordAudit(r) \/ Fail(r)
  PROVE  TypeOK' /\ SlotsOK'
  <1>0. TypeOK /\ SlotTypes
    BY TypeParts DEF IInv
  <1>1. ASSUME NEW s \in {"publish", "status", "clock", "lock", "update"}, NEW k \in Times,
               req[r].step \notin {"idle", "insert"},
               req' = [req EXCEPT ![r] = [req[r] EXCEPT !.step = s, !.stamp = k]],
               UNCHANGED <<now, table, delivered, rowLock>>
        PROVE  TypeOK' /\ SlotsOK'
    <2> DEFINE n == [req[r] EXCEPT !.step = s, !.stamp = k]
    <2>1. req[r] \in RequestState
      BY <1>0 DEF SlotTypes
    <2>2. n \in RequestState /\ n.step = s /\ n.id = req[r].id
      BY <2>1 DEF RequestState, Steps
    <2>3. n.id \in InvitationIds /\ email[n.id] \in Emails
      BY <1>0, <1>1, <2>2 DEF SlotTypes
    <2>4. req' = [req EXCEPT ![r] = n]
      BY <1>1
    <2>5. n.step \notin {"idle", "insert", "write"}
      BY <2>2
    <2> HIDE DEF n
    <2> QED BY <1>1, <2>2, <2>3, <2>4, <2>5, MoveStep
  <1>2. ASSUME NEW s \in {"publish", "status", "clock", "update"}, Goto(r, s),
               req[r].step \notin {"idle", "insert"},
               UNCHANGED <<now, table, delivered, rowLock>>
        PROVE  TypeOK' /\ SlotsOK'
    <2>1. req[r] \in RequestState /\ req[r].stamp \in Times
      BY <1>0 DEF SlotTypes, RequestState
    <2>2. [req[r] EXCEPT !.step = s] = [req[r] EXCEPT !.step = s, !.stamp = req[r].stamp]
      BY <2>1 DEF RequestState
    <2>3. req' = [req EXCEPT ![r] = [req[r] EXCEPT !.step = s]]
      BY <1>2 DEF Goto
    <2> QED BY <1>1, <1>2, <2>1, <2>2, <2>3
  <1>3. CASE AuditNew(r)
    BY <1>2, <1>3 DEF AuditNew, At
  <1>4. CASE PublishAndReturn(r)
    <2>1. delivered' \subseteq InvitationIds
      BY <1>0, <1>4 DEF PublishAndReturn, At, TypeOK, SlotTypes
    <2> QED BY <1>4, <2>1, EndStep DEF PublishAndReturn
  <1>5. CASE Resolve(r)
    <2>1. CASE End(r)
      BY <1>0, <1>5, <2>1, EndStep DEF Resolve, TypeOK
    <2>2. CASE ~ End(r)
      BY <1>2, <1>5, <2>2 DEF Resolve, At
    <2> QED BY <2>1, <2>2
  <1>10. CASE CheckStatus(r)
    <2>1. CASE End(r)
      BY <1>0, <1>10, <2>1, EndStep DEF CheckStatus, TypeOK
    <2>2. CASE ~ End(r)
      BY <1>2, <1>10, <2>2 DEF CheckStatus, At
    <2> QED BY <2>1, <2>2
  <1>11. CASE ReadClock(r)
    <2>1. now \in Times
      BY <1>0, ClockAssumption DEF TypeOK, Times
    <2>2. req' = [req EXCEPT ![r] = [req[r] EXCEPT !.step = "lock", !.stamp = now]]
      BY <1>0, <1>11 DEF ReadClock, SlotTypes
    <2> QED BY <1>1, <1>11, <2>1, <2>2 DEF ReadClock, At
  <1>6. CASE EmailConflict(r)
    BY <1>0, <1>6, EndStep DEF EmailConflict, TypeOK
  <1>7. CASE ReadForCancel(r)
    <2>1. CASE End(r)
      BY <1>0, <1>7, <2>1, EndStep DEF ReadForCancel, TypeOK
    <2>2. CASE ~ End(r)
      BY <1>2, <1>7, <2>2 DEF ReadForCancel, At
    <2> QED BY <2>1, <2>2
  <1>8. CASE RecordAudit(r)
    BY <1>0, <1>8, EndStep DEF RecordAudit, TypeOK
  <1>9. CASE Fail(r)
    BY <1>0, <1>9, EndStep DEF Fail, TypeOK
  <1> QED BY <1>3, <1>4, <1>5, <1>6, <1>7, <1>8, <1>9, <1>10, <1>11

\* The steps that write: the insertion, the lock with its re-check, the
\* account, the cancellation.
LEMMA InsertStep ==
  ASSUME IInv, NEW r \in Requests, Insert(r)
  PROVE  TypeOK' /\ SlotsOK'
  <1>0. TypeOK /\ SlotTypes /\ SlotsOK
    BY TypeParts DEF IInv
  <1> DEFINE i == req[r].id
  <1> DEFINE n == [req[r] EXCEPT !.step = "auditNew"]
  <1>1. i \in InvitationIds /\ req[r].email \in Emails /\ req[r].stamp \in Times
    BY <1>0 DEF Insert, At, SlotTypes, RequestState
  <1>2. n \in RequestState /\ n.step = "auditNew" /\ n.id = i
    BY <1>0 DEF SlotTypes, RequestState, Steps
  <1>3. req' = [req EXCEPT ![r] = n]
    BY DEF Insert, Goto
  <1>4. /\ email' = [email EXCEPT ![i] = req[r].email]
        /\ expires' = [expires EXCEPT ![i] = req[r].stamp]
        /\ now' = now /\ accepted' = accepted /\ cancelled' = cancelled
        /\ accounts' = accounts /\ delivered' = delivered /\ rowLock' = rowLock
    BY DEF Insert
  <1>5. email[i] = NoEmail /\ \A p \in Requests \ {r} : req[p].id # i
    BY <1>0 DEF Insert, SlotsOK
  <1>6. At(r, "insert")
    BY DEF Insert
  <1> HIDE DEF n, i
  <1>7. /\ email' \in [InvitationIds -> Emails \cup {NoEmail}]
        /\ expires' \in [InvitationIds -> Times]
        /\ \A k \in InvitationIds \ {i} : email'[k] = email[k] /\ expires'[k] = expires[k]
        /\ email'[i] \in Emails
    BY <1>0, <1>1, <1>4 DEF TypeOK
  <1>8. \A p \in Requests \ {r} : req[p].step # "idle" => req[p].id \in InvitationIds \ {i}
    BY <1>0, <1>5 DEF SlotTypes
  <1>9. \A p \in Requests \ {r} : At(p, "write") =>
            /\ rowLock'[req[p].id] = p
            /\ accepted'[req[p].id] = Never /\ req[p].id \notin cancelled'
            /\ req[p].stamp < expires'[req[p].id]
    BY <1>0, <1>4, <1>7, <1>8 DEF SlotsOK, Open, At
  <1>10. \A p \in Requests \ {r} : At(p, "insert") => email'[req[p].id] = email[req[p].id]
    BY <1>7, <1>8 DEF At
  <1>11. \A k \in InvitationIds : email[k] \in Emails => email'[k] \in Emails
    BY <1>7
  <1>12. n.step \notin {"idle", "insert", "write"} /\ n.id \in InvitationIds
    BY <1>1, <1>2 DEF i
  <1>13. SlotTypes' /\ SlotsOK'
    BY <1>0, <1>2, <1>3, <1>5, <1>7, <1>9, <1>10, <1>11, <1>12, SlotStep
  <1> QED BY <1>0, <1>4, <1>7, <1>13, TypeParts DEF TypeOK, SlotTypes

LEMMA LockStep ==
  ASSUME IInv, NEW r \in Requests, Lock(r)
  PROVE  TypeOK' /\ SlotsOK'
  <1>0. TypeOK /\ SlotTypes /\ SlotsOK
    BY TypeParts DEF IInv
  <1>1. CASE End(r)
    BY <1>0, <1>1, EndStep DEF Lock, TypeOK
  <1>2. CASE ~ End(r)
    <2> DEFINE i == req[r].id
    <2> DEFINE n == [req[r] EXCEPT !.step = "write"]
    <2>1. i \in InvitationIds /\ email[i] \in Emails
      BY <1>0 DEF Lock, At, SlotTypes
    <2>2. n \in RequestState /\ n.step = "write" /\ n.id = i /\ n.stamp = req[r].stamp
      BY <1>0 DEF SlotTypes, RequestState, Steps
    <2>3. req' = [req EXCEPT ![r] = n] /\ rowLock' = [rowLock EXCEPT ![i] = r]
      BY <1>2 DEF Lock, Goto
    <2>4. rowLock[i] = NoRequest /\ Open(i) /\ expires[i] > req[r].stamp
      BY <1>2 DEF Lock
    <2>5. /\ now' = now /\ email' = email /\ expires' = expires /\ accepted' = accepted
          /\ cancelled' = cancelled /\ accounts' = accounts /\ delivered' = delivered
      BY DEF Lock, table
    <2>6. req[r].stamp < expires[i]
      BY <1>0, <2>1, <2>4 DEF TypeOK, RequestState, Times
    <2> HIDE DEF n, i
    <2>7. \A p \in Requests \ {r} : At(p, "write") =>
            /\ rowLock'[req[p].id] = p
            /\ accepted'[req[p].id] = Never /\ req[p].id \notin cancelled'
            /\ req[p].stamp < expires'[req[p].id]
      BY <1>0, <2>3, <2>4, <2>5, NamesAssumption DEF SlotsOK, Open, At, TypeOK
    <2>8. /\ \A p \in Requests \ {r} : At(p, "insert") => req[p].id # n.id
          /\ rowLock'[n.id] = r
          /\ accepted'[n.id] = Never /\ n.id \notin cancelled'
          /\ n.stamp < expires'[n.id]
          /\ email'[n.id] \in Emails
      BY <1>0, <2>1, <2>2, <2>3, <2>4, <2>5, <2>6, NamesAssumption DEF SlotsOK, Open, TypeOK
    <2>9. n.step \notin {"idle", "insert"} /\ n.id \in InvitationIds
      BY <2>1, <2>2
    <2>10. /\ \A k \in InvitationIds : email[k] \in Emails => email'[k] \in Emails
           /\ \A p \in Requests \ {r} : At(p, "insert") => email'[req[p].id] = email[req[p].id]
      BY <2>5
    <2>11. SlotTypes' /\ SlotsOK'
      BY <1>0, <2>2, <2>3, <2>7, <2>8, <2>9, <2>10, SlotStep
    <2>12. rowLock' \in [InvitationIds -> Requests \cup {NoRequest}]
      BY <1>0, <2>3 DEF TypeOK
    <2> QED BY <1>0, <2>5, <2>11, <2>12, TypeParts DEF TypeOK, SlotTypes
  <1> QED BY <1>1, <1>2

\* A commit that closes one invitation, whose lock nobody else holds.
LEMMA CommitStep ==
  ASSUME IInv, NEW r \in Requests, NEW i \in InvitationIds,
         req[r].step \in {"write", "update"}, i = req[r].id,
         Commit(r),
         \A p \in Requests \ {r} : At(p, "write") => req[p].id # i,
         \A k \in InvitationIds \ {i} : accepted'[k] = accepted[k],
         \A k \in InvitationIds \ {i} : k \in cancelled' <=> k \in cancelled,
         email' = email, expires' = expires
  PROVE  /\ SlotTypes' /\ SlotsOK'
         /\ rowLock' \in [InvitationIds -> Requests \cup {NoRequest}]
  <1>0. TypeOK /\ SlotTypes /\ SlotsOK
    BY TypeParts DEF IInv
  <1> DEFINE n == [req[r] EXCEPT !.step = "audit"]
  <1>1. n \in RequestState /\ n.step = "audit" /\ n.id = i
    BY <1>0 DEF SlotTypes, RequestState, Steps
  <1>2. req' = [req EXCEPT ![r] = n] /\ ReleaseLocks(r)
    BY DEF Commit, Goto
  <1> HIDE DEF n
  <1>3. email[i] \in Emails
    BY <1>0 DEF SlotTypes
  <1>4. /\ rowLock' \in [InvitationIds -> Requests \cup {NoRequest}]
        /\ \A p \in Requests \ {r} : At(p, "write") => rowLock'[req[p].id] = p
    BY <1>2, Released
  <1>5. \A p \in Requests \ {r} : At(p, "write") =>
            /\ rowLock'[req[p].id] = p
            /\ accepted'[req[p].id] = Never /\ req[p].id \notin cancelled'
            /\ req[p].stamp < expires'[req[p].id]
    BY <1>0, <1>4 DEF SlotsOK, SlotTypes, Open, At
  <1>6. /\ \A k \in InvitationIds : email[k] \in Emails => email'[k] \in Emails
        /\ \A p \in Requests \ {r} : At(p, "insert") => email'[req[p].id] = email[req[p].id]
        /\ \A p \in Requests \ {r} : At(p, "insert") => req[p].id # n.id
        /\ email'[n.id] \in Emails
    BY <1>0, <1>1, <1>3, NamesAssumption DEF SlotsOK
  <1>7. n.step \notin {"idle", "insert", "write"} /\ n.id \in InvitationIds
    BY <1>1
  <1>8. SlotTypes' /\ SlotsOK'
    BY <1>0, <1>1, <1>2, <1>5, <1>6, <1>7, SlotStep
  <1> QED BY <1>4, <1>8

LEMMA CreateAccountStep ==
  ASSUME IInv, NEW r \in Requests, CreateAccount(r)
  PROVE  TypeOK' /\ SlotsOK'
  <1>0. TypeOK /\ SlotTypes /\ SlotsOK
    BY TypeParts DEF IInv
  <1> DEFINE i == req[r].id
  <1>1. /\ i \in InvitationIds /\ email[i] \in Emails
        /\ req[r].stamp \in Times /\ rowLock[i] = r
    BY <1>0 DEF CreateAccount, At, SlotTypes, SlotsOK, RequestState
  <1>2. /\ accounts' = accounts \cup {[email |-> email[i], origin |-> i]}
        /\ accepted' = [accepted EXCEPT ![i] = req[r].stamp]
        /\ now' = now /\ email' = email /\ expires' = expires /\ cancelled' = cancelled
        /\ delivered' = delivered /\ Commit(r) /\ req[r].step = "write"
    BY DEF CreateAccount, At
  <1> HIDE DEF i
  <1>3. \A p \in Requests \ {r} : At(p, "write") => req[p].id # i
    BY <1>0, <1>1 DEF SlotsOK
  <1>4. /\ accepted' \in [InvitationIds -> Times \cup {Never}]
        /\ \A k \in InvitationIds \ {i} : accepted'[k] = accepted[k]
    BY <1>0, <1>1, <1>2 DEF TypeOK
  <1>5. accounts' \subseteq Account
    BY <1>0, <1>1, <1>2 DEF TypeOK, Account
  <1>6. /\ SlotTypes' /\ SlotsOK'
        /\ rowLock' \in [InvitationIds -> Requests \cup {NoRequest}]
    BY <1>1, <1>2, <1>3, <1>4, CommitStep DEF i
  <1> QED BY <1>0, <1>2, <1>4, <1>5, <1>6, TypeParts DEF TypeOK, SlotTypes

LEMMA UpdateCancelledStep ==
  ASSUME IInv, NEW r \in Requests, UpdateCancelled(r)
  PROVE  TypeOK' /\ SlotsOK'
  <1>0. TypeOK /\ SlotTypes /\ SlotsOK
    BY TypeParts DEF IInv
  <1> DEFINE i == req[r].id
  <1>1. i \in InvitationIds /\ rowLock[i] = NoRequest
    BY <1>0 DEF UpdateCancelled, At, SlotTypes
  <1>2. /\ cancelled' = cancelled \cup {i}
        /\ now' = now /\ email' = email /\ expires' = expires /\ accepted' = accepted
        /\ accounts' = accounts /\ delivered' = delivered /\ Commit(r) /\ req[r].step = "update"
    BY DEF UpdateCancelled, At
  <1> HIDE DEF i
  <1>3. \A p \in Requests \ {r} : At(p, "write") => req[p].id # i
    BY <1>0, <1>1, NamesAssumption DEF SlotsOK
  <1>4. cancelled' \subseteq InvitationIds
    BY <1>0, <1>1, <1>2 DEF TypeOK
  <1>5. /\ SlotTypes' /\ SlotsOK'
        /\ rowLock' \in [InvitationIds -> Requests \cup {NoRequest}]
    BY <1>1, <1>2, <1>3, CommitStep DEF i
  <1> QED BY <1>0, <1>2, <1>4, <1>5, TypeParts DEF TypeOK, SlotTypes

\* The clock and user management touch no slot.
LEMMA AroundStep ==
  ASSUME IInv,
         \/ Tick
         \/ \E e \in Emails : AddAccount(e)
         \/ \E e \in Emails : \E u \in accounts : ChangeEmail(u, e)
         \/ UNCHANGED vars
  PROVE  TypeOK' /\ SlotsOK'
  <1>0. TypeOK /\ SlotTypes /\ SlotsOK
    BY TypeParts DEF IInv
  <1>1. /\ email' = email /\ expires' = expires /\ accepted' = accepted
        /\ cancelled' = cancelled /\ delivered' = delivered /\ rowLock' = rowLock /\ req' = req
    BY DEF Tick, AddAccount, ChangeEmail, vars, table
  <1>2. SlotTypes' /\ SlotsOK'
    BY <1>0, <1>1 DEF SlotTypes, SlotsOK, At, Open
  <1>3. now' \in 0 .. MaxTime
    BY <1>0, ClockAssumption DEF TypeOK, Tick, AddAccount, ChangeEmail, vars
  <1>4. accounts' \subseteq Account
    <2>1. CASE \E e \in Emails : \E u \in accounts : ChangeEmail(u, e)
      BY <1>0, <2>1 DEF ChangeEmail, TypeOK, Account
    <2>2. CASE \E e \in Emails : AddAccount(e)
      BY <1>0, <2>2 DEF AddAccount, TypeOK, Account
    <2>3. CASE Tick \/ UNCHANGED vars
      BY <1>0, <2>3 DEF Tick, TypeOK, vars, table
    <2> QED BY <2>1, <2>2, <2>3
  <1> QED BY <1>0, <1>1, <1>2, <1>3, <1>4, TypeParts DEF TypeOK

LEMMA TypeAndSlots == IInv /\ [Next]_vars => TypeOK' /\ SlotsOK'
  <1> SUFFICES ASSUME IInv, [Next]_vars PROVE TypeOK' /\ SlotsOK'
    OBVIOUS
  <1>1. ASSUME NEW r \in Requests, Begin(r) \/ Advance(r) \/ Fail(r)
        PROVE  TypeOK' /\ SlotsOK'
    BY <1>1, BeginStep, LookStep, InsertStep, LockStep, CreateAccountStep,
       UpdateCancelledStep DEF Advance
  <1> QED BY <1>1, AroundStep DEF Next

\* The steps that change no invitation and no account.
LEMMA QuietSteps ==
  ASSUME IInv, NEW r \in Requests,
         \/ Begin(r) \/ Fail(r) \/ AuditNew(r) \/ PublishAndReturn(r) \/ Resolve(r)
         \/ CheckStatus(r) \/ ReadClock(r) \/ Lock(r) \/ EmailConflict(r) \/ ReadForCancel(r) \/ RecordAudit(r)
  PROVE  UNCHANGED table /\ \A i \in delivered' : email[i] \in Emails
  <1>1. UNCHANGED table
    BY DEF Begin, BeginCreate, BeginAccept, BeginCancel, Fail, AuditNew, PublishAndReturn,
           Resolve, CheckStatus, ReadClock, Lock, EmailConflict, ReadForCancel, RecordAudit
  <1>2. CASE PublishAndReturn(r)
    BY <1>1, <1>2 DEF PublishAndReturn, At, IInv, TypeOK, RowsOK
  <1>3. CASE ~ PublishAndReturn(r)
    <2>1. delivered' = delivered
      BY <1>3 DEF Begin, BeginCreate, BeginAccept, BeginCancel, Fail, AuditNew,
         Resolve, CheckStatus, ReadClock, Lock, EmailConflict, ReadForCancel, RecordAudit
    <2>2. \A i \in delivered : email[i] \in Emails
      BY DEF IInv, RowsOK
    <2> QED BY <1>1, <2>1, <2>2
  <1> QED BY <1>1, <1>2, <1>3

\* What a request that is about to write the account may rely on.
LEMMA Writing ==
  ASSUME IInv, NEW r \in Requests, CreateAccount(r)
  PROVE  LET i == req[r].id
         IN  /\ i \in InvitationIds /\ email[i] \in Emails
             /\ accepted[i] = Never /\ i \notin cancelled
             /\ req[r].stamp \in Times /\ req[r].stamp # Never
             /\ req[r].stamp < expires[i]
             /\ Free(email[i])
             /\ accounts' = accounts \cup {[email |-> email[i], origin |-> i]}
             /\ accepted' = [accepted EXCEPT ![i] = req[r].stamp]
             /\ UNCHANGED <<email, expires, cancelled, delivered>>
  <1>1. req[r].id \in InvitationIds /\ email[req[r].id] \in Emails /\ req[r].stamp \in Times
    BY DEF CreateAccount, At, IInv, TypeOK, RequestState
  <1>2. Open(req[r].id) /\ req[r].stamp < expires[req[r].id]
    BY DEF CreateAccount, IInv, SlotsOK
  <1>3. req[r].stamp # Never
    BY <1>1, NamesAssumption, ClockAssumption DEF Times
  <1> QED BY <1>1, <1>2, <1>3 DEF CreateAccount, Open

\* An insertion finds the row absent.
LEMMA Inserting ==
  ASSUME IInv, NEW r \in Requests, Insert(r)
  PROVE  LET i == req[r].id
         IN  /\ i \in InvitationIds /\ email[i] = NoEmail /\ req[r].email \in Emails
             /\ accepted[i] = Never /\ i \notin cancelled
             /\ email' = [email EXCEPT ![i] = req[r].email]
             /\ expires' = [expires EXCEPT ![i] = req[r].stamp]
             /\ UNCHANGED <<accepted, cancelled, accounts, delivered>>
  <1>1. req[r].id \in InvitationIds /\ req[r].email \in Emails /\ email[req[r].id] = NoEmail
    BY DEF Insert, At, IInv, TypeOK, SlotsOK
  <1>2. Open(req[r].id)
    BY <1>1 DEF IInv, RowsOK
  <1> QED BY <1>1, <1>2 DEF Insert, Open

LEMMA RowsStep == IInv /\ [Next]_vars => RowsOK'
  <1> SUFFICES ASSUME IInv, [Next]_vars PROVE RowsOK'
    OBVIOUS
  <1> USE DEF RowsOK, Open
  <1>0. TypeOK /\ RowsOK
    BY DEF IInv
  <1>1. ASSUME NEW r \in Requests, Insert(r) PROVE RowsOK'
    BY <1>0, <1>1, Inserting, NamesAssumption DEF TypeOK
  <1>2. ASSUME NEW r \in Requests, CreateAccount(r) PROVE RowsOK'
    BY <1>0, <1>2, Writing, NamesAssumption DEF TypeOK
  <1>3. ASSUME NEW r \in Requests, UpdateCancelled(r) PROVE RowsOK'
    <2>1. req[r].id \in InvitationIds /\ email[req[r].id] \in Emails
      BY <1>0, <1>3 DEF UpdateCancelled, At, TypeOK
    <2> QED BY <1>0, <1>3, <2>1, NamesAssumption DEF UpdateCancelled
  <1>4. ASSUME NEW r \in Requests, Begin(r) \/ Advance(r) \/ Fail(r) PROVE RowsOK'
    <2>1. CASE UNCHANGED table /\ \A i \in delivered' : email[i] \in Emails
      <3>1. \A i \in InvitationIds : email'[i] = NoEmail => accepted'[i] = Never /\ i \notin cancelled'
        BY <1>0, <2>1 DEF table
      <3>2. \A i \in delivered' : email'[i] \in Emails
        BY <2>1 DEF table
      <3> QED BY <3>1, <3>2
    <2> QED BY <1>1, <1>2, <1>3, <1>4, <2>1, QuietSteps DEF Advance
  <1>5. CASE \/ Tick
             \/ \E e \in Emails : AddAccount(e)
             \/ \E e \in Emails : \E u \in accounts : ChangeEmail(u, e)
             \/ UNCHANGED vars
    BY <1>0, <1>5 DEF Tick, AddAccount, ChangeEmail, vars, table
  <1> QED BY <1>4, <1>5 DEF Next

LEMMA SafetyStep == IInv /\ [Next]_vars => SingleUse' /\ AcceptedInTime'
  <1> SUFFICES ASSUME IInv, [Next]_vars
               PROVE  SingleUse' /\ AcceptedInTime'
    OBVIOUS
  <1> USE DEF SingleUse, AcceptedInTime
  <1>0. TypeOK /\ RowsOK /\ SingleUse /\ AcceptedInTime
    BY DEF IInv
  <1>1. ASSUME NEW r \in Requests, Insert(r)
        PROVE  SingleUse' /\ AcceptedInTime'
    BY <1>0, <1>1, Inserting DEF TypeOK
  <1>2. ASSUME NEW r \in Requests, CreateAccount(r)
        PROVE  SingleUse' /\ AcceptedInTime'
    <2> DEFINE i == req[r].id
               new == [email |-> email[i], origin |-> i]
    <2>1. /\ i \in InvitationIds /\ accepted[i] = Never
          /\ req[r].stamp \in Times /\ req[r].stamp # Never /\ req[r].stamp < expires[i]
          /\ accounts' = accounts \cup {new}
          /\ accepted' = [accepted EXCEPT ![i] = req[r].stamp]
          /\ expires' = expires
      BY <1>2, Writing
    <2>3. new.origin = i /\ i # Direct
      BY <2>1, NamesAssumption
    <2> HIDE DEF i, new
    <2>4. \A u \in accounts : u.origin # i
      BY <1>0, <2>1
    <2>5. /\ accepted'[i] = req[r].stamp
          /\ \A k \in InvitationIds \ {i} : accepted'[k] = accepted[k]
      BY <1>0, <2>1 DEF TypeOK
    <2>6. SingleUse'
      BY <1>0, <2>1, <2>3, <2>4, <2>5
    <2>7. AcceptedInTime'
      BY <1>0, <2>1, <2>5
    <2> QED BY <2>6, <2>7
  <1>3. ASSUME NEW r \in Requests, UpdateCancelled(r)
        PROVE  SingleUse' /\ AcceptedInTime'
    BY <1>0, <1>3 DEF UpdateCancelled
  <1>4. ASSUME NEW r \in Requests, Begin(r) \/ Advance(r) \/ Fail(r)
        PROVE  SingleUse' /\ AcceptedInTime'
    <2>1. CASE UNCHANGED table
      BY <1>0, <2>1 DEF table
    <2> QED BY <1>1, <1>2, <1>3, <1>4, <2>1, QuietSteps DEF Advance
  <1>5. ASSUME NEW e \in Emails, AddAccount(e)
        PROVE  SingleUse' /\ AcceptedInTime'
    <2>1. \A i \in InvitationIds : i # Direct
      BY NamesAssumption
    <2> QED BY <1>0, <1>5, <2>1 DEF AddAccount, Free
  <1>6. ASSUME NEW e \in Emails, NEW u \in accounts, ChangeEmail(u, e)
        PROVE  SingleUse' /\ AcceptedInTime'
    <2> DEFINE new == [u EXCEPT !.email = e]
    <2>1. u \in Account
      BY <1>0 DEF TypeOK
    <2>2. new.email = e /\ new.origin = u.origin
      BY <2>1 DEF Account
    <2>3. /\ accounts' = (accounts \ {u}) \cup {new}
          /\ accepted' = accepted /\ expires' = expires
          /\ \A v \in accounts : v.email # e
      BY <1>6 DEF ChangeEmail, Free
    <2> HIDE DEF new
    <2>4. SingleUse'
      BY <1>0, <2>2, <2>3
    <2>5. AcceptedInTime'
      BY <1>0, <2>2, <2>3
    <2> QED BY <2>4, <2>5
  <1>7. CASE Tick \/ UNCHANGED vars
    BY <1>0, <1>7 DEF Tick, vars, table
  <1> QED BY <1>4, <1>5, <1>6, <1>7 DEF Next

\* The inductive invariant holds in every reachable state.
THEOREM Invariance == Spec => []IInv
  <1>1. IInv /\ [Next]_vars => IInv'
    BY TypeAndSlots, RowsStep, SafetyStep DEF IInv
  <1> QED BY InitIInv, <1>1, PTL DEF Spec

\* The types, and what a request in progress knows of its invitation.
THEOREM TypeCorrect == Spec => []TypeOK
  <1>1. IInv => TypeOK
    BY DEF IInv
  <1> QED BY Invariance, <1>1, PTL

\* A token is good for one account, whatever runs at the same time, and the
\* acceptance stamp and the account appear together.
THEOREM TokenSingleUse == Spec => []SingleUse
  <1>1. IInv => SingleUse
    BY DEF IInv
  <1> QED BY Invariance, <1>1, PTL

\* The stamp of an acceptance lies before the expiry, however long the hash
\* and the wait for the row lock took.
THEOREM AcceptanceInTime == Spec => []AcceptedInTime
  <1>1. IInv => AcceptedInTime
    BY DEF IInv
  <1> QED BY Invariance, <1>1, PTL

-----------------------------------------------------------------------------
(* The requests implement the abstract lifecycle. *)

\* Every step is a step of InvitationLifecycle or leaves its variables alone.
LEMMA LifecycleStep ==
  IInv /\ [Next]_vars => [Lifecycle!LifecycleNext]_(Lifecycle!lifecycleVars)
  <1> SUFFICES ASSUME IInv, [Next]_vars
               PROVE  Lifecycle!LifecycleNext \/ UNCHANGED Lifecycle!lifecycleVars
    BY DEF Lifecycle!lifecycleVars
  <1>0. TypeOK /\ RowsOK
    BY DEF IInv
  <1>1. ASSUME UNCHANGED <<email, accepted, cancelled>>
        PROVE  state' = state /\ email' = email
    BY <1>1 DEF state
  <1>2. ASSUME NEW r \in Requests, Insert(r)
        PROVE  Lifecycle!LifecycleNext
    <2> DEFINE i == req[r].id
               e == req[r].email
    <2>1. /\ i \in InvitationIds /\ email[i] = NoEmail /\ e \in Emails /\ e # NoEmail
          /\ accepted[i] = Never /\ i \notin cancelled
          /\ email' = [email EXCEPT ![i] = e]
          /\ accepted' = accepted /\ cancelled' = cancelled /\ accounts' = accounts
      BY <1>2, Inserting, NamesAssumption
    <2> HIDE DEF i, e
    <2>2. state[i] = "absent"
      BY <2>1 DEF state
    <2>3. state' = [state EXCEPT ![i] = "pending"]
      BY <1>0, <2>1 DEF state, TypeOK
    <2>4. Lifecycle!Issue(i, e)
      BY <2>1, <2>2, <2>3 DEF Lifecycle!Issue
    <2> QED BY <2>1, <2>4 DEF Lifecycle!LifecycleNext
  <1>3. ASSUME NEW r \in Requests, CreateAccount(r)
        PROVE  Lifecycle!LifecycleNext
    <2> DEFINE i == req[r].id
               s == req[r].stamp
    <2>1. /\ i \in InvitationIds /\ email[i] \in Emails /\ email[i] # NoEmail
          /\ accepted[i] = Never /\ i \notin cancelled
          /\ s # Never
          /\ accepted' = [accepted EXCEPT ![i] = s]
          /\ email' = email /\ cancelled' = cancelled
          /\ Free(email[i])
          /\ accounts' = accounts \cup {[email |-> email[i], origin |-> i]}
      BY <1>3, Writing, NamesAssumption
    <2> HIDE DEF i, s
    <2>2. state[i] = "pending"
      BY <2>1 DEF state
    <2>3. state' = [state EXCEPT ![i] = "accepted"]
      BY <1>0, <2>1 DEF state, TypeOK
    <2>4. Lifecycle!Accept(i)
      BY <2>1, <2>2, <2>3 DEF Lifecycle!Accept, Lifecycle!Free, Free
    <2> QED BY <2>1, <2>4 DEF Lifecycle!LifecycleNext
  <1>4. ASSUME NEW r \in Requests, UpdateCancelled(r)
        PROVE  Lifecycle!LifecycleNext \/ UNCHANGED Lifecycle!lifecycleVars
    <2> DEFINE i == req[r].id
    <2>1. /\ i \in InvitationIds /\ email[i] \in Emails /\ email[i] # NoEmail
          /\ cancelled' = cancelled \cup {i}
          /\ accepted' = accepted /\ email' = email /\ accounts' = accounts
      BY <1>0, <1>4, NamesAssumption DEF UpdateCancelled, At, TypeOK
    <2> HIDE DEF i
    <2>2. CASE accepted[i] = Never /\ i \notin cancelled
      <3>1. state[i] = "pending"
        BY <2>1, <2>2 DEF state
      <3>2. state' = [state EXCEPT ![i] = "cancelled"]
        BY <1>0, <2>1, <2>2 DEF state, TypeOK
      <3>3. Lifecycle!Cancel(i)
        BY <2>1, <3>1, <3>2 DEF Lifecycle!Cancel
      <3> QED BY <2>1, <3>3 DEF Lifecycle!LifecycleNext
    <2>3. CASE accepted[i] # Never
      <3>1. state' = state
        BY <2>1, <2>3 DEF state
      <3> QED BY <2>1, <3>1 DEF Lifecycle!lifecycleVars
    <2>4. CASE i \in cancelled
      BY <1>1, <2>1, <2>4 DEF Lifecycle!lifecycleVars
    <2> QED BY <2>2, <2>3, <2>4
  <1>5. ASSUME NEW r \in Requests, Begin(r) \/ Advance(r) \/ Fail(r)
        PROVE  Lifecycle!LifecycleNext \/ UNCHANGED Lifecycle!lifecycleVars
    <2>1. CASE UNCHANGED table
      BY <1>1, <2>1 DEF table, Lifecycle!lifecycleVars
    <2> QED BY <1>2, <1>3, <1>4, <1>5, <2>1, QuietSteps DEF Advance
  <1>6. ASSUME NEW e \in Emails, AddAccount(e)
        PROVE  Lifecycle!LifecycleNext
    <2>1. Lifecycle!AddAccount(e)
      BY <1>1, <1>6 DEF AddAccount, Lifecycle!AddAccount, Lifecycle!Free, Free
    <2> QED BY <2>1 DEF Lifecycle!LifecycleNext
  <1>7. ASSUME NEW e \in Emails, NEW u \in accounts, ChangeEmail(u, e)
        PROVE  Lifecycle!LifecycleNext
    <2>1. Lifecycle!ChangeEmail(u, e)
      BY <1>1, <1>7 DEF ChangeEmail, Lifecycle!ChangeEmail, Lifecycle!Free, Free
    <2> QED BY <2>1 DEF Lifecycle!LifecycleNext
  <1>8. CASE Tick \/ UNCHANGED vars
    BY <1>1, <1>8 DEF Tick, vars, table, Lifecycle!lifecycleVars
  <1> QED BY <1>4, <1>5, <1>6, <1>7, <1>8 DEF Next

\* The initial states map to initial states.
LEMMA LifecycleInitial == Init => Lifecycle!LifecycleInit
  BY NamesAssumption DEF Init, Lifecycle!LifecycleInit, state

\* The locking protocol implements the abstract lifecycle: an invitation is
\* accepted or cancelled once, never both, and an acceptance is one step with
\* the creation of its account.
THEOREM RefinesLifecycle == Spec => ImplementsLifecycle
  <1>1. Spec => []IInv
    BY Invariance
  <1> QED BY <1>1, LifecycleInitial, LifecycleStep, PTL
          DEF Spec, ImplementsLifecycle, Lifecycle!LifecycleSpec

=============================================================================
