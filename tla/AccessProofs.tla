---------------------------- MODULE AccessProofs -----------------------------
(***************************************************************************)
(* Proofs about Access and RateLimiter, for any sets of sessions, request  *)
(* slots and threads, and any limits.                                      *)
(*                                                                         *)
(* The argument for AccessEndsWithRevocation: a revocation is final, so a  *)
(* request that arrived with a revoked credential still finds it revoked   *)
(* when it looks (Withdrawn) and never gets past that look (PastTheLook);  *)
(* a request that is let through by the permission check has seen the      *)
(* user active (SawTheUserActive).                                         *)
(*                                                                         *)
(* The argument for GuessesBounded: an attempt passes the guard only when  *)
(* no lock is left, and then fewer than MaxAttempts failures are on record *)
(* (UnlockedMeansBelow); every failure counted afterwards is of an attempt *)
(* that was past the guard, and there are at most as many of those as      *)
(* request slots.                                                          *)
(*                                                                         *)
(* The argument for AdmittedPerWindow, for the window that ends at w: as   *)
(* long as nobody with a reading after w has been in the critical section, *)
(* all the window's hits are still counted and the limit is kept           *)
(* (StillCounted).  Somebody who has been there may have dropped them, but *)
(* from then on the clock is past w, and only the other threads that had   *)
(* read it by then can still add a hit, one each (FewLatecomers).          *)
(***************************************************************************)
EXTENDS RateLimiter, Access, FiniteSetTheorems, TLAPS

Browsing == {"browse", "browseByKey"}

\* The steps of a protected route belong to a protected route.
StepsOfRoutes(q) ==
    /\ q.step = "revocation" => q.op = "browse"
    /\ q.step \in {"findKey", "touchKey"} => q.op = "browseByKey"
    /\ q.step \in {"permission", "serve"} => q.op \in Browsing
    /\ q.op \in {"browse", "revokeSession"} => q.target \in Sessions

\* A credential that was revoked when the request arrived still is.
Withdrawn(q, sessionNow, keyNow) ==
    /\ q.cutOff /\ q.op = "browse" => sessionNow[q.target] = "revoked"
    /\ q.cutOff /\ q.op = "browseByKey" => keyNow = "revoked"

PastTheLook(q) == q.step \in {"touchKey", "permission", "serve"} => ~ q.cutOff

SawTheUserActive(q, activeNow) ==
    /\ activeNow /\ q.op \in Browsing => q.seenActive
    /\ q.step = "serve" => q.seenActive

RequestOK(q, activeNow, sessionNow, keyNow) ==
    /\ q \in RequestState
    /\ StepsOfRoutes(q)
    /\ Withdrawn(q, sessionNow, keyNow)
    /\ PastTheLook(q)
    /\ SawTheUserActive(q, activeNow)

RequestsOK ==
    /\ req \in [Requests -> RequestState]
    /\ \A r \in Requests : RequestOK(req[r], active, session, key)

\* Without a lock the failures on record are below the limit.
UnlockedMeansBelow == lockedUntil = 0 => Cardinality(failures) < MaxAttempts

AccessInv ==
    /\ AccessTypeOK
    /\ RequestsOK
    /\ UnlockedMeansBelow
    /\ GuessesBounded

-----------------------------------------------------------------------------
(* How requests move. *)

\* An idle request is in order whatever the tables hold.
LEMMA IdleOK ==
    ASSUME NEW a, NEW s, NEW k
    PROVE  RequestOK(Idle, a, s, k) /\ Idle.step = "idle"
  <1>1. Idle \in RequestState
    BY LastTimeAssumption DEF Idle, RequestState, Steps, Ops
  <1>2. Idle.step = "idle" /\ Idle.op = "none" /\ ~ Idle.cutOff
    BY DEF Idle
  <1> QED BY <1>1, <1>2 DEF RequestOK, StepsOfRoutes, Withdrawn, PastTheLook,
                            SawTheUserActive, Browsing

\* A request that goes on keeps everything but its step.
LEMMA GotoState ==
    ASSUME NEW q \in RequestState, NEW s \in Steps
    PROVE  LET n == [q EXCEPT !.step = s]
           IN  /\ n \in RequestState
               /\ n.step = s /\ n.op = q.op /\ n.target = q.target
               /\ n.cutOff = q.cutOff /\ n.seenActive = q.seenActive
  BY DEF RequestState

\* A request that goes on in order is in order.
LEMMA GotoOK ==
    ASSUME NEW q, NEW s \in Steps, NEW a, NEW ss, NEW k,
           RequestOK(q, a, ss, k),
           StepsOfRoutes([q EXCEPT !.step = s]),
           s \in {"touchKey", "permission", "serve"} => ~ q.cutOff,
           s = "serve" => q.seenActive
    PROVE  RequestOK([q EXCEPT !.step = s], a, ss, k)
  <1> DEFINE n == [q EXCEPT !.step = s]
  <1>1. q \in RequestState
    BY DEF RequestOK
  <1>2. /\ n \in RequestState
        /\ n.step = s /\ n.op = q.op /\ n.target = q.target
        /\ n.cutOff = q.cutOff /\ n.seenActive = q.seenActive
    BY <1>1, GotoState
  <1>3. StepsOfRoutes(n)
    OBVIOUS
  <1> HIDE DEF n
  <1>4. Withdrawn(n, ss, k)
    BY <1>2 DEF RequestOK, Withdrawn
  <1>5. PastTheLook(n)
    BY <1>2 DEF PastTheLook
  <1>6. SawTheUserActive(n, a)
    BY <1>2 DEF RequestOK, SawTheUserActive
  <1>7. RequestOK(n, a, ss, k)
    BY <1>2, <1>3, <1>4, <1>5, <1>6 DEF RequestOK
  <1> QED BY <1>7 DEF n

\* Requests stay in order when one of them moves and the tables stay.
LEMMA OneMoves ==
    ASSUME RequestsOK, NEW r \in Requests, NEW n,
           req' = [req EXCEPT ![r] = n],
           RequestOK(n, active, session, key),
           UNCHANGED <<active, session, key>>
    PROVE  RequestsOK'
  <1>1. n \in RequestState
    BY DEF RequestOK
  <1>2. req' \in [Requests -> RequestState]
    BY <1>1 DEF RequestsOK
  <1>3. \A q \in Requests : req'[q] = IF q = r THEN n ELSE req[q]
    BY DEF RequestsOK
  <1>4. \A q \in Requests : RequestOK(req'[q], active, session, key)
    BY <1>3 DEF RequestsOK
  <1>5. active' = active /\ session' = session /\ key' = key
    OBVIOUS
  <1>6. \A q \in Requests : RequestOK(req'[q], active', session', key')
    BY <1>4, <1>5
  <1> QED BY <1>2, <1>6 DEF RequestsOK

\* An idle request in place of one that ended.
LEMMA OneResponds ==
    ASSUME RequestsOK, NEW r \in Requests, Respond(r), UNCHANGED <<active, session, key>>
    PROVE  RequestsOK'
  <1>1. RequestOK(Idle, active, session, key)
    BY IdleOK
  <1> QED BY <1>1, OneMoves DEF Respond

\* Requests stay in order when only the tables change, towards revocation.
LEMMA TablesChange ==
    ASSUME NEW q, NEW a, NEW ss, NEW k, NEW a2, NEW ss2, NEW k2,
           RequestOK(q, a, ss, k),
           a2 => a,
           k = "revoked" => k2 = "revoked",
           \A s \in Sessions : ss[s] = "revoked" => ss2[s] = "revoked"
    PROVE  RequestOK(q, a2, ss2, k2)
  <1>1. Withdrawn(q, ss2, k2)
    BY DEF RequestOK, Withdrawn, StepsOfRoutes
  <1>2. SawTheUserActive(q, a2)
    BY DEF RequestOK, SawTheUserActive
  <1> QED BY <1>1, <1>2 DEF RequestOK

\* The same for a step that also moves one request.
LEMMA OneMovesAndTablesChange ==
    ASSUME RequestsOK, NEW r \in Requests, NEW n,
           req' = [req EXCEPT ![r] = n],
           RequestOK(n, active, session, key),
           active' = active,
           key = "revoked" => key' = "revoked",
           \A s \in Sessions : session[s] = "revoked" => session'[s] = "revoked"
    PROVE  RequestsOK'
  <1>1. n \in RequestState
    BY DEF RequestOK
  <1>2. req' \in [Requests -> RequestState]
    BY <1>1 DEF RequestsOK
  <1>3. \A q \in Requests : req'[q] = IF q = r THEN n ELSE req[q]
    BY DEF RequestsOK
  <1>4. \A q \in Requests : RequestOK(req'[q], active, session, key)
    BY <1>3 DEF RequestsOK
  <1>5. \A q \in Requests : RequestOK(req'[q], active', session', key')
    BY <1>4, TablesChange
  <1> QED BY <1>2, <1>5 DEF RequestsOK

-----------------------------------------------------------------------------
(* Revocation is final. *)

\* No step takes a revocation back.
LEMMA NoRevival ==
    ASSUME AccessTypeOK, [AccessNext]_accessVars
    PROVE  /\ key = "revoked" => key' = "revoked"
           /\ \A s \in Sessions : session[s] = "revoked" => session'[s] = "revoked"
  <1> USE DEF AccessTypeOK, dbVars
  <1>1. ASSUME NEW r \in Requests, MintSession(r) PROVE key' = key /\
          \A s \in Sessions : session[s] = "revoked" => session'[s] = "revoked"
    BY <1>1 DEF MintSession
  <1>2. ASSUME NEW r \in Requests, WriteRevocation(r)
        PROVE  /\ key = "revoked" => key' = "revoked"
               /\ \A s \in Sessions : session[s] = "revoked" => session'[s] = "revoked"
    BY <1>2 DEF WriteRevocation
  <1>3. ASSUME NEW r \in Requests, InsertKey(r)
        PROVE  key # "revoked" /\ session' = session
    BY <1>3 DEF InsertKey
  <1>4. ASSUME NEW r \in Requests,
               \/ \E right \in BOOLEAN : BeginLogin(r, right)
               \/ CheckGuard(r) \/ Authenticate(r) \/ FailLogin(r) \/ PassLogin(r)
               \/ \E s \in Sessions : BeginBrowse(r, s) \/ BeginLogout(r, s) \/ BeginRevokeSession(r, s)
               \/ BeginBrowseByKey(r) \/ FindKey(r) \/ TouchKey(r)
               \/ CheckRevocation(r) \/ CheckPermission(r) \/ Serve(r)
               \/ BeginRevokeKey(r) \/ BeginCreateKey(r)
               \/ FindSession(r) \/ LoadRow(r) \/ RecordAudit(r) \/ FailRequest(r)
        PROVE  key' = key /\ session' = session
    BY <1>4 DEF BeginLogin, CheckGuard, Authenticate, FailLogin, PassLogin, BeginBrowse, BeginLogout,
                BeginRevokeSession, BeginBrowseByKey, FindKey, TouchKey, CheckRevocation,
                CheckPermission, Serve, BeginRevokeKey, BeginCreateKey, FindSession, LoadRow,
                RecordAudit, FailRequest
  <1>5. ASSUME \/ \E isActive \in BOOLEAN : CommitStatus(isActive)
               \/ RestartProcess \/ Tick \/ UNCHANGED accessVars
        PROVE  key' = key /\ session' = session
    BY <1>5 DEF CommitStatus, RestartProcess, Tick, accessVars
  <1> QED BY <1>1, <1>2, <1>3, <1>4, <1>5 DEF AccessNext

-----------------------------------------------------------------------------
(* Requests stay in order. *)

LEMMA StepNames ==
    /\ "idle" \in Steps /\ "check" \in Steps /\ "authenticate" \in Steps
    /\ "recordFailure" \in Steps /\ "recordSuccess" \in Steps /\ "mint" \in Steps
    /\ "findKey" \in Steps /\ "touchKey" \in Steps /\ "revocation" \in Steps
    /\ "permission" \in Steps /\ "serve" \in Steps /\ "find" \in Steps /\ "load" \in Steps
    /\ "write" \in Steps /\ "insertKey" \in Steps /\ "audit" \in Steps
  BY DEF Steps

LEMMA OpNames ==
    /\ "login" \in Ops /\ "logout" \in Ops /\ "browse" \in Ops /\ "browseByKey" \in Ops
    /\ "revokeSession" \in Ops /\ "createKey" \in Ops /\ "revokeKey" \in Ops
  BY DEF Ops

LEMMA IdleState == Idle \in RequestState /\ Idle.target = "none" /\ Idle.cutOff = FALSE
  BY IdleOK DEF RequestOK, Idle

\* What a new request of each kind carries.
LEMMA KeyRouteState ==
    ASSUME NEW m \in RequestState, NEW gone \in BOOLEAN, NEW now \in BOOLEAN
    PROVE  LET n == [m EXCEPT !.cutOff = gone, !.seenActive = now]
           IN  /\ n \in RequestState
               /\ n.step = m.step /\ n.op = m.op /\ n.cutOff = gone /\ n.seenActive = now
  BY DEF RequestState

LEMMA LoginState ==
    ASSUME NEW m \in RequestState, NEW right \in BOOLEAN, NEW t \in 0..LastTime
    PROVE  LET n == [m EXCEPT !.stamp = t, !.password = right]
           IN  n \in RequestState /\ n.step = m.step /\ n.op = m.op
  BY DEF RequestState

LEMMA TargetState ==
    ASSUME NEW m \in RequestState, NEW s \in Sessions
    PROVE  LET n == [m EXCEPT !.target = s]
           IN  n \in RequestState /\ n.step = m.step /\ n.op = m.op /\ n.target = s
  BY DEF RequestState

\* A request that is not one of a protected route is in order.
LEMMA ElsewhereOK ==
    ASSUME NEW n \in RequestState, NEW a, NEW ss, NEW k,
           n.op \notin Browsing,
           n.op = "revokeSession" => n.target \in Sessions,
           n.step \notin {"revocation", "findKey", "touchKey", "permission", "serve"}
    PROVE  RequestOK(n, a, ss, k)
  BY DEF RequestOK, StepsOfRoutes, Withdrawn, PastTheLook, SawTheUserActive, Browsing

\* The clock value a request carries is no part of its order.
LEMMA StampOK ==
    ASSUME NEW q, NEW t \in 0..LastTime, NEW a, NEW ss, NEW k, RequestOK(q, a, ss, k)
    PROVE  RequestOK([q EXCEPT !.stamp = t], a, ss, k)
  <1> DEFINE n == [q EXCEPT !.stamp = t]
  <1>1. q \in RequestState
    BY DEF RequestOK
  <1>2. /\ n \in RequestState
        /\ n.step = q.step /\ n.op = q.op /\ n.target = q.target
        /\ n.cutOff = q.cutOff /\ n.seenActive = q.seenActive
    BY <1>1 DEF RequestState
  <1> HIDE DEF n
  <1>3. RequestOK(n, a, ss, k)
    BY <1>2 DEF RequestOK, StepsOfRoutes, Withdrawn, PastTheLook, SawTheUserActive
  <1> QED BY <1>3 DEF n

\* Every step keeps the requests in order.
LEMMA RequestsStep ==
    ASSUME AccessTypeOK, RequestsOK, [AccessNext]_accessVars
    PROVE  RequestsOK'
  <1>1. ASSUME NEW r \in Requests
        PROVE  req[r] \in RequestState /\ RequestOK(req[r], active, session, key)
    BY DEF RequestsOK
  <1>t. time \in 0..LastTime /\ active \in BOOLEAN
    BY DEF AccessTypeOK, GuardTypeOK
  \* One request goes on and no table changes.
  <1>2. ASSUME NEW r \in Requests, NEW s \in Steps, Goto(r, s), UNCHANGED <<active, session, key>>,
               StepsOfRoutes([req[r] EXCEPT !.step = s]),
               s \in {"touchKey", "permission", "serve"} => ~ req[r].cutOff,
               s = "serve" => req[r].seenActive
        PROVE  RequestsOK'
    <2>1. RequestOK([req[r] EXCEPT !.step = s], active, session, key)
      BY <1>1, <1>2, GotoOK
    <2>2. req' = [req EXCEPT ![r] = [req[r] EXCEPT !.step = s]]
      BY <1>2 DEF Goto
    <2> QED BY <1>2, <2>1, <2>2, OneMoves
  \* To a step that is not one of a protected route.
  <1>3. ASSUME NEW r \in Requests,
               NEW s \in Steps \ {"revocation", "findKey", "touchKey", "permission", "serve"}
        PROVE  /\ StepsOfRoutes([req[r] EXCEPT !.step = s])
               /\ RequestOK([req[r] EXCEPT !.step = s], active, session, key)
    <2> DEFINE n == [req[r] EXCEPT !.step = s]
    <2>1. n \in RequestState /\ n.step = s /\ n.op = req[r].op /\ n.target = req[r].target
      BY <1>1, GotoState
    <2>2. StepsOfRoutes(req[r])
      BY <1>1 DEF RequestOK
    <2> HIDE DEF n
    <2>3. StepsOfRoutes(n)
      BY <2>1, <2>2 DEF StepsOfRoutes
    <2>4. StepsOfRoutes([req[r] EXCEPT !.step = s])
      BY <2>3 DEF n
    <2> QED BY <1>1, <2>4, GotoOK
  <1>4. ASSUME NEW r \in Requests,
               NEW s \in Steps \ {"revocation", "findKey", "touchKey", "permission", "serve"},
               Goto(r, s), UNCHANGED <<active, session, key>>
        PROVE  RequestsOK'
    BY <1>2, <1>3, <1>4
  \* A new request that is not one of a protected route.
  <1>5. ASSUME NEW r \in Requests, NEW n \in RequestState, req' = [req EXCEPT ![r] = n],
               n.op \notin Browsing,
               n.op = "revokeSession" => n.target \in Sessions,
               n.step \notin {"revocation", "findKey", "touchKey", "permission", "serve"},
               UNCHANGED <<active, session, key>>
        PROVE  RequestsOK'
    <2>1. RequestOK(n, active, session, key)
      BY <1>5, ElsewhereOK
    <2> QED BY <1>5, <2>1, OneMoves
  <1>6. ASSUME NEW r \in Requests, Respond(r), UNCHANGED <<active, session, key>>
        PROVE  RequestsOK'
    BY <1>6, OneResponds
  <1>7. ASSUME NEW r \in Requests, NEW right \in BOOLEAN, BeginLogin(r, right)
        PROVE  RequestsOK'
    <2> DEFINE m == Start(r, "check", "login")
               n == [m EXCEPT !.stamp = time, !.password = right]
    <2>1. m \in RequestState /\ m.step = "check" /\ m.op = "login"
      BY IdleState, StepNames, OpNames DEF Start, RequestState
    <2> HIDE DEF m
    <2>2. n \in RequestState /\ n.step = "check" /\ n.op = "login"
      BY <1>t, <2>1, LoginState
    <2>3. req' = [req EXCEPT ![r] = n] /\ UNCHANGED <<active, session, key>>
      BY <1>7 DEF BeginLogin, m, dbVars
    <2> HIDE DEF n
    <2> QED BY <1>5, <2>2, <2>3 DEF Browsing
  <1>8. ASSUME NEW r \in Requests, CheckGuard(r) PROVE RequestsOK'
    BY <1>4, <1>6, <1>8, StepNames DEF CheckGuard, dbVars
  <1>9. ASSUME NEW r \in Requests, Authenticate(r) PROVE RequestsOK'
    <2>1. CASE Goto(r, "recordSuccess")
      BY <1>4, <1>9, <2>1, StepNames DEF Authenticate, dbVars
    <2>2. CASE GotoStamped(r, "recordFailure")
      <3> DEFINE m == [req[r] EXCEPT !.step = "recordFailure"]
                 n == [m EXCEPT !.stamp = time]
      <3>1. RequestOK(m, active, session, key)
        BY <1>3, StepNames
      <3> HIDE DEF m
      <3>2. RequestOK(n, active, session, key)
        BY <1>t, <3>1, StampOK
      <3>3. req' = [req EXCEPT ![r] = n]
        BY <1>1, <2>2 DEF GotoStamped, m, RequestState
      <3> HIDE DEF n
      <3> QED BY <1>9, <3>2, <3>3, OneMoves DEF Authenticate, dbVars
    <2> QED BY <1>9, <2>1, <2>2 DEF Authenticate
  <1>10. ASSUME NEW r \in Requests, FailLogin(r) PROVE RequestsOK'
    BY <1>6, <1>10 DEF FailLogin, dbVars
  <1>11. ASSUME NEW r \in Requests, PassLogin(r) PROVE RequestsOK'
    BY <1>4, <1>11, StepNames DEF PassLogin, dbVars
  <1>12. ASSUME NEW r \in Requests, MintSession(r) PROVE RequestsOK'
    BY <1>12, IdleOK, NoRevival, OneMovesAndTablesChange DEF MintSession, Respond
  <1>13. ASSUME NEW r \in Requests, NEW s \in Sessions, BeginBrowse(r, s) PROVE RequestsOK'
    <2>3. PICK gone \in BOOLEAN : gone = (session[s] = "revoked")
      OBVIOUS
    <2> DEFINE m == Start(r, "revocation", "browse")
               n == [m EXCEPT !.target = s, !.cutOff = gone, !.seenActive = active]
    <2>1. m \in RequestState /\ m.step = "revocation" /\ m.op = "browse"
      BY IdleState, StepNames, OpNames DEF Start, RequestState
    <2>2. req' = [req EXCEPT ![r] = n] /\ UNCHANGED <<active, session, key>>
      BY <1>13, <2>3 DEF BeginBrowse, dbVars
    <2> HIDE DEF m
    <2>4. /\ n \in RequestState
          /\ n.step = "revocation" /\ n.op = "browse" /\ n.target = s
          /\ n.cutOff = gone /\ n.seenActive = active
      BY <1>t, <2>1 DEF RequestState
    <2> HIDE DEF n
    <2>5. StepsOfRoutes(n)
      BY <2>4 DEF StepsOfRoutes, Browsing
    <2>6. Withdrawn(n, session, key)
      BY <2>3, <2>4 DEF Withdrawn
    <2>7. PastTheLook(n) /\ SawTheUserActive(n, active)
      BY <2>4 DEF PastTheLook, SawTheUserActive
    <2>8. RequestOK(n, active, session, key)
      BY <2>4, <2>5, <2>6, <2>7 DEF RequestOK
    <2> QED BY <2>2, <2>8, OneMoves
  <1>14. ASSUME NEW r \in Requests, BeginBrowseByKey(r) PROVE RequestsOK'
    <2>3. PICK gone \in BOOLEAN : gone = (key = "revoked")
      OBVIOUS
    <2> DEFINE m == Start(r, "findKey", "browseByKey")
               n == [m EXCEPT !.cutOff = gone, !.seenActive = active]
    <2>1. m \in RequestState /\ m.step = "findKey" /\ m.op = "browseByKey"
      BY IdleState, StepNames, OpNames DEF Start, RequestState
    <2>2. req' = [req EXCEPT ![r] = n] /\ UNCHANGED <<active, session, key>>
      BY <1>14, <2>3 DEF BeginBrowseByKey, dbVars
    <2> HIDE DEF m
    <2>4. /\ n \in RequestState
          /\ n.step = "findKey" /\ n.op = "browseByKey"
          /\ n.cutOff = gone /\ n.seenActive = active
      BY <1>t, <2>1, <2>3, KeyRouteState
    <2> HIDE DEF n
    <2>5. StepsOfRoutes(n)
      BY <2>4 DEF StepsOfRoutes, Browsing
    <2>6. Withdrawn(n, session, key)
      BY <2>3, <2>4 DEF Withdrawn
    <2>7. PastTheLook(n) /\ SawTheUserActive(n, active)
      BY <2>4 DEF PastTheLook, SawTheUserActive
    <2>8. RequestOK(n, active, session, key)
      BY <2>4, <2>5, <2>6, <2>7 DEF RequestOK
    <2> QED BY <2>2, <2>8, OneMoves
  <1>15. ASSUME NEW r \in Requests, FindKey(r) PROVE RequestsOK'
    <2>1. CASE key = "active"
      <3> DEFINE n == [req[r] EXCEPT !.step = "touchKey"]
      <3>1. n.step = "touchKey" /\ n.op = req[r].op /\ n.target = req[r].target
        BY <1>1, GotoState, StepNames
      <3>2. StepsOfRoutes(req[r]) /\ Withdrawn(req[r], session, key) /\ req[r].step = "findKey"
        BY <1>1, <1>15 DEF RequestOK, FindKey, At
      <3> HIDE DEF n
      <3>3. StepsOfRoutes(n) /\ ~ req[r].cutOff
        BY <2>1, <3>1, <3>2 DEF StepsOfRoutes, Withdrawn
      <3>4. StepsOfRoutes([req[r] EXCEPT !.step = "touchKey"])
        BY <3>3 DEF n
      <3>5. Goto(r, "touchKey") /\ UNCHANGED <<active, session, key>>
        BY <1>15, <2>1 DEF FindKey, dbVars
      <3> QED BY <1>2, <3>3, <3>4, <3>5, StepNames
    <2>2. CASE key # "active"
      BY <1>6, <1>15, <2>2 DEF FindKey, dbVars
    <2> QED BY <2>1, <2>2
  <1>16. ASSUME NEW r \in Requests, TouchKey(r) PROVE RequestsOK'
    <2> DEFINE n == [req[r] EXCEPT !.step = "permission"]
    <2>1. n.step = "permission" /\ n.op = req[r].op /\ n.target = req[r].target
      BY <1>1, GotoState, StepNames
    <2>2. StepsOfRoutes(req[r]) /\ PastTheLook(req[r]) /\ req[r].step = "touchKey"
      BY <1>1, <1>16 DEF RequestOK, TouchKey, At
    <2> HIDE DEF n
    <2>3. StepsOfRoutes(n) /\ ~ req[r].cutOff
      BY <2>1, <2>2 DEF StepsOfRoutes, PastTheLook, Browsing
    <2>4. StepsOfRoutes([req[r] EXCEPT !.step = "permission"])
      BY <2>3 DEF n
    <2>5. Goto(r, "permission") /\ UNCHANGED <<active, session, key>>
      BY <1>16 DEF TouchKey, dbVars
    <2> QED BY <1>2, <2>3, <2>4, <2>5, StepNames
  <1>17. ASSUME NEW r \in Requests, CheckRevocation(r) PROVE RequestsOK'
    <2>1. CASE session[req[r].target] # "revoked"
      <3> DEFINE n == [req[r] EXCEPT !.step = "permission"]
      <3>1. n.step = "permission" /\ n.op = req[r].op /\ n.target = req[r].target
        BY <1>1, GotoState, StepNames
      <3>2. StepsOfRoutes(req[r]) /\ Withdrawn(req[r], session, key) /\ req[r].step = "revocation"
        BY <1>1, <1>17 DEF RequestOK, CheckRevocation, At
      <3> HIDE DEF n
      <3>3. StepsOfRoutes(n) /\ ~ req[r].cutOff
        BY <2>1, <3>1, <3>2 DEF StepsOfRoutes, Withdrawn, Browsing
      <3>4. StepsOfRoutes([req[r] EXCEPT !.step = "permission"])
        BY <3>3 DEF n
      <3>5. Goto(r, "permission") /\ UNCHANGED <<active, session, key>>
        BY <1>17, <2>1 DEF CheckRevocation, dbVars
      <3> QED BY <1>2, <3>3, <3>4, <3>5, StepNames
    <2>2. CASE session[req[r].target] = "revoked"
      BY <1>6, <1>17, <2>2 DEF CheckRevocation, dbVars
    <2> QED BY <2>1, <2>2
  <1>18. ASSUME NEW r \in Requests, CheckPermission(r) PROVE RequestsOK'
    <2>1. CASE active
      <3> DEFINE n == [req[r] EXCEPT !.step = "serve"]
      <3>1. n.step = "serve" /\ n.op = req[r].op /\ n.target = req[r].target
        BY <1>1, GotoState, StepNames
      <3>2. /\ StepsOfRoutes(req[r]) /\ PastTheLook(req[r]) /\ SawTheUserActive(req[r], active)
            /\ req[r].step = "permission"
        BY <1>1, <1>18 DEF RequestOK, CheckPermission, At
      <3> HIDE DEF n
      <3>3. StepsOfRoutes(n) /\ ~ req[r].cutOff /\ req[r].seenActive
        BY <2>1, <3>1, <3>2 DEF StepsOfRoutes, PastTheLook, SawTheUserActive
      <3>4. StepsOfRoutes([req[r] EXCEPT !.step = "serve"])
        BY <3>3 DEF n
      <3>5. Goto(r, "serve") /\ UNCHANGED <<active, session, key>>
        BY <1>18, <2>1 DEF CheckPermission, dbVars
      <3> QED BY <1>2, <3>3, <3>4, <3>5, StepNames
    <2>2. CASE ~ active
      BY <1>6, <1>18, <2>2 DEF CheckPermission, dbVars
    <2> QED BY <2>1, <2>2
  <1>19. ASSUME NEW r \in Requests, NEW s \in Sessions, BeginLogout(r, s) \/ BeginRevokeSession(r, s)
        PROVE  RequestsOK'
    <2>1. PICK step \in Steps, op \in Ops :
            /\ step \in {"load", "find"} /\ op \in {"logout", "revokeSession"}
            /\ req' = [req EXCEPT ![r] = [Start(r, step, op) EXCEPT !.target = s]]
      BY <1>19, StepNames, OpNames DEF BeginLogout, BeginRevokeSession
    <2> DEFINE m == Start(r, step, op)
               n == [m EXCEPT !.target = s]
    <2>2. m \in RequestState /\ m.step = step /\ m.op = op
      BY IdleState DEF Start, RequestState
    <2>3. req' = [req EXCEPT ![r] = n] /\ UNCHANGED <<active, session, key>>
      BY <1>19, <2>1 DEF BeginLogout, BeginRevokeSession, dbVars
    <2> HIDE DEF m
    <2>4. n \in RequestState /\ n.step = step /\ n.op = op /\ n.target = s
      BY <2>2, TargetState
    <2> HIDE DEF n
    <2> QED BY <1>5, <2>1, <2>3, <2>4 DEF Browsing
  <1>20. ASSUME NEW r \in Requests, BeginRevokeKey(r) \/ BeginCreateKey(r) PROVE RequestsOK'
    <2>1. PICK step \in Steps, op \in Ops :
            /\ step \in {"load", "insertKey"} /\ op \in {"revokeKey", "createKey"}
            /\ req' = [req EXCEPT ![r] = Start(r, step, op)]
      BY <1>20, StepNames, OpNames DEF BeginRevokeKey, BeginCreateKey
    <2> DEFINE m == Start(r, step, op)
    <2>2. m \in RequestState /\ m.step = step /\ m.op = op
      BY IdleState DEF Start, RequestState
    <2>3. req' = [req EXCEPT ![r] = m] /\ UNCHANGED <<active, session, key>>
      BY <1>20, <2>1 DEF BeginRevokeKey, BeginCreateKey, dbVars
    <2> HIDE DEF m
    <2> QED BY <1>5, <2>1, <2>2, <2>3 DEF Browsing
  <1>21. ASSUME NEW r \in Requests, FindSession(r) PROVE RequestsOK'
    BY <1>4, <1>21, StepNames DEF FindSession, dbVars
  <1>22. ASSUME NEW r \in Requests, LoadRow(r) PROVE RequestsOK'
    BY <1>4, <1>6, <1>22, StepNames DEF LoadRow, dbVars
  <1>23. ASSUME NEW r \in Requests, WriteRevocation(r) \/ InsertKey(r) PROVE RequestsOK'
    <2>1. PICK n : req' = [req EXCEPT ![r] = n] /\ RequestOK(n, active, session, key)
      <3>1. CASE Respond(r)
        BY <3>1, IdleOK DEF Respond
      <3>2. CASE Goto(r, "audit")
        BY <1>3, <3>2, StepNames DEF Goto
      <3> QED BY <1>23, <3>1, <3>2 DEF WriteRevocation, InsertKey
    <2>2. active' = active
      BY <1>23 DEF WriteRevocation, InsertKey
    <2> QED BY <2>1, <2>2, NoRevival, OneMovesAndTablesChange
  <1>24. ASSUME NEW r \in Requests, RecordAudit(r) \/ FailRequest(r) \/ Serve(r) PROVE RequestsOK'
    BY <1>6, <1>24 DEF RecordAudit, FailRequest, Serve, dbVars
  <1>25. ASSUME NEW isActive \in BOOLEAN, CommitStatus(isActive) PROVE RequestsOK'
    <2>1. active' = isActive /\ session' = session /\ key' = key
      BY <1>25 DEF CommitStatus
    <2>2. ASSUME NEW r \in Requests PROVE RequestOK(req'[r], active', session', key')
      <3>1. CASE isActive /\ req[r].op \in Browsing
        <4> DEFINE n == [req[r] EXCEPT !.seenActive = TRUE]
        <4>1. /\ n \in RequestState
              /\ n.step = req[r].step /\ n.op = req[r].op /\ n.target = req[r].target
              /\ n.cutOff = req[r].cutOff /\ n.seenActive = TRUE
          BY <1>1 DEF RequestState
        <4>2. req'[r] = n
          BY <1>25, <3>1 DEF CommitStatus, Browsing
        <4>3. StepsOfRoutes(req[r]) /\ Withdrawn(req[r], session, key) /\ PastTheLook(req[r])
          BY <1>1 DEF RequestOK
        <4> HIDE DEF n
        <4>4. StepsOfRoutes(n) /\ Withdrawn(n, session, key) /\ PastTheLook(n)
          BY <4>1, <4>3 DEF StepsOfRoutes, Withdrawn, PastTheLook
        <4>5. SawTheUserActive(n, active')
          BY <4>1 DEF SawTheUserActive
        <4> QED BY <2>1, <4>1, <4>2, <4>4, <4>5 DEF RequestOK
      <3>2. CASE ~ (isActive /\ req[r].op \in Browsing)
        <4>1. req'[r] = req[r]
          BY <1>25, <3>2 DEF CommitStatus, Browsing
        <4>2. SawTheUserActive(req[r], active')
          BY <1>1, <2>1, <3>2 DEF RequestOK, SawTheUserActive
        <4> QED BY <1>1, <2>1, <4>1, <4>2 DEF RequestOK
      <3> QED BY <3>1, <3>2
    <2>3. req' \in [Requests -> RequestState]
      <3>1. \A r \in Requests : req'[r] \in RequestState
        BY <2>2 DEF RequestOK
      <3> QED BY <1>25, <3>1 DEF CommitStatus
    <2> QED BY <2>2, <2>3 DEF RequestsOK
  <1>26. ASSUME RestartProcess PROVE RequestsOK'
    <2>1. req' = [r \in Requests |-> Idle]
      BY <1>26 DEF RestartProcess
    <2>2. \A r \in Requests : req'[r] \in RequestState /\ RequestOK(req'[r], active', session', key')
      BY <2>1, IdleOK, IdleState
    <2> QED BY <2>1, <2>2 DEF RequestsOK
  <1>27. ASSUME UNCHANGED <<active, session, key, req>> PROVE RequestsOK'
    BY <1>27 DEF RequestsOK
  <1> QED
    <2>1. CASE Tick \/ UNCHANGED accessVars
      BY <1>27, <2>1 DEF Tick, accessVars, dbVars
    <2> QED BY <1>7, <1>8, <1>9, <1>10, <1>11, <1>12, <1>13, <1>14, <1>15, <1>16, <1>17, <1>18,
              <1>19, <1>20, <1>21, <1>22, <1>23, <1>24, <1>25, <1>26, <2>1 DEF AccessNext

-----------------------------------------------------------------------------
(* Types. *)

\* The steps that can change the guard's state.
GuardStep ==
    \/ UNCHANGED guardVars
    \/ PassTime
    \/ RestartProcess
    \/ \E r \in Requests : CheckGuard(r) \/ FailLogin(r) \/ PassLogin(r)

LEMMA GuardSteps == ASSUME [AccessNext]_accessVars PROVE GuardStep
  <1>1. ASSUME NEW r \in Requests,
               \/ \E right \in BOOLEAN : BeginLogin(r, right)
               \/ Authenticate(r) \/ MintSession(r)
               \/ \E s \in Sessions : BeginBrowse(r, s) \/ BeginLogout(r, s) \/ BeginRevokeSession(r, s)
               \/ BeginBrowseByKey(r) \/ FindKey(r) \/ TouchKey(r)
               \/ CheckRevocation(r) \/ CheckPermission(r) \/ Serve(r)
               \/ BeginRevokeKey(r) \/ BeginCreateKey(r) \/ InsertKey(r)
               \/ FindSession(r) \/ LoadRow(r) \/ WriteRevocation(r) \/ RecordAudit(r) \/ FailRequest(r)
        PROVE  UNCHANGED guardVars
    BY <1>1 DEF BeginLogin, Authenticate, MintSession, BeginBrowse, BeginLogout,
                BeginRevokeSession, BeginBrowseByKey, FindKey, TouchKey, CheckRevocation,
                CheckPermission, Serve, BeginRevokeKey, BeginCreateKey, InsertKey, FindSession,
                LoadRow, WriteRevocation, RecordAudit, FailRequest
  <1>2. ASSUME NEW r \in Requests, CheckGuard(r) \/ FailLogin(r) \/ PassLogin(r)
        PROVE  GuardStep
    BY <1>2 DEF GuardStep
  <1>3. ASSUME \/ \E isActive \in BOOLEAN : CommitStatus(isActive)
               \/ RestartProcess \/ Tick \/ UNCHANGED accessVars
        PROVE  GuardStep
    BY <1>3 DEF CommitStatus, Tick, accessVars, guardVars, GuardStep
  <1> QED BY <1>1, <1>2, <1>3 DEF AccessNext, GuardStep

\* A failure recorded: the set grows by one at most and stays in its type.
LEMMA FailureType ==
    ASSUME GuardTypeOK, NEW now \in 0..LastTime
    PROVE  /\ WithFailure(now) \subseteq (0..LastTime) \X Nat
           /\ IsFiniteSet(WithFailure(now))
           /\ Cardinality(WithFailure(now)) <= Cardinality(failures) + 1
  <1> DEFINE kept == {f \in failures : f[1] + FailureWindow > now}
             same == {f \in failures : f[1] = now}
             new == <<now, Cardinality(same) + 1>>
  <1>1. IsFiniteSet(failures)
    BY DEF GuardTypeOK
  <1>2. IsFiniteSet(kept) /\ Cardinality(kept) <= Cardinality(failures)
    BY <1>1, FS_Subset
  <1>3. IsFiniteSet(same)
    BY <1>1, FS_Subset
  <1>4. Cardinality(same) \in Nat
    BY <1>3, FS_CardinalityType
  <1>5. Cardinality(kept) \in Nat /\ Cardinality(failures) \in Nat
    BY <1>1, <1>2, FS_CardinalityType
  <1>6. /\ IsFiniteSet(kept \cup {new})
        /\ Cardinality(kept \cup {new}) = IF new \in kept THEN Cardinality(kept)
                                           ELSE Cardinality(kept) + 1
    <2> HIDE DEF kept, new
    <2> QED BY <1>2, FS_AddElement
  <1>7. WithFailure(now) = kept \cup {new}
    BY DEF WithFailure
  <1>8. kept \subseteq (0..LastTime) \X Nat /\ new \in (0..LastTime) \X Nat
    BY <1>4 DEF GuardTypeOK
  <1> HIDE DEF kept, same, new
  <1> QED BY <1>2, <1>5, <1>6, <1>7, <1>8

\* Every step keeps the guard's types.
LEMMA GuardTypeStep ==
    ASSUME GuardTypeOK, RequestsOK, GuardStep
    PROVE  GuardTypeOK'
  <1> USE LastTimeAssumption, LockoutAssumption
  <1>1. CASE UNCHANGED guardVars
    BY <1>1 DEF GuardTypeOK, guardVars
  <1>2. CASE PassTime
    BY <1>2 DEF GuardTypeOK, PassTime
  <1>3. ASSUME time' = time, RecordSuccess PROVE GuardTypeOK'
    BY <1>3, FS_EmptySet DEF GuardTypeOK, RecordSuccess
  <1>4. ASSUME NEW r \in Requests, CheckGuard(r) PROVE GuardTypeOK'
    BY <1>4, FS_EmptySet DEF GuardTypeOK, CheckGuard, ClearElapsedLock
  <1>5. ASSUME NEW r \in Requests, FailLogin(r) PROVE GuardTypeOK'
    <2>1. req[r].stamp \in 0..LastTime
      BY DEF RequestsOK, RequestState
    <2>2. failures' \subseteq (0..LastTime) \X Nat /\ IsFiniteSet(failures')
      BY <1>5, <2>1, FailureType DEF FailLogin, RecordFailure
    <2>3. lockedUntil' \in 0..(LastTime + Lockout)
      BY <1>5, <2>1 DEF FailLogin, RecordFailure, GuardTypeOK
    <2> QED BY <1>5, <2>2, <2>3 DEF FailLogin, GuardTypeOK
  <1> QED BY <1>1, <1>2, <1>3, <1>4, <1>5 DEF GuardStep, RestartProcess, ForgetAll, PassLogin

\* Every step keeps the types.
LEMMA AccessTypeStep ==
    ASSUME AccessTypeOK, RequestsOK, [AccessNext]_accessVars
    PROVE  AccessTypeOK'
  <1>1. GuardTypeOK'
    BY GuardSteps, GuardTypeStep DEF AccessTypeOK
  <1>2. req' \in [Requests -> RequestState]
    BY RequestsStep DEF RequestsOK
  <1> DEFINE TablesTyped == /\ active' \in BOOLEAN
                            /\ session' \in [Sessions -> Status]
                            /\ key' \in Status
                            /\ audited' \subseteq Sessions \cup {"key"}
  <1>3. TablesTyped
    <2> USE DEF AccessTypeOK, dbVars
    <2>1. ASSUME NEW r \in Requests, MintSession(r) PROVE TablesTyped
      BY <2>1 DEF MintSession, Status
    <2>2. ASSUME NEW r \in Requests, WriteRevocation(r) PROVE TablesTyped
      BY <2>2 DEF WriteRevocation, Status
    <2>3. ASSUME NEW r \in Requests, InsertKey(r) PROVE TablesTyped
      BY <2>3 DEF InsertKey, Status
    <2>4. ASSUME NEW r \in Requests, RecordAudit(r) PROVE TablesTyped
      <3>1. StepsOfRoutes(req[r])
        BY DEF RequestsOK, RequestOK
      <3> QED BY <2>4, <3>1 DEF RecordAudit, StepsOfRoutes
    <2>5. ASSUME NEW r \in Requests,
                 \/ \E right \in BOOLEAN : BeginLogin(r, right)
                 \/ CheckGuard(r) \/ Authenticate(r) \/ FailLogin(r) \/ PassLogin(r)
                 \/ \E s \in Sessions : BeginBrowse(r, s) \/ BeginLogout(r, s) \/ BeginRevokeSession(r, s)
                 \/ BeginBrowseByKey(r) \/ FindKey(r) \/ TouchKey(r)
                 \/ CheckRevocation(r) \/ CheckPermission(r) \/ Serve(r)
                 \/ BeginRevokeKey(r) \/ BeginCreateKey(r)
                 \/ FindSession(r) \/ LoadRow(r) \/ FailRequest(r)
          PROVE  UNCHANGED dbVars
      BY <2>5 DEF BeginLogin, CheckGuard, Authenticate, FailLogin, PassLogin, BeginBrowse, BeginLogout,
                  BeginRevokeSession, BeginBrowseByKey, FindKey, TouchKey, CheckRevocation,
                  CheckPermission, Serve, BeginRevokeKey, BeginCreateKey, FindSession, LoadRow,
                  FailRequest
    <2>6. ASSUME NEW isActive \in BOOLEAN, CommitStatus(isActive) PROVE TablesTyped
      BY <2>6 DEF CommitStatus
    <2>7. ASSUME RestartProcess \/ Tick \/ UNCHANGED accessVars PROVE UNCHANGED dbVars
      BY <2>7 DEF RestartProcess, Tick, accessVars
    <2>8. CASE UNCHANGED dbVars
      BY <2>8
    <2> QED BY <2>1, <2>2, <2>3, <2>4, <2>5, <2>6, <2>7, <2>8 DEF AccessNext
  <1> QED BY <1>1, <1>2, <1>3 DEF AccessTypeOK

-----------------------------------------------------------------------------
(* The bound on guesses. *)

LEMMA UncountedFinite ==
    /\ IsFiniteSet(Uncounted) /\ Cardinality(Uncounted) \in Nat
    /\ Cardinality(Uncounted) <= Cardinality(Requests)
    /\ Cardinality(Requests) \in Nat
  <1>1. Uncounted \subseteq Requests
    BY DEF Uncounted
  <1>2. IsFiniteSet(Uncounted) /\ Cardinality(Uncounted) <= Cardinality(Requests)
    BY <1>1, RequestsAssumption, FS_Subset
  <1> QED BY <1>2, RequestsAssumption, FS_CardinalityType

\* Uncounted changes with the requests' steps.
UncountedAfter == {r \in Requests : req'[r].step \in {"authenticate", "recordFailure"}}

LEMMA AfterFinite ==
    /\ Uncounted' = UncountedAfter
    /\ IsFiniteSet(UncountedAfter) /\ Cardinality(UncountedAfter) \in Nat
    /\ Cardinality(UncountedAfter) <= Cardinality(Requests)
  <1>1. UncountedAfter \subseteq Requests
    BY DEF UncountedAfter
  <1>2. IsFiniteSet(UncountedAfter) /\ Cardinality(UncountedAfter) <= Cardinality(Requests)
    BY <1>1, RequestsAssumption, FS_Subset
  <1>3. Cardinality(UncountedAfter) \in Nat
    BY <1>2, FS_CardinalityType
  <1> QED BY <1>2, <1>3 DEF Uncounted, UncountedAfter

\* A step that lets no attempt past the guard.
NoNewAttempt ==
    \A r \in Requests :
        req'[r].step \in {"authenticate", "recordFailure"} =>
            req[r].step \in {"authenticate", "recordFailure"}

\* Only the guard's check lets attempts through.
LEMMA AttemptsPassTheCheck ==
    ASSUME RequestsOK, [AccessNext]_accessVars,
           ~ \E r \in Requests : CheckGuard(r)
    PROVE  NoNewAttempt
  <1>1. \A r \in Requests : req[r] \in RequestState
    BY DEF RequestsOK
  <1>2. req \in [Requests -> RequestState]
    BY DEF RequestsOK
  <1>3. ASSUME NEW r \in Requests, NEW n, req' = [req EXCEPT ![r] = n],
               n.step \in {"authenticate", "recordFailure"} =>
                   req[r].step \in {"authenticate", "recordFailure"}
        PROVE  NoNewAttempt
    BY <1>2, <1>3 DEF NoNewAttempt
  <1>4. ASSUME NEW r \in Requests, NEW s \in Steps \ {"authenticate", "recordFailure"}, Goto(r, s)
        PROVE  NoNewAttempt
    <2> DEFINE n == [req[r] EXCEPT !.step = s]
    <2>1. n.step = s
      BY <1>1, GotoState
    <2>2. req' = [req EXCEPT ![r] = n]
      BY <1>4 DEF Goto
    <2> HIDE DEF n
    <2> QED BY <1>3, <2>1, <2>2
  <1>5. ASSUME NEW r \in Requests, Respond(r) PROVE NoNewAttempt
    <2>1. Idle.step = "idle"
      BY IdleOK
    <2> QED BY <1>3, <1>5, <2>1 DEF Respond
  <1>6. ASSUME NEW r \in Requests, NEW right \in BOOLEAN, BeginLogin(r, right)
        PROVE  NoNewAttempt
    <2> DEFINE m == Start(r, "check", "login")
               n == [m EXCEPT !.stamp = time, !.password = right]
    <2>1. m \in RequestState /\ m.step = "check"
      BY IdleState, StepNames, OpNames DEF Start, RequestState
    <2> HIDE DEF m
    <2>2. n.step = "check"
      BY <2>1 DEF RequestState
    <2>3. req' = [req EXCEPT ![r] = n]
      BY <1>6 DEF BeginLogin, m
    <2> HIDE DEF n
    <2> QED BY <1>3, <2>2, <2>3
  <1>7. ASSUME NEW r \in Requests, Authenticate(r) PROVE NoNewAttempt
    <2>1. CASE Goto(r, "recordSuccess")
      BY <1>4, <2>1, StepNames
    <2>2. CASE GotoStamped(r, "recordFailure")
      BY <1>2, <1>7, <2>2 DEF GotoStamped, NoNewAttempt, Authenticate, At
    <2> QED BY <1>7, <2>1, <2>2 DEF Authenticate
  <1>8. ASSUME NEW r \in Requests, PassLogin(r) PROVE NoNewAttempt
    BY <1>4, <1>8, StepNames DEF PassLogin
  <1>9. ASSUME NEW r \in Requests, NEW s \in Sessions,
               BeginBrowse(r, s) \/ BeginLogout(r, s) \/ BeginRevokeSession(r, s)
        PROVE  NoNewAttempt
    <2>1. PICK n : /\ req' = [req EXCEPT ![r] = n]
                   /\ n.step \notin {"authenticate", "recordFailure"}
      <3>1. CASE BeginBrowse(r, s)
        <4> DEFINE n == [Start(r, "revocation", "browse") EXCEPT
                           !.target = s, !.cutOff = (session[s] = "revoked"), !.seenActive = active]
        <4>1. n.step = "revocation"
          BY DEF Start, Idle
        <4>2. req' = [req EXCEPT ![r] = n]
          BY <3>1 DEF BeginBrowse
        <4> HIDE DEF n
        <4> QED BY <4>1, <4>2
      <3>2. CASE BeginLogout(r, s)
        <4> DEFINE n == [Start(r, "load", "logout") EXCEPT !.target = s]
        <4>1. n.step = "load"
          BY DEF Start, Idle
        <4>2. req' = [req EXCEPT ![r] = n]
          BY <3>2 DEF BeginLogout
        <4> HIDE DEF n
        <4> QED BY <4>1, <4>2
      <3>3. CASE BeginRevokeSession(r, s)
        <4> DEFINE n == [Start(r, "find", "revokeSession") EXCEPT !.target = s]
        <4>1. n.step = "find"
          BY DEF Start, Idle
        <4>2. req' = [req EXCEPT ![r] = n]
          BY <3>3 DEF BeginRevokeSession
        <4> HIDE DEF n
        <4> QED BY <4>1, <4>2
      <3> QED BY <1>9, <3>1, <3>2, <3>3
    <2> QED BY <1>3, <2>1
  <1>10. ASSUME NEW r \in Requests, BeginBrowseByKey(r) \/ BeginRevokeKey(r) \/ BeginCreateKey(r)
         PROVE  NoNewAttempt
    <2>1. PICK n : /\ req' = [req EXCEPT ![r] = n]
                   /\ n.step \notin {"authenticate", "recordFailure"}
      <3>1. CASE BeginBrowseByKey(r)
        <4> DEFINE n == [Start(r, "findKey", "browseByKey") EXCEPT
                           !.cutOff = (key = "revoked"), !.seenActive = active]
        <4>1. n.step = "findKey"
          BY DEF Start, Idle
        <4>2. req' = [req EXCEPT ![r] = n]
          BY <3>1 DEF BeginBrowseByKey
        <4> HIDE DEF n
        <4> QED BY <4>1, <4>2
      <3>2. CASE BeginRevokeKey(r)
        <4>1. Start(r, "load", "revokeKey").step = "load"
          BY DEF Start, Idle
        <4> QED BY <3>2, <4>1 DEF BeginRevokeKey
      <3>3. CASE BeginCreateKey(r)
        <4>1. Start(r, "insertKey", "createKey").step = "insertKey"
          BY DEF Start, Idle
        <4> QED BY <3>3, <4>1 DEF BeginCreateKey
      <3> QED BY <1>10, <3>1, <3>2, <3>3
    <2> QED BY <1>3, <2>1
  <1>11. ASSUME NEW r \in Requests,
                \/ FailLogin(r) \/ MintSession(r) \/ FindKey(r) \/ TouchKey(r)
                \/ CheckRevocation(r) \/ CheckPermission(r) \/ Serve(r)
                \/ InsertKey(r) \/ FindSession(r) \/ LoadRow(r) \/ WriteRevocation(r)
                \/ RecordAudit(r) \/ FailRequest(r)
         PROVE  NoNewAttempt
    <2>1. \/ Respond(r)
          \/ \E s \in {"touchKey", "permission", "serve", "load", "write", "audit"} : Goto(r, s)
      BY <1>11 DEF FailLogin, MintSession, FindKey, TouchKey, CheckRevocation, CheckPermission, Serve,
                   InsertKey, FindSession, LoadRow, WriteRevocation, RecordAudit, FailRequest
    <2> QED BY <1>4, <1>5, <2>1, StepNames
  <1>12. ASSUME NEW isActive \in BOOLEAN, CommitStatus(isActive) PROVE NoNewAttempt
    <2>1. ASSUME NEW r \in Requests PROVE req'[r].step = req[r].step
      BY <1>1, <1>12 DEF CommitStatus, RequestState
    <2> QED BY <2>1 DEF NoNewAttempt
  <1>13. ASSUME RestartProcess PROVE NoNewAttempt
    BY <1>13, IdleOK DEF RestartProcess, NoNewAttempt
  <1>14. CASE Tick \/ UNCHANGED accessVars
    BY <1>14 DEF Tick, accessVars, NoNewAttempt
  <1> QED BY <1>6, <1>7, <1>8, <1>9, <1>10, <1>11, <1>12, <1>13, <1>14 DEF AccessNext

LEMMA AttemptsShrink ==
    ASSUME NoNewAttempt
    PROVE  Cardinality(UncountedAfter) <= Cardinality(Uncounted)
  <1>1. UncountedAfter \subseteq Uncounted
    BY DEF NoNewAttempt, UncountedAfter, Uncounted
  <1> QED BY <1>1, UncountedFinite, FS_Subset

\* An attempt that is counted is none of those still to be counted.
LEMMA CountedLeaves ==
    ASSUME RequestsOK, NoNewAttempt, NEW r \in Requests, FailLogin(r)
    PROVE  Cardinality(UncountedAfter) + 1 <= Cardinality(Uncounted)
  <1>1. r \in Uncounted
    BY DEF FailLogin, At, Uncounted
  <1>2. req'[r].step = "idle"
    BY IdleOK DEF FailLogin, Respond, RequestsOK
  <1>3. UncountedAfter \subseteq Uncounted \ {r}
    BY <1>2 DEF NoNewAttempt, UncountedAfter, Uncounted
  <1>4. /\ IsFiniteSet(Uncounted \ {r})
        /\ Cardinality(Uncounted \ {r}) = Cardinality(Uncounted) - 1
    BY <1>1, UncountedFinite, FS_RemoveElement
  <1>5. Cardinality(UncountedAfter) <= Cardinality(Uncounted \ {r})
    BY <1>3, <1>4, FS_Subset
  <1> QED BY <1>4, <1>5, AfterFinite, UncountedFinite

\* Every step keeps the failures on record within the bound.
LEMMA GuessStep ==
    ASSUME AccessInv, [AccessNext]_accessVars
    PROVE  UnlockedMeansBelow' /\ GuessesBounded'
  <1> DEFINE F == Cardinality(failures)
             U == Cardinality(Uncounted)
             R == Cardinality(Requests)
             V == Cardinality(UncountedAfter)
             G == Cardinality(failures')
  <1>1. /\ F \in Nat /\ U \in Nat /\ R \in Nat /\ V \in Nat /\ V <= R
        /\ MaxAttempts \in Nat /\ MaxAttempts # 0 /\ IsFiniteSet(failures)
        /\ F + U < MaxAttempts + R
        /\ lockedUntil = 0 => F < MaxAttempts
    BY UncountedFinite, AfterFinite, MaxAttemptsAssumption, FS_CardinalityType
       DEF AccessInv, AccessTypeOK, GuardTypeOK, GuessesBounded, UnlockedMeansBelow
  <1>2. SUFFICES (lockedUntil' = 0 => G < MaxAttempts) /\ G + V < MaxAttempts + R
    BY AfterFinite DEF UnlockedMeansBelow, GuessesBounded
  <1>3. RequestsOK /\ GuardTypeOK /\ lockedUntil \in Nat
    BY LastTimeAssumption, LockoutAssumption DEF AccessInv, AccessTypeOK, GuardTypeOK
  <1>4. Cardinality({}) = 0
    BY FS_EmptySet
  <1> DEFINE Goal == (lockedUntil' = 0 => G < MaxAttempts) /\ G + V < MaxAttempts + R
  <1>5. ASSUME NoNewAttempt, failures' = failures, lockedUntil' = lockedUntil PROVE Goal
    <2>1. G = F /\ V <= U
      BY <1>5, AttemptsShrink
    <2> HIDE DEF F, U, R, V, G
    <2> QED BY <1>1, <1>5, <2>1
  <1>6. ASSUME failures' = {} PROVE Goal
    <2>1. G = 0
      BY <1>4, <1>6
    <2> HIDE DEF F, U, R, V, G
    <2> QED BY <1>1, <2>1
  <1>7. ASSUME NEW r \in Requests, CheckGuard(r) PROVE Goal
    <2>1. CASE Respond(r) /\ UNCHANGED <<failures, lockedUntil>>
      <3>1. NoNewAttempt
        BY <1>3, <2>1, IdleOK DEF Respond, NoNewAttempt, RequestsOK
      <3> QED BY <1>5, <2>1, <3>1
    <2>2. CASE ClearElapsedLock(req[r].stamp)
      <3>1. CASE lockedUntil = 0
        <4>1. G = F
          BY <2>2, <3>1 DEF ClearElapsedLock
        <4> HIDE DEF F, U, R, V, G
        <4> QED BY <1>1, <3>1, <4>1
      <3>2. CASE lockedUntil # 0
        BY <1>6, <2>2, <3>2 DEF ClearElapsedLock
      <3> QED BY <3>1, <3>2
    <2> QED BY <1>7, <2>1, <2>2 DEF CheckGuard
  <1>8. ASSUME NEW r \in Requests, FailLogin(r), NoNewAttempt PROVE Goal
    <2>1. V + 1 <= U
      BY <1>3, <1>8, CountedLeaves
    <2>2. req[r].stamp \in 0..LastTime
      BY <1>3 DEF RequestsOK, RequestState
    <2>3. G <= F + 1 /\ IsFiniteSet(failures')
      BY <1>3, <1>8, <2>2, FailureType DEF FailLogin, RecordFailure
    <2>4. G \in Nat
      BY <2>3, FS_CardinalityType
    <2>5. lockedUntil' = 0 => ~ (G >= MaxAttempts)
      BY <1>8, <2>2, LastTimeAssumption, LockoutAssumption DEF FailLogin, RecordFailure
    <2> HIDE DEF F, U, R, V, G
    <2> QED BY <1>1, <2>1, <2>3, <2>4, <2>5
  <1>9. CASE \E r \in Requests : CheckGuard(r)
    BY <1>7, <1>9
  <1>10. CASE ~ \E r \in Requests : CheckGuard(r)
    <2>1. NoNewAttempt
      BY <1>3, <1>10, AttemptsPassTheCheck
    <2>2. CASE \E r \in Requests : FailLogin(r)
      BY <1>8, <2>1, <2>2
    <2>3. CASE \E r \in Requests : PassLogin(r)
      BY <1>6, <2>3 DEF PassLogin, RecordSuccess
    <2>4. CASE RestartProcess
      BY <1>6, <2>4 DEF RestartProcess, ForgetAll, RecordSuccess
    <2>5. CASE UNCHANGED <<failures, lockedUntil>>
      BY <1>5, <2>1, <2>5
    <2>6. CASE PassTime \/ UNCHANGED guardVars
      BY <2>5, <2>6 DEF PassTime, guardVars
    <2> QED BY <1>10, <2>2, <2>3, <2>4, <2>6, GuardSteps DEF GuardStep
  <1> QED BY <1>9, <1>10

-----------------------------------------------------------------------------
(* The theorems. *)

LEMMA AccessInitInv == AccessInit => AccessInv
  <1> SUFFICES ASSUME AccessInit PROVE AccessInv
    OBVIOUS
  <1> USE LastTimeAssumption, LockoutAssumption
  <1>1. \A r \in Requests : req[r] = Idle
    BY DEF AccessInit
  <1>2. GuardTypeOK
    BY FS_EmptySet DEF AccessInit, GuardInit, GuardTypeOK
  <1>3. RequestsOK
    BY <1>1, IdleOK, IdleState DEF AccessInit, RequestsOK
  <1>4. AccessTypeOK
    BY <1>2, <1>3 DEF AccessInit, AccessTypeOK, RequestsOK, Status
  <1>5. Cardinality(failures) = 0
    BY FS_EmptySet DEF AccessInit, GuardInit
  <1>6. UnlockedMeansBelow
    BY <1>5, MaxAttemptsAssumption DEF UnlockedMeansBelow
  <1>7. GuessesBounded
    BY <1>5, UncountedFinite, MaxAttemptsAssumption DEF GuessesBounded
  <1> QED BY <1>3, <1>4, <1>6, <1>7 DEF AccessInv

LEMMA AccessStepInv == AccessInv /\ [AccessNext]_accessVars => AccessInv'
  <1> SUFFICES ASSUME AccessInv, [AccessNext]_accessVars PROVE AccessInv'
    OBVIOUS
  <1>1. AccessTypeOK /\ RequestsOK
    BY DEF AccessInv
  <1>2. AccessTypeOK'
    BY <1>1, AccessTypeStep
  <1>3. RequestsOK'
    BY <1>1, RequestsStep
  <1> QED BY <1>2, <1>3, GuessStep DEF AccessInv

LEMMA AccessInvariant == AccessSpec => []AccessInv
  BY AccessInitInv, AccessStepInv, PTL DEF AccessSpec

\* The state stays in its types: the guard's failures are a finite set.
THEOREM AccessTypes == AccessSpec => []AccessTypeOK
  BY AccessInvariant, PTL DEF AccessInv

\* No handler of a protected route runs for a request whose credential was
\* revoked before it arrived, or for a user who was inactive throughout.
THEOREM RevokedAccessEnds == AccessSpec => []AccessEndsWithRevocation
  <1>1. AccessInv => AccessEndsWithRevocation
    BY DEF AccessInv, RequestsOK, RequestOK, PastTheLook, SawTheUserActive, At,
           AccessEndsWithRevocation
  <1> QED BY <1>1, AccessInvariant, PTL

\* The guard overshoots its maximum by fewer than the requests that overlap.
THEOREM GuessesStayBounded == AccessSpec => []GuessesBounded
  BY AccessInvariant, PTL DEF AccessInv

\* A revoked session or key is never valid again.
THEOREM RevocationStands == AccessSpec => RevocationIsFinal
  <1>1. AccessInv /\ [AccessNext]_accessVars =>
          [ /\ key = "revoked" => key' = "revoked"
            /\ \A s \in Sessions : session[s] = "revoked" => session'[s] = "revoked" ]_accessVars
    BY NoRevival DEF AccessInv
  <1> QED BY <1>1, AccessInvariant, PTL DEF AccessSpec, RevocationIsFinal

-----------------------------------------------------------------------------
(* The rate limiter. *)

StillCounted(w) ==
    /\ InWindow(w) \subseteq hits
    /\ Cardinality(InWindow(w)) <= MaxRequests

\* Threads whose reading may still add a hit to the window.
Latecomers(w) == {t \in Threads : reading[t] # NotReading /\ reading[t] <= w}

FewLatecomers(w) ==
    /\ w < clock
    /\ Cardinality(InWindow(w)) + Cardinality(Latecomers(w)) + 1
         <= MaxRequests + Cardinality(Threads)

LimiterInv ==
    /\ LimiterTypeOK
    /\ IsFiniteSet(admitted)
    /\ \A t \in Threads : reading[t] # NotReading => reading[t] <= clock
    /\ \A w \in Nat : StillCounted(w) \/ FewLatecomers(w)

-----------------------------------------------------------------------------

LEMMA ThreadsCount == Cardinality(Threads) \in Nat /\ Cardinality(Threads) >= 1
  <1>1. Cardinality(Threads) \in Nat
    BY ThreadsAssumption, FS_CardinalityType
  <1>2. Cardinality(Threads) # 0
    BY ThreadsAssumption, FS_EmptySet
  <1> QED BY <1>1, <1>2

LEMMA SubsetCount ==
    ASSUME NEW S, IsFiniteSet(S), NEW T \in SUBSET S
    PROVE  /\ IsFiniteSet(T) /\ Cardinality(T) \in Nat /\ Cardinality(S) \in Nat
           /\ Cardinality(T) <= Cardinality(S)
  <1>1. IsFiniteSet(T) /\ Cardinality(T) <= Cardinality(S)
    BY FS_Subset
  <1> QED BY <1>1, FS_CardinalityType

LEMMA AddOneCount ==
    ASSUME NEW S, IsFiniteSet(S), NEW x
    PROVE  /\ IsFiniteSet(S \cup {x})
           /\ Cardinality(S \cup {x}) <= Cardinality(S) + 1
           /\ Cardinality(S \cup {x}) \in Nat /\ Cardinality(S) \in Nat
  <1>1. /\ IsFiniteSet(S \cup {x})
        /\ Cardinality(S \cup {x}) = IF x \in S THEN Cardinality(S) ELSE Cardinality(S) + 1
    BY FS_AddElement
  <1>2. Cardinality(S) \in Nat
    BY FS_CardinalityType
  <1> QED BY <1>1, <1>2

LEMMA LimiterInitInv == LimiterInit => LimiterInv
  <1> SUFFICES ASSUME LimiterInit PROVE LimiterInv
    OBVIOUS
  <1>1. LimiterTypeOK
    BY DEF LimiterInit, LimiterTypeOK
  <1>2. IsFiniteSet(admitted)
    BY FS_EmptySet DEF LimiterInit
  <1>3. \A t \in Threads : reading[t] = NotReading
    BY DEF LimiterInit
  <1>4. ASSUME NEW w \in Nat PROVE StillCounted(w)
    <2>1. InWindow(w) = {}
      BY DEF LimiterInit, InWindow
    <2> QED BY <2>1, FS_EmptySet, MaxRequestsAssumption DEF StillCounted
  <1> QED BY <1>1, <1>2, <1>3, <1>4 DEF LimiterInv

\* The same windows and latecomers in the next state.
WindowAfter(w) == {h \in admitted' : h[1] <= w /\ h[1] + Window > w}
LatecomersAfter(w) == {t \in Threads : reading'[t] # NotReading /\ reading'[t] <= w}

CountedAfter(w) ==
    /\ WindowAfter(w) \subseteq hits'
    /\ Cardinality(WindowAfter(w)) <= MaxRequests

FewAfter(w) ==
    /\ w < clock'
    /\ Cardinality(WindowAfter(w)) + Cardinality(LatecomersAfter(w)) + 1
         <= MaxRequests + Cardinality(Threads)

LEMMA InvAfter ==
    ASSUME LimiterTypeOK', IsFiniteSet(admitted'),
           \A t \in Threads : reading'[t] # NotReading => reading'[t] <= clock',
           \A w \in Nat : CountedAfter(w) \/ FewAfter(w)
    PROVE  LimiterInv'
  BY DEF LimiterInv, StillCounted, FewLatecomers, InWindow, Latecomers,
         CountedAfter, FewAfter, WindowAfter, LatecomersAfter

\* A request that leaves the critical section with the window's hits as it
\* may have changed them: a hit added if it admits, old ones dropped.
LEMMA LeavingKeepsTheWindow ==
    ASSUME LimiterInv, NEW t \in Threads, NEW w \in Nat, Refuse(t) \/ Admit(t)
    PROVE  CountedAfter(w) \/ FewAfter(w)
  <1> DEFINE now == reading[t]
             live == Live(hits, now)
             hit == <<now, Cardinality(WithStamp(admitted, now)) + 1>>
  <1>1. /\ now \in Nat /\ now <= clock /\ clock \in Nat /\ clock' = clock
        /\ hits \subseteq Hits /\ admitted \subseteq Hits /\ hits \subseteq admitted
        /\ Window \in Nat /\ MaxRequests \in Nat
        /\ IsFiniteSet(admitted)
        /\ reading' = [reading EXCEPT ![t] = NotReading]
        /\ reading \in [Threads -> Nat \cup {NotReading}]
    BY MaxRequestsAssumption, WindowAssumption
       DEF LimiterInv, LimiterTypeOK, Refuse, Admit, Leave
  <1>2. /\ InWindow(w) \subseteq admitted
        /\ IsFiniteSet(InWindow(w)) /\ Cardinality(InWindow(w)) \in Nat
    BY <1>1, SubsetCount DEF InWindow
  <1>3. /\ LatecomersAfter(w) \subseteq Latecomers(w) \ {t}
        /\ Latecomers(w) \subseteq Threads
        /\ (now <= w => t \in Latecomers(w))
    BY <1>1, NotReadingAssumption DEF Latecomers, LatecomersAfter
  <1>4. /\ IsFiniteSet(Latecomers(w)) /\ Cardinality(Latecomers(w)) \in Nat
        /\ Cardinality(Latecomers(w)) <= Cardinality(Threads)
    BY <1>3, ThreadsAssumption, SubsetCount
  <1>5. /\ Cardinality(LatecomersAfter(w)) \in Nat
        /\ Cardinality(LatecomersAfter(w)) <= Cardinality(Latecomers(w))
        /\ now <= w => Cardinality(LatecomersAfter(w)) + 1 <= Cardinality(Latecomers(w))
        /\ Cardinality(LatecomersAfter(w)) + 1 <= Cardinality(Threads)
    <2>1. /\ Cardinality(LatecomersAfter(w)) \in Nat
          /\ Cardinality(LatecomersAfter(w)) <= Cardinality(Latecomers(w))
      BY <1>3, <1>4, SubsetCount
    <2>2. ASSUME NEW S, IsFiniteSet(S), t \in S, LatecomersAfter(w) \subseteq S \ {t}
          PROVE  Cardinality(LatecomersAfter(w)) + 1 <= Cardinality(S)
      <3>1. IsFiniteSet(S \ {t}) /\ Cardinality(S \ {t}) = Cardinality(S) - 1
        BY <2>2, FS_RemoveElement
      <3>2. /\ Cardinality(LatecomersAfter(w)) <= Cardinality(S \ {t})
            /\ Cardinality(S) \in Nat
        BY <2>2, <3>1, SubsetCount, FS_CardinalityType
      <3> QED BY <2>1, <3>1, <3>2
    <2>3. now <= w => Cardinality(LatecomersAfter(w)) + 1 <= Cardinality(Latecomers(w))
      BY <1>3, <1>4, <2>2
    <2>4. Cardinality(LatecomersAfter(w)) + 1 <= Cardinality(Threads)
      <3>1. LatecomersAfter(w) \subseteq Threads \ {t}
        BY <1>3
      <3> QED BY <2>2, <3>1, ThreadsAssumption
    <2> QED BY <2>1, <2>3, <2>4
  \* What is dropped is older than any window that the reading is in.
  <1>6. now <= w /\ InWindow(w) \subseteq hits => InWindow(w) \subseteq live
    BY <1>1 DEF InWindow, Live, Hits
  <1>7. CASE w < now
    <2>1. WindowAfter(w) = InWindow(w)
      BY <1>1, <1>7 DEF Refuse, Admit, WindowAfter, InWindow, Hits
    <2>2. StillCounted(w) \/ FewLatecomers(w)
      BY DEF LimiterInv
    <2>3. Cardinality(InWindow(w)) + Cardinality(LatecomersAfter(w)) + 1
            <= MaxRequests + Cardinality(Threads)
      BY <1>1, <1>2, <1>4, <1>5, <2>2, ThreadsCount DEF StillCounted, FewLatecomers
    <2> QED BY <1>1, <1>7, <2>1, <2>3 DEF FewAfter
  <1>8. CASE now <= w /\ Refuse(t)
    <2>1. WindowAfter(w) = InWindow(w) /\ hits' = live
      BY <1>8 DEF Refuse, WindowAfter, InWindow
    <2>2. CASE StillCounted(w)
      BY <1>6, <1>8, <2>1, <2>2 DEF StillCounted, CountedAfter
    <2>3. CASE FewLatecomers(w)
      <3>1. Cardinality(InWindow(w)) + Cardinality(LatecomersAfter(w)) + 1
              <= MaxRequests + Cardinality(Threads)
        BY <1>1, <1>2, <1>4, <1>5, <2>3, ThreadsCount DEF FewLatecomers
      <3> QED BY <1>1, <2>1, <2>3, <3>1 DEF FewLatecomers, FewAfter
    <2> QED BY <2>2, <2>3 DEF LimiterInv
  <1>9. CASE now <= w /\ Admit(t)
    <2>1. /\ hits' = live \cup {hit} /\ admitted' = admitted \cup {hit}
          /\ Cardinality(live) < MaxRequests
      BY <1>9 DEF Admit
    <2>2. WindowAfter(w) \subseteq InWindow(w) \cup {hit}
      BY <2>1 DEF WindowAfter, InWindow
    <2>3. CASE StillCounted(w)
      <3>1. WindowAfter(w) \subseteq live \cup {hit}
        BY <1>6, <1>9, <2>2, <2>3 DEF StillCounted
      <3>2. IsFiniteSet(live)
        <4>1. live \subseteq admitted
          BY <1>1 DEF Live
        <4> QED BY <1>1, <4>1, SubsetCount
      <3> HIDE DEF live, hit
      <3>3. /\ IsFiniteSet(live \cup {hit})
            /\ Cardinality(live \cup {hit}) <= Cardinality(live) + 1
            /\ Cardinality(live \cup {hit}) \in Nat /\ Cardinality(live) \in Nat
        BY <3>2, AddOneCount
      <3>4. /\ Cardinality(WindowAfter(w)) \in Nat
            /\ Cardinality(WindowAfter(w)) <= Cardinality(live \cup {hit})
        BY <3>1, <3>3, SubsetCount
      <3>5. Cardinality(WindowAfter(w)) <= MaxRequests
        BY <1>1, <2>1, <3>3, <3>4
      <3> QED BY <2>1, <3>1, <3>5 DEF CountedAfter
    <2>4. CASE FewLatecomers(w)
      <3> HIDE DEF live, hit
      <3>1. /\ IsFiniteSet(InWindow(w) \cup {hit})
            /\ Cardinality(InWindow(w) \cup {hit}) <= Cardinality(InWindow(w)) + 1
            /\ Cardinality(InWindow(w) \cup {hit}) \in Nat
        BY <1>2, AddOneCount
      <3>2. /\ Cardinality(WindowAfter(w)) \in Nat
            /\ Cardinality(WindowAfter(w)) <= Cardinality(InWindow(w) \cup {hit})
        BY <2>2, <3>1, SubsetCount
      <3>3. Cardinality(WindowAfter(w)) + Cardinality(LatecomersAfter(w)) + 1
              <= MaxRequests + Cardinality(Threads)
        BY <1>1, <1>2, <1>4, <1>5, <1>9, <2>4, <3>1, <3>2, ThreadsCount DEF FewLatecomers
      <3> QED BY <1>1, <2>4, <3>3 DEF FewLatecomers, FewAfter
    <2> QED BY <2>3, <2>4 DEF LimiterInv
  <1> QED BY <1>1, <1>7, <1>8, <1>9

\* The rest of the invariant when a request leaves the critical section.
LEMMA LeavingKeepsTypes ==
    ASSUME LimiterInv, NEW t \in Threads, Refuse(t) \/ Admit(t)
    PROVE  /\ LimiterTypeOK' /\ IsFiniteSet(admitted')
           /\ \A u \in Threads : reading'[u] # NotReading => reading'[u] <= clock'
  <1> DEFINE now == reading[t]
             hit == <<now, Cardinality(WithStamp(admitted, now)) + 1>>
  <1> USE DEF LimiterInv, LimiterTypeOK
  <1>1. /\ reading' = [reading EXCEPT ![t] = NotReading] /\ clock' = clock
        /\ now \in Nat
    BY DEF Refuse, Admit, Leave
  <1>2. /\ reading' \in [Threads -> Nat \cup {NotReading}]
        /\ \A u \in Threads : reading'[u] # NotReading => reading'[u] <= clock'
    BY <1>1
  <1>3. Live(hits, now) \subseteq hits
    BY DEF Live
  <1>4. CASE Refuse(t)
    BY <1>1, <1>2, <1>3, <1>4 DEF Refuse
  <1>5. CASE Admit(t)
    <2>1. Cardinality(WithStamp(admitted, now)) \in Nat
      <3>1. WithStamp(admitted, now) \subseteq admitted
        BY DEF WithStamp
      <3> QED BY <3>1, SubsetCount
    <2>2. hit \in Hits
      BY <1>1, <2>1 DEF Hits
    <2>3. admitted' = admitted \cup {hit} /\ hits' = Live(hits, now) \cup {hit}
      BY <1>5 DEF Admit
    <2> HIDE DEF hit
    <2>4. IsFiniteSet(admitted')
      BY <2>3, AddOneCount
    <2> QED BY <1>1, <1>2, <1>3, <2>2, <2>3, <2>4
  <1> QED BY <1>4, <1>5

LEMMA LimiterStepInv == LimiterInv /\ [LimiterNext]_limiterVars => LimiterInv'
  <1> SUFFICES ASSUME LimiterInv, [LimiterNext]_limiterVars PROVE LimiterInv'
    OBVIOUS
  <1>1. ASSUME NEW t \in Threads, Refuse(t) \/ Admit(t) PROVE LimiterInv'
    <2>1. \A w \in Nat : CountedAfter(w) \/ FewAfter(w)
      BY <1>1, LeavingKeepsTheWindow
    <2>2. /\ LimiterTypeOK' /\ IsFiniteSet(admitted')
          /\ \A u \in Threads : reading'[u] # NotReading => reading'[u] <= clock'
      BY <1>1, LeavingKeepsTypes
    <2> QED BY <2>1, <2>2, InvAfter
  \* A new reading is after every window the latecomers of which matter.
  <1>2. ASSUME NEW t \in Threads, ReadClock(t) PROVE LimiterInv'
    <2>1. /\ LimiterTypeOK' /\ IsFiniteSet(admitted')
          /\ \A u \in Threads : reading'[u] # NotReading => reading'[u] <= clock'
      BY <1>2 DEF LimiterInv, LimiterTypeOK, ReadClock
    <2>2. ASSUME NEW w \in Nat PROVE CountedAfter(w) \/ FewAfter(w)
      <3>1. WindowAfter(w) = InWindow(w) /\ hits' = hits /\ clock' = clock
        BY <1>2 DEF ReadClock, WindowAfter, InWindow
      <3>2. CASE StillCounted(w)
        BY <3>1, <3>2 DEF StillCounted, CountedAfter
      <3>3. CASE FewLatecomers(w)
        <4>1. LatecomersAfter(w) = Latecomers(w)
          BY <1>2, <3>3, NotReadingAssumption
             DEF ReadClock, Latecomers, LatecomersAfter, FewLatecomers, LimiterInv, LimiterTypeOK
        <4> QED BY <3>1, <3>3, <4>1 DEF FewLatecomers, FewAfter
      <3> QED BY <3>2, <3>3 DEF LimiterInv
    <2> QED BY <2>1, <2>2, InvAfter
  <1>3. ASSUME TickClock \/ UNCHANGED limiterVars PROVE LimiterInv'
    <2>1. /\ LimiterTypeOK' /\ IsFiniteSet(admitted')
          /\ \A u \in Threads : reading'[u] # NotReading => reading'[u] <= clock'
      BY <1>3 DEF LimiterInv, LimiterTypeOK, TickClock, limiterVars
    <2>2. ASSUME NEW w \in Nat PROVE CountedAfter(w) \/ FewAfter(w)
      <3>1. /\ WindowAfter(w) = InWindow(w) /\ LatecomersAfter(w) = Latecomers(w)
            /\ hits' = hits /\ clock \in Nat /\ clock' \in Nat /\ clock <= clock'
        BY <1>3 DEF TickClock, limiterVars, WindowAfter, InWindow, Latecomers, LatecomersAfter,
                    LimiterInv, LimiterTypeOK
      <3>2. CASE StillCounted(w)
        BY <3>1, <3>2 DEF StillCounted, CountedAfter
      <3>3. CASE FewLatecomers(w)
        BY <3>1, <3>3 DEF FewLatecomers, FewAfter
      <3> QED BY <3>2, <3>3 DEF LimiterInv
    <2> QED BY <2>1, <2>2, InvAfter
  <1> QED BY <1>1, <1>2, <1>3 DEF LimiterNext

LEMMA LimiterInvariant == LimiterSpec => []LimiterInv
  BY LimiterInitInv, LimiterStepInv, PTL DEF LimiterSpec

-----------------------------------------------------------------------------

\* The hits the limiter counts are hits it admitted, with clock values.
THEOREM LimiterTypes == LimiterSpec => []LimiterTypeOK
  BY LimiterInvariant, PTL DEF LimiterInv

\* However the threads interleave between reading the clock and taking the
\* lock, a window holds less than the maximum plus the number of threads.
THEOREM WindowsStayBounded == LimiterSpec => []AdmittedPerWindow
  <1>1. LimiterInv => AdmittedPerWindow
    <2> SUFFICES ASSUME LimiterInv, NEW w \in 0..clock
                 PROVE  Cardinality(InWindow(w)) + 1 <= MaxRequests + Cardinality(Threads)
      BY DEF AdmittedPerWindow
    <2>1. InWindow(w) \subseteq admitted /\ IsFiniteSet(admitted) /\ w \in Nat
      BY DEF LimiterInv, LimiterTypeOK, InWindow
    <2>2. Cardinality(InWindow(w)) \in Nat
      BY <2>1, SubsetCount
    <2>3. Cardinality(Latecomers(w)) \in Nat
      BY ThreadsAssumption, SubsetCount DEF Latecomers
    <2>4. StillCounted(w) \/ FewLatecomers(w)
      BY <2>1 DEF LimiterInv
    <2> QED BY <2>2, <2>3, <2>4, ThreadsCount, MaxRequestsAssumption DEF StillCounted, FewLatecomers
  <1> QED BY <1>1, LimiterInvariant, PTL

=============================================================================
