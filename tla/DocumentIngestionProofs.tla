----------------------- MODULE DocumentIngestionProofs -----------------------
(***************************************************************************)
(* Proofs about DocumentIngestion, for any requests, source names, earlier *)
(* documents and handlers.                                                 *)
(*                                                                         *)
(* The argument: the step of a request says which rows it has committed    *)
(* (RowsOf) and how far the publication of its event is (CallOf); rows are *)
(* never taken back, so what one request relies on survives the steps of   *)
(* the others.  Ids stay in range because a request draws one version and  *)
(* chunks one version (CountersInv, VersionsInv).  A request that runs     *)
(* alone owns the newest version until it is answered (AloneInv).  Of the  *)
(* event machinery the proofs of EventDispatch are reused as they are.     *)
(***************************************************************************)
EXTENDS DocumentIngestion, FiniteSetTheorems, TLAPS

DP == INSTANCE EventDispatchProofs WITH Events <- Requests

\* A request that has not drawn the id of its version, whose index() has not
\* read the latest version, and that has not called publish.
Undrawn == {"idle", "find", "insert"}
Unread == Undrawn \cup {"commit", "auditUpload", "read"}
Unpublished == Unread \cup {"index", "publish"}

\* Steps at which the row of the request's document is committed.
Stored == {"auditUpload", "read", "index", "publish", "dispatch",
           "auditIndexed", "auditFailed", "auditExternal"}

\* Requests that drew a version, and those that may have written chunks of v.
Drawn == {r \in Requests : req[r].version # 0}
Chunked(v) == {r \in Requests : req[r].indexed = v /\ ~ At(r, "index")}

\* Ids are drawn by requests that had none, chunks written by requests that
\* are past it.
CountersInv ==
    /\ lastDocument <= lastVersion
    /\ lastVersion <= MaxEarlier + Cardinality(Drawn)
    /\ \A v \in Ids : chunkSets[v] <= 1 + Cardinality(Chunked(v))

RowsInv ==
    /\ \A v \in Ids : documentOf[v] # 0 => v <= lastVersion
    /\ \A v \in Ids : chunkSets[v] > 0 => documentOf[v] # 0
    /\ \A d \in Ids : source[d] # NoSource => Versions(d) # {}

\* No two requests hold the same version.
VersionsInv ==
    \A r \in Requests :
        /\ req[r].version <= lastVersion
        /\ \A q \in Requests : req[r].version = req[q].version /\ r # q => req[r].version = 0

\* What the step of a request says about the rows.
RowsOf(r) ==
    /\ req[r].step \in Undrawn => req[r].version = 0
    /\ req[r].step \in Unread => req[r].indexed = 0
    /\ req[r].step \in {"find", "insert", "commit"} => req[r].source \in Sources
    /\ At(r, "commit") => /\ req[r].document # 0 /\ req[r].version # 0
                          /\ documentOf[req[r].version] = 0
    /\ req[r].step \in Stored => req[r].document # 0 /\ source[req[r].document] # NoSource
    /\ At(r, "index") => req[r].indexed # 0
    /\ req[r].indexed # 0 => documentOf[req[r].indexed] # 0

\* And about the publication of its event.
CallOf(r) ==
    /\ req[r].step \in Unpublished => call[r].step = "new" /\ r \notin log
    /\ req[r].step \in {"publish", "dispatch", "auditIndexed", "auditExternal", "done"} \/ r \in log =>
         req[r].indexed # 0 /\ chunkSets[req[r].indexed] > 0
    /\ At(r, "dispatch") => call[r].step \notin {"new", "returned", "raised", "lost"}
    /\ req[r].step \in {"auditIndexed", "auditExternal", "done"} => call[r].step = "returned"
    /\ req[r].step \in {"auditFailed", "indexError"} => call[r].step \in {"new", "raised"}

\* A request that runs alone is the only active one, has found what it looked
\* for, and works on the version it has drawn, which is the newest one.
AloneOf(r) ==
    /\ ~ At(r, "idle")
    /\ Active(r) => \A q \in Requests \ {r} : ~ Active(q)
    /\ req[r].step \in {"insert", "commit"} => Documents(req[r].source) \subseteq {req[r].document}

OwnVersion(r) ==
    /\ req[r].step \in {"commit", "auditUpload", "read", "index", "publish", "dispatch",
                        "auditIndexed"} => req[r].version = lastVersion /\ req[r].version # 0
    /\ req[r].step \in {"auditUpload", "read", "index", "publish", "dispatch", "auditIndexed"} =>
          documentOf[req[r].version] = req[r].document
    /\ req[r].step \in {"commit", "auditUpload", "read", "index"} => chunkSets[req[r].version] = 0
    /\ req[r].step \in {"index", "publish", "dispatch", "auditIndexed"} =>
          req[r].indexed = req[r].version
    /\ req[r].step \in {"publish", "dispatch", "auditIndexed"} => chunkSets[req[r].version] = 1

AloneInv == \A r \in alone : AloneOf(r) /\ (req[r].op # "reindex" => OwnVersion(r))

IInv ==
    /\ TypeOK
    /\ DP!IInv
    /\ CountersInv
    /\ RowsInv
    /\ VersionsInv
    /\ \A r \in Requests : RowsOf(r) /\ CallOf(r)
    /\ AloneInv

-----------------------------------------------------------------------------
(* The event machinery, as EventDispatchProofs has it. *)

\* Module EventDispatch is the same one under both names.
LEMMA SameActions ==
    /\ \A r \in Requests : Dispatcher!Persist(r) <=> DP!Persist(r)
    /\ \A r \in Requests : Dispatcher!PersistRaises(r) <=> DP!PersistRaises(r)
    /\ \A r \in Requests : Dispatcher!Dispatch(r) <=> DP!Dispatch(r)
    /\ Dispatcher!Crash <=> DP!Crash
    /\ Dispatcher!TypeOK <=> DP!TypeOK
    /\ Dispatcher!Init <=> DP!Init
  <1>1. /\ \A r \in Requests : Dispatcher!Persist(r) <=> DP!Persist(r)
        /\ \A r \in Requests : Dispatcher!PersistRaises(r) <=> DP!PersistRaises(r)
    BY DEF Dispatcher!Persist, DP!Persist, Dispatcher!PersistRaises, DP!PersistRaises,
           Dispatcher!At, DP!At, Dispatcher!Goto, DP!Goto, Dispatcher!InDoubt, DP!InDoubt
  <1>2. \A r \in Requests : Dispatcher!Dispatch(r) <=> DP!Dispatch(r)
    BY DEF Dispatcher!Dispatch, DP!Dispatch,
           Dispatcher!PlainReturns, DP!PlainReturns, Dispatcher!PlainRaises, DP!PlainRaises,
           Dispatcher!RecordDeadLetter, DP!RecordDeadLetter,
           Dispatcher!DeadLetterRaises, DP!DeadLetterRaises, Dispatcher!Return, DP!Return,
           Dispatcher!Start, DP!Start, Dispatcher!StartRaises, DP!StartRaises,
           Dispatcher!StepsReturn, DP!StepsReturn, Dispatcher!StepRaises, DP!StepRaises,
           Dispatcher!Complete, DP!Complete, Dispatcher!CompleteRaises, DP!CompleteRaises,
           Dispatcher!RecordFailure, DP!RecordFailure,
           Dispatcher!RecordFailureRaises, DP!RecordFailureRaises,
           Dispatcher!At, DP!At, Dispatcher!Goto, DP!Goto, Dispatcher!HasHandler, DP!HasHandler,
           Dispatcher!Current, DP!Current, Dispatcher!InDoubt, DP!InDoubt,
           Dispatcher!WithStatus, DP!WithStatus, Dispatcher!NextHandler, DP!NextHandler,
           Dispatcher!HandlerRaised, DP!HandlerRaised,
           Dispatcher!HandlerReturned, DP!HandlerReturned
  <1>3. Dispatcher!Crash <=> DP!Crash
    BY DEF Dispatcher!Crash, DP!Crash, Dispatcher!InProgress, DP!InProgress,
           Dispatcher!Ended, DP!Ended
  <1>4. (Dispatcher!TypeOK <=> DP!TypeOK) /\ (Dispatcher!Init <=> DP!Init)
    BY DEF Dispatcher!TypeOK, DP!TypeOK, Dispatcher!CallState, DP!CallState, Dispatcher!Steps,
           DP!Steps, Dispatcher!Ended, DP!Ended, Dispatcher!Statuses, DP!Statuses,
           Dispatcher!Init, DP!Init
  <1> QED BY <1>1, <1>2, <1>3, <1>4

LEMMA DispatchAssumptions ==
    /\ Workflows \subseteq Handlers
    /\ Registered \in [Requests -> Seq(Handlers)]
    /\ \A r \in Requests : \A j, k \in DOMAIN Registered[r] :
          Registered[r][j] = Registered[r][k] => j = k
    /\ MaxAttempts \in Nat \ {0}
  BY HandlersAssumption, RegisteredOnce, AttemptsAssumption

LEMMA DispatchInitial == Dispatcher!Init => DP!IInv
  BY DP!Initial, DispatchAssumptions, SameActions

LEMMA DispatchTyped == DP!IInv => Dispatcher!TypeOK
  <1>1. DP!IInv => DP!TypeOK
    BY DEF DP!IInv, DP!TablesType, DP!EventType, DP!TypeOK
  <1> QED BY <1>1, SameActions

LEMMA DispatchIdle ==
  ASSUME DP!IInv, UNCHANGED dispatchVars
  PROVE  DP!IInv'
  <1>1. UNCHANGED DP!vars
    BY DEF dispatchVars, DP!vars
  <1> QED BY <1>1, DP!Inductive, DispatchAssumptions

\* A step of the event machinery for the event of r leaves the other events alone.
LEMMA DispatchStep ==
  ASSUME DP!IInv, NEW r \in Requests,
         Dispatcher!Persist(r) \/ Dispatcher!PersistRaises(r) \/ Dispatcher!Dispatch(r)
  PROVE  /\ DP!IInv'
         /\ \A q \in Requests \ {r} :
               call'[q] = call[q] /\ (q \in log' <=> q \in log) /\ (q \in faulted' <=> q \in faulted)
  <1>1. DP!Persist(r) \/ DP!PersistRaises(r) \/ DP!Dispatch(r)
    BY SameActions
  <1>2. DP!IInv'
    BY <1>1, DP!Inductive, DispatchAssumptions DEF DP!Next
  <1>3. ASSUME NEW q \in Requests, q # r
        PROVE  call'[q] = call[q] /\ (q \in log' <=> q \in log) /\ (q \in faulted' <=> q \in faulted)
    BY <1>1, <1>3, DP!Others, DispatchAssumptions
  <1> QED BY <1>2, <1>3

LEMMA DispatchCrash ==
  ASSUME DP!IInv, Dispatcher!Crash
  PROVE  /\ DP!IInv'
         /\ log' = log
         /\ \A q \in Requests : call[q].step \in {"new", "returned", "raised", "lost"} =>
               call'[q] = call[q]
  <1>1. DP!IInv'
    BY SameActions, DP!Inductive, DispatchAssumptions DEF DP!Next
  <1>2. /\ log' = log
        /\ \A q \in Requests : call[q].step \in {"new", "returned", "raised", "lost"} =>
              call'[q] = call[q]
    BY DEF Dispatcher!Crash, Dispatcher!InProgress, Dispatcher!Ended
  <1> QED BY <1>1, <1>2

\* What the dispatcher's invariant says of one publication.
LEMMA CallFacts ==
  ASSUME DP!IInv, NEW r \in Requests
  PROVE  /\ DOMAIN call = Requests /\ call = [q \in Requests |-> call[q]]
         /\ DOMAIN call[r] = {"step", "handler", "attempt"}
         /\ call[r].step \in {"new", "call", "steps", "complete", "fail", "deadLetter",
                              "returned", "raised", "lost"}
         /\ call[r].step = "raised" => r \in faulted
         /\ call[r].step \notin {"new", "raised"} => r \in log
         /\ log \subseteq Requests
  BY DEF DP!IInv, DP!TablesType, DP!EventType, DP!EventCount, DP!CallState, DP!Steps, DP!Ended

\* Where publish is afterwards.
LEMMA PersistStep ==
  ASSUME DP!IInv, NEW r \in Requests, Dispatcher!Persist(r)
  PROVE  call'[r].step = "call" /\ log' = log \cup {r}
  BY CallFacts DEF Dispatcher!Persist, Dispatcher!Goto

LEMMA PersistRaisesStep ==
  ASSUME DP!IInv, NEW r \in Requests, Dispatcher!PersistRaises(r)
  PROVE  call'[r].step = "raised" /\ log' \subseteq log \cup {r}
  BY CallFacts DEF Dispatcher!PersistRaises, Dispatcher!Goto, Dispatcher!InDoubt

LEMMA HandlersStep ==
  ASSUME DP!IInv, NEW r \in Requests, Dispatcher!Dispatch(r)
  PROVE  call'[r].step \notin {"new", "lost"} /\ log' = log
  BY CallFacts
     DEF Dispatcher!Dispatch, Dispatcher!PlainReturns, Dispatcher!PlainRaises,
         Dispatcher!RecordDeadLetter, Dispatcher!DeadLetterRaises, Dispatcher!Return,
         Dispatcher!Start, Dispatcher!StartRaises, Dispatcher!StepsReturn, Dispatcher!StepRaises,
         Dispatcher!Complete, Dispatcher!CompleteRaises, Dispatcher!RecordFailure,
         Dispatcher!RecordFailureRaises, Dispatcher!Goto, Dispatcher!NextHandler,
         Dispatcher!HandlerRaised, Dispatcher!HandlerReturned

-----------------------------------------------------------------------------
(* Ids, counts and the shape of a request. *)

LEMMA IdRange ==
    /\ Cardinality(Requests) \in Nat
    /\ MaxEarlier + Cardinality(Requests) \in Nat
    /\ Ids = {v \in Nat : 1 <= v /\ v <= MaxEarlier + Cardinality(Requests)}
    /\ 0 \notin Ids
  BY RequestsAssumption, MaxEarlierAssumption, FS_CardinalityType DEF Ids

LEMMA SubsetCount ==
  ASSUME NEW S \in SUBSET Requests
  PROVE  /\ IsFiniteSet(S) /\ Cardinality(S) \in Nat
         /\ Cardinality(S) <= Cardinality(Requests)
  BY RequestsAssumption, FS_Subset, FS_CardinalityType

LEMMA LargerCount ==
  ASSUME NEW T \in SUBSET Requests, NEW S \in SUBSET T
  PROVE  Cardinality(S) \in Nat /\ Cardinality(T) \in Nat /\ Cardinality(S) <= Cardinality(T)
  <1>1. IsFiniteSet(T)
    BY SubsetCount
  <1> QED BY <1>1, FS_Subset, FS_CardinalityType

LEMMA OneMoreCounts ==
  ASSUME NEW S \in SUBSET Requests, NEW r \in Requests, r \notin S
  PROVE  /\ Cardinality(S \cup {r}) = Cardinality(S) + 1
         /\ Cardinality(S) + 1 <= Cardinality(Requests)
  <1>1. Cardinality(S \cup {r}) = Cardinality(S) + 1
    BY SubsetCount, FS_AddElement
  <1>2. S \cup {r} \in SUBSET Requests
    OBVIOUS
  <1> QED BY <1>1, <1>2, SubsetCount

\* A nonempty set of numbers below a bound has a highest element.
LEMMA MaxOf ==
  ASSUME NEW bound \in Nat, NEW S \in SUBSET (0 .. bound), S # {}
  PROVE  Max(S) \in S /\ \A x \in S : x <= Max(S)
  <1> DEFINE R == OpToRel(<, Nat)
             T == {n \in Nat : bound - n \in S}
  <1>1. IsWellFoundedOn(R, Nat)
    BY NatLessThanWellFounded
  <1>2. \A x, y \in Nat : x < y => <<x, y>> \in R
    BY DEF OpToRel
  <1>3. T \subseteq Nat /\ T # {}
    <2>1. PICK s \in S : TRUE
      OBVIOUS
    <2>2. bound - s \in Nat /\ bound - (bound - s) = s
      OBVIOUS
    <2> QED BY <2>1, <2>2
  <1> HIDE DEF R, T
  <1>4. PICK n \in T : \A m \in T : <<m, n>> \notin R
    BY <1>1, <1>3, WFMin
  <1>5. bound - n \in S
    BY DEF T
  <1>6. ASSUME NEW x \in S PROVE x <= bound - n
    <2>1. bound - x \in T
      <3>1. bound - x \in Nat /\ bound - (bound - x) = x
        OBVIOUS
      <3> QED BY <3>1 DEF T
    <2>2. ~ (bound - x < n)
      BY <1>2, <1>3, <1>4, <2>1
    <2> QED BY <1>3, <2>2
  <1>7. \E x \in S : \A y \in S : x >= y
    BY <1>3, <1>5, <1>6
  <1> QED BY <1>7 DEF Max

LEMMA StepNames ==
    /\ \A s : s \in Steps <=>
          s \in {"idle", "find", "insert", "commit", "auditUpload", "read", "index", "publish",
                 "dispatch", "auditIndexed", "auditFailed", "auditExternal"}
          \/ s \in Answers
    /\ Answers = {"done", "indexError", "serverError", "lost"}
    /\ Ops = {"upload", "fromUrl", "reindex"}
    /\ Undrawn = {"idle", "find", "insert"}
    /\ Unread = {"idle", "find", "insert", "commit", "auditUpload", "read"}
    /\ Unpublished = {"idle", "find", "insert", "commit", "auditUpload", "read", "index", "publish"}
    /\ Stored = {"auditUpload", "read", "index", "publish", "dispatch", "auditIndexed",
                 "auditFailed", "auditExternal"}
  BY DEF Steps, Answers, Ops, Undrawn, Unread, Unpublished, Stored

LEMMA Typed ==
  ASSUME TypeOK, NEW r \in Requests
  PROVE  /\ DOMAIN req = Requests
         /\ req[r] \in RequestState
         /\ DOMAIN req[r] = {"step", "op", "source", "document", "version", "indexed"}
         /\ req[r].step \in Steps /\ req[r].op \in Ops
         /\ req[r].source \in Sources \cup {NoSource}
         /\ req[r].document \in Ids \cup {0}
         /\ req[r].version \in Ids \cup {0} /\ req[r].indexed \in Ids \cup {0}
  BY DEF TypeOK, RequestState

LEMMA TablesTyped ==
  ASSUME TypeOK
  PROVE  /\ lastDocument \in Nat /\ lastVersion \in Nat
         /\ source \in [Ids -> Sources \cup {NoSource}]
         /\ documentOf \in [Ids -> Ids \cup {0}]
         /\ \A v \in Ids : documentOf[v] \in Nat /\ chunkSets[v] \in Nat
         /\ DOMAIN chunkSets = Ids /\ chunkSets \in [Ids -> 0 .. 1 + Cardinality(Requests)]
         /\ alone \subseteq Requests
  BY IdRange DEF TypeOK

\* The latest version of a document with a row is one of its versions.
LEMMA LatestVersion ==
  ASSUME TypeOK, RowsInv, NEW d \in Ids, source[d] # NoSource
  PROVE  /\ Latest(d) \in Ids /\ documentOf[Latest(d)] = d
         /\ \A v \in Ids : documentOf[v] = d => v <= Latest(d)
  <1>1. Versions(d) # {} /\ Versions(d) = {v \in Ids : documentOf[v] = d}
    BY DEF RowsInv, Versions
  <1>2. Versions(d) \in SUBSET (0 .. MaxEarlier + Cardinality(Requests))
    BY <1>1, IdRange
  <1>3. Latest(d) \in Versions(d) /\ \A v \in Versions(d) : v <= Latest(d)
    BY <1>1, <1>2, MaxOf, IdRange DEF Latest
  <1> QED BY <1>1, <1>3

\* The fields of a request that moves to another step.
LEMMA GotoFields ==
  ASSUME TypeOK, NEW r \in Requests, NEW s \in Steps, Goto(r, s)
  PROVE  /\ req'[r].step = s /\ req'[r].op = req[r].op /\ req'[r].source = req[r].source
         /\ req'[r].document = req[r].document /\ req'[r].version = req[r].version
         /\ req'[r].indexed = req[r].indexed
         /\ \A q \in Requests \ {r} : req'[q] = req[q]
         /\ req' \in [Requests -> RequestState]
  <1> DEFINE n == [req[r] EXCEPT !.step = s]
  <1>1. /\ n \in RequestState
        /\ n.step = s /\ n.op = req[r].op /\ n.source = req[r].source
        /\ n.document = req[r].document /\ n.version = req[r].version
        /\ n.indexed = req[r].indexed
    BY Typed DEF RequestState
  <1>2. req' = [req EXCEPT ![r] = n]
    BY DEF Goto
  <1> HIDE DEF n
  <1>3. req \in [Requests -> RequestState]
    BY DEF TypeOK
  <1> QED BY <1>1, <1>2, <1>3

-----------------------------------------------------------------------------
(* What each action does to the fields of its request. *)

\* The fields of a request that takes the state n.
LEMMA BecomesFields ==
  ASSUME TypeOK, NEW r \in Requests, NEW n \in RequestState, req' = [req EXCEPT ![r] = n]
  PROVE  /\ req'[r] = n
         /\ \A q \in Requests \ {r} : req'[q] = req[q]
         /\ req' \in [Requests -> RequestState]
  BY DEF TypeOK

LEMMA BeginUploadFields ==
  ASSUME TypeOK, NEW r \in Requests, NEW op \in {"upload", "fromUrl"}, NEW s \in Sources,
         BeginUpload(r, op, s)
  PROVE  /\ req'[r].step = "find" /\ req'[r].op = op /\ req'[r].source = s
         /\ req'[r].document = req[r].document /\ req'[r].version = req[r].version
         /\ req'[r].indexed = req[r].indexed
         /\ \A q \in Requests \ {r} : req'[q] = req[q]
         /\ req' \in [Requests -> RequestState]
  <1> DEFINE n == [req[r] EXCEPT !.step = "find", !.op = op, !.source = s]
  <1>1. /\ n \in RequestState
        /\ n.step = "find" /\ n.op = op /\ n.source = s
        /\ n.document = req[r].document /\ n.version = req[r].version
        /\ n.indexed = req[r].indexed
    BY Typed, StepNames DEF RequestState
  <1>2. req' = [req EXCEPT ![r] = n]
    BY DEF BeginUpload, Starts
  <1> HIDE DEF n
  <1> QED BY <1>1, <1>2, BecomesFields

LEMMA BeginReindexFields ==
  ASSUME TypeOK, NEW r \in Requests, NEW d \in Ids, BeginReindex(r, d)
  PROVE  /\ req'[r].step = "read" /\ req'[r].op = "reindex" /\ req'[r].source = req[r].source
         /\ req'[r].document = d /\ req'[r].version = req[r].version
         /\ req'[r].indexed = req[r].indexed
         /\ \A q \in Requests \ {r} : req'[q] = req[q]
         /\ req' \in [Requests -> RequestState]
  <1> DEFINE n == [req[r] EXCEPT !.step = "read", !.op = "reindex", !.document = d]
  <1>1. /\ n \in RequestState
        /\ n.step = "read" /\ n.op = "reindex" /\ n.source = req[r].source
        /\ n.document = d /\ n.version = req[r].version
        /\ n.indexed = req[r].indexed
    BY Typed, StepNames DEF RequestState
  <1>2. req' = [req EXCEPT ![r] = n]
    BY DEF BeginReindex, Starts
  <1> HIDE DEF n
  <1> QED BY <1>1, <1>2, BecomesFields

LEMMA FoundFields ==
  ASSUME TypeOK, NEW r \in Requests, NEW d \in Ids,
         req' = [req EXCEPT ![r].step = "insert", ![r].document = d]
  PROVE  /\ req'[r].step = "insert" /\ req'[r].op = req[r].op /\ req'[r].source = req[r].source
         /\ req'[r].document = d /\ req'[r].version = req[r].version
         /\ req'[r].indexed = req[r].indexed
         /\ \A q \in Requests \ {r} : req'[q] = req[q]
         /\ req' \in [Requests -> RequestState]
  <1> DEFINE n == [req[r] EXCEPT !.step = "insert", !.document = d]
  <1>1. /\ n \in RequestState
        /\ n.step = "insert" /\ n.op = req[r].op /\ n.source = req[r].source
        /\ n.document = d /\ n.version = req[r].version
        /\ n.indexed = req[r].indexed
    BY Typed, StepNames DEF RequestState
  <1>2. req' = [req EXCEPT ![r] = n]
    BY Typed
  <1> HIDE DEF n
  <1> QED BY <1>1, <1>2, BecomesFields

\* A version can be drawn: this request has drawn none.
LEMMA DrawIsPossible ==
  ASSUME IInv, NEW r \in Requests, At(r, "insert")
  PROVE  /\ lastVersion + 1 \in Ids /\ lastDocument + 1 \in Ids
         /\ lastVersion + 1 <= MaxEarlier + Cardinality(Drawn) + 1
         /\ r \notin Drawn
  <1>1. RowsOf(r) /\ TypeOK /\ CountersInv
    BY DEF IInv
  <1>2. r \notin Drawn
    BY <1>1, StepNames DEF RowsOf, Drawn, At
  <1>3. Drawn \in SUBSET Requests
    BY DEF Drawn
  <1>4. Cardinality(Drawn) + 1 <= Cardinality(Requests) /\ Cardinality(Drawn) \in Nat
    BY <1>2, <1>3, OneMoreCounts, SubsetCount
  <1>5. lastDocument <= lastVersion /\ lastVersion <= MaxEarlier + Cardinality(Drawn)
    BY <1>1 DEF CountersInv
  <1>6. lastVersion \in Nat /\ lastDocument \in Nat
    BY <1>1, TablesTyped
  <1> HIDE DEF Drawn
  <1> QED BY <1>2, <1>4, <1>5, <1>6, IdRange, MaxEarlierAssumption

LEMMA InsertFields ==
  ASSUME IInv, NEW r \in Requests, Insert(r)
  PROVE  /\ req'[r].step = "commit" /\ req'[r].op = req[r].op /\ req'[r].source = req[r].source
         /\ \/ req[r].document = 0 /\ lastDocument' = lastDocument + 1
               /\ req'[r].document = lastDocument + 1
            \/ req[r].document # 0 /\ lastDocument' = lastDocument
               /\ req'[r].document = req[r].document
         /\ lastVersion' = lastVersion + 1 /\ req'[r].version = lastVersion + 1
         /\ req'[r].indexed = req[r].indexed
         /\ \A q \in Requests \ {r} : req'[q] = req[q]
         /\ req' \in [Requests -> RequestState]
  <1> DEFINE d == IF req[r].document = 0 THEN lastDocument + 1 ELSE req[r].document
             n == [req[r] EXCEPT !.step = "commit", !.document = d, !.version = lastVersion + 1]
  <1>0. TypeOK
    BY DEF IInv
  <1>1. d \in Ids /\ lastVersion + 1 \in Ids
    BY <1>0, DrawIsPossible, Typed DEF Insert
  <1>2. req' = [req EXCEPT ![r] = n]
    BY <1>0, Typed DEF Insert
  <1>3. /\ lastVersion' = lastVersion + 1
        /\ \/ req[r].document = 0 /\ lastDocument' = lastDocument + 1 /\ d = lastDocument + 1
           \/ req[r].document # 0 /\ lastDocument' = lastDocument /\ d = req[r].document
    BY DEF Insert
  <1> HIDE DEF d
  <1>4. /\ n \in RequestState
        /\ n.step = "commit" /\ n.op = req[r].op /\ n.source = req[r].source
        /\ n.document = d /\ n.version = lastVersion + 1 /\ n.indexed = req[r].indexed
    BY <1>0, <1>1, Typed, StepNames DEF RequestState
  <1> HIDE DEF n
  <1> QED BY <1>0, <1>2, <1>3, <1>4, BecomesFields

LEMMA ReadLatestFields ==
  ASSUME IInv, NEW r \in Requests, ReadLatest(r)
  PROVE  /\ req'[r].step = "index" /\ req'[r].op = req[r].op /\ req'[r].source = req[r].source
         /\ req'[r].document = req[r].document /\ req'[r].version = req[r].version
         /\ req'[r].indexed \in Ids /\ documentOf[req'[r].indexed] = req[r].document
         /\ \A v \in Ids : documentOf[v] = req[r].document => v <= req'[r].indexed
         /\ req[r].document \in Ids
         /\ \A q \in Requests \ {r} : req'[q] = req[q]
         /\ req' \in [Requests -> RequestState]
  <1> DEFINE v == Latest(req[r].document)
             n == [req[r] EXCEPT !.step = "index", !.indexed = v]
  <1>0. TypeOK /\ RowsInv /\ RowsOf(r)
    BY DEF IInv
  <1>1. req[r].document \in Ids /\ source[req[r].document] # NoSource
    BY <1>0, Typed, StepNames DEF RowsOf, ReadLatest, At
  <1>2. /\ v \in Ids /\ documentOf[v] = req[r].document
        /\ \A w \in Ids : documentOf[w] = req[r].document => w <= v
    BY <1>0, <1>1, LatestVersion
  <1>3. req' = [req EXCEPT ![r] = n]
    BY <1>0, Typed DEF ReadLatest
  <1> HIDE DEF v
  <1>4. /\ n \in RequestState
        /\ n.step = "index" /\ n.op = req[r].op /\ n.source = req[r].source
        /\ n.document = req[r].document /\ n.version = req[r].version /\ n.indexed = v
    BY <1>0, <1>2, Typed, StepNames DEF RequestState
  <1> HIDE DEF n
  <1> QED BY <1>0, <1>1, <1>2, <1>3, <1>4, BecomesFields

-----------------------------------------------------------------------------
(* One request moves: the tables grow and the other requests stay. *)

OneMoves(r) == Begin(r) \/ Advance(r) \/ ServerError(r)

\* The request's own step and what publish does are looked at below.
LEMMA OneMovesReq ==
  ASSUME IInv, NEW r \in Requests, OneMoves(r)
  PROVE  /\ req' \in [Requests -> RequestState]
         /\ \A q \in Requests \ {r} : req'[q] = req[q]
  <1> DEFINE Goal == /\ req' \in [Requests -> RequestState]
                     /\ \A q \in Requests \ {r} : req'[q] = req[q]
  <1>0. TypeOK
    BY DEF IInv
  <1>1. ASSUME Begin(r) PROVE Goal
    BY <1>0, <1>1, BeginUploadFields, BeginReindexFields DEF Begin
  <1>2. ASSUME NEW s \in Steps, Goto(r, s) PROVE Goal
    BY <1>0, <1>2, GotoFields
  <1>3. ASSUME Find(r) PROVE Goal
    <2>1. CASE \E d \in Documents(req[r].source) :
                  req' = [req EXCEPT ![r].step = "insert", ![r].document = d]
      BY <1>0, <2>1, FoundFields DEF Documents
    <2>2. "insert" \in Steps /\ "serverError" \in Steps
      BY StepNames
    <2> QED BY <1>2, <1>3, <2>1, <2>2 DEF Find
  <1>4. ASSUME Insert(r) PROVE Goal
    BY <1>4, InsertFields
  <1>5. ASSUME ReadLatest(r) PROVE Goal
    BY <1>5, ReadLatestFields
  <1>6. ASSUME CommitIngest(r) \/ AuditUpload(r) \/ CommitChunks(r) \/ IndexRaises(r) \/ Publish(r)
               \/ RunHandlers(r) \/ AuditFailed(r) \/ AuditIndexed(r) \/ AuditExternal(r)
               \/ ServerError(r)
        PROVE  Goal
    <2>1. \A s \in {"auditUpload", "read", "publish", "dispatch", "auditFailed", "auditIndexed",
                    "indexError", "auditExternal", "done", "serverError"} : s \in Steps
      BY StepNames
    <2>2. \E s \in Steps : Goto(r, s)
      BY <1>6, <2>1
         DEF CommitIngest, AuditUpload, CommitChunks, IndexRaises, Publish, RunHandlers,
             AuditFailed, AuditIndexed, AuditExternal, ServerError
    <2> QED BY <1>2, <2>2
  <1> QED BY <1>1, <1>3, <1>4, <1>5, <1>6 DEF OneMoves, Advance

LEMMA CommitFacts ==
  ASSUME IInv, NEW r \in Requests, CommitIngest(r)
  PROVE  /\ req[r].document \in Ids /\ req[r].version \in Ids /\ req[r].source \in Sources
         /\ documentOf[req[r].version] = 0 /\ req[r].indexed = 0
         /\ source' = [source EXCEPT ![req[r].document] = req[r].source]
         /\ documentOf' = [documentOf EXCEPT ![req[r].version] = req[r].document]
         /\ UNCHANGED <<lastDocument, lastVersion, chunkSets, dispatchVars>>
  BY Typed, StepNames DEF IInv, RowsOf, CommitIngest, At

LEMMA ChunkFacts ==
  ASSUME IInv, NEW r \in Requests, At(r, "index")
  PROVE  /\ req[r].indexed \in Ids /\ documentOf[req[r].indexed] # 0
         /\ WithChunks(r) = [chunkSets EXCEPT ![req[r].indexed] = chunkSets[req[r].indexed] + 1]
  BY Typed DEF IInv, RowsOf, At, WithChunks

\* Committed rows stay: a document keeps a source, a version its document, a
\* version its chunks.
LEMMA RowsGrow ==
  ASSUME IInv, NEW r \in Requests, OneMoves(r)
  PROVE  /\ source' \in [Ids -> Sources \cup {NoSource}]
         /\ documentOf' \in [Ids -> Ids \cup {0}]
         /\ \A d \in Ids : source[d] # NoSource => source'[d] # NoSource
         /\ \A v \in Ids : documentOf[v] # 0 => documentOf'[v] = documentOf[v]
         /\ \A v \in Ids : documentOf'[v] # documentOf[v] => At(r, "commit") /\ v = req[r].version
  <1> USE TablesTyped DEF IInv
  <1>1. CASE CommitIngest(r)
    BY <1>1, CommitFacts, NoSourceAssumption DEF CommitIngest
  <1>2. CASE Begin(r) \/ Find(r) \/ Insert(r) \/ AuditUpload(r) \/ ReadLatest(r) \/ CommitChunks(r)
             \/ IndexRaises(r) \/ Publish(r) \/ RunHandlers(r) \/ AuditFailed(r) \/ AuditIndexed(r)
             \/ AuditExternal(r) \/ ServerError(r)
    <2>1. UNCHANGED <<source, documentOf>>
      BY <1>2
         DEF Begin, BeginUpload, BeginReindex, Starts, Find, Insert, AuditUpload, ReadLatest,
             CommitChunks, IndexRaises, Publish, RunHandlers, AuditFailed, AuditIndexed,
             AuditExternal, ServerError, rows
    <2> QED BY <2>1
  <1> QED BY <1>1, <1>2 DEF OneMoves, Advance

LEMMA ChunksGrow ==
  ASSUME IInv, NEW r \in Requests, OneMoves(r)
  PROVE  /\ DOMAIN chunkSets' = Ids /\ chunkSets' = [v \in Ids |-> chunkSets'[v]]
         /\ \A v \in Ids : chunkSets'[v] \in Nat /\ chunkSets'[v] >= chunkSets[v]
         /\ \A v \in Ids : chunkSets'[v] # chunkSets[v] =>
               /\ At(r, "index") /\ v = req[r].indexed /\ chunkSets'[v] = chunkSets[v] + 1
               /\ CommitChunks(r) \/ IndexRaises(r)
  <1> USE TablesTyped DEF IInv
  <1>1. CASE CommitChunks(r) \/ (IndexRaises(r) /\ At(r, "index"))
    <2>1. At(r, "index") /\ chunkSets' \in {chunkSets, WithChunks(r)}
      BY <1>1 DEF CommitChunks, IndexRaises, Dispatcher!InDoubt, At
    <2> QED BY <1>1, <2>1, ChunkFacts
  <1>2. CASE UNCHANGED chunkSets
    BY <1>2
  <1>3. CommitChunks(r) \/ (IndexRaises(r) /\ At(r, "index")) \/ UNCHANGED chunkSets
    BY DEF OneMoves, Advance, Begin, BeginUpload, BeginReindex, Starts, Find, Insert, AuditUpload,
           ReadLatest, CommitIngest, IndexRaises, Publish, RunHandlers, AuditFailed, AuditIndexed,
           AuditExternal, ServerError, rows
  <1> QED BY <1>1, <1>2, <1>3

LEMMA IdsGrow ==
  ASSUME IInv, NEW r \in Requests, OneMoves(r)
  PROVE  /\ lastDocument' \in Nat /\ lastVersion' \in Nat /\ lastVersion <= lastVersion'
         /\ lastDocument' \in Ids \cup {0} /\ lastVersion' \in Ids \cup {0}
         /\ lastVersion' # lastVersion => Insert(r)
         /\ ~ Insert(r) => lastDocument' = lastDocument
  <1> USE TablesTyped DEF IInv
  <1>1. CASE Insert(r)
    BY <1>1, DrawIsPossible, IdRange DEF Insert, TypeOK
  <1>2. ~ Insert(r) => UNCHANGED <<lastDocument, lastVersion>>
    BY DEF OneMoves, Advance, Begin, BeginUpload, BeginReindex, Starts, Find, AuditUpload,
           ReadLatest, CommitIngest, CommitChunks, IndexRaises, Publish, RunHandlers, AuditFailed,
           AuditIndexed, AuditExternal, ServerError, rows
  <1> QED BY <1>1, <1>2 DEF TypeOK

LEMMA TrailTyped ==
  ASSUME IInv, NEW r \in Requests, OneMoves(r)
  PROVE  trail' \in [Ids -> {"none", "uploaded", "indexed", "index_failed",
                             "ingested_from_external_source"}]
  BY DEF IInv, TypeOK, OneMoves, Advance, Begin, BeginUpload, BeginReindex, Starts, Find, Insert,
         AuditUpload, ReadLatest, CommitIngest, CommitChunks, IndexRaises, Publish, RunHandlers,
         AuditFailed, AuditIndexed, AuditExternal, ServerError, Audit, rows

\* The publication of another request's event does not move.
LEMMA CallsOfOthers ==
  ASSUME IInv, NEW r \in Requests, OneMoves(r)
  PROVE  /\ DP!IInv'
         /\ \A q \in Requests \ {r} :
               call'[q] = call[q] /\ (q \in log' <=> q \in log) /\ (q \in faulted' <=> q \in faulted)
         /\ ~ Publish(r) /\ ~ RunHandlers(r) => UNCHANGED dispatchVars
  <1> USE DEF IInv
  <1>1. CASE Publish(r) \/ RunHandlers(r)
    <2>1. Dispatcher!Persist(r) \/ Dispatcher!PersistRaises(r) \/ Dispatcher!Dispatch(r)
      BY <1>1 DEF Publish, RunHandlers
    <2> QED BY <1>1, <2>1, DispatchStep
  <1>2. ~ Publish(r) /\ ~ RunHandlers(r) => UNCHANGED dispatchVars
    BY DEF OneMoves, Advance, Begin, BeginUpload, BeginReindex, Starts, Find, Insert, AuditUpload,
           ReadLatest, CommitIngest, CommitChunks, IndexRaises, AuditFailed, AuditIndexed,
           AuditExternal, ServerError
  <1>3. CASE UNCHANGED dispatchVars
    BY <1>3, DispatchIdle DEF dispatchVars
  <1> QED BY <1>1, <1>2, <1>3

-----------------------------------------------------------------------------
(* Counters. *)

\* The actions that move the request to another step and leave it otherwise.
LEMMA OnlyGoto ==
  ASSUME IInv, NEW r \in Requests,
         CommitIngest(r) \/ AuditUpload(r) \/ CommitChunks(r) \/ IndexRaises(r) \/ Publish(r)
           \/ RunHandlers(r) \/ AuditFailed(r) \/ AuditIndexed(r) \/ AuditExternal(r)
           \/ ServerError(r)
  PROVE  /\ req'[r].step \in {"auditUpload", "read", "publish", "dispatch", "auditFailed",
                              "auditIndexed", "indexError", "auditExternal", "done", "serverError"}
         /\ req'[r].op = req[r].op /\ req'[r].source = req[r].source
         /\ req'[r].document = req[r].document /\ req'[r].version = req[r].version
         /\ req'[r].indexed = req[r].indexed
  <1>1. \A s \in {"auditUpload", "read", "publish", "dispatch", "auditFailed", "auditIndexed",
                  "indexError", "auditExternal", "done", "serverError"} : s \in Steps
    BY StepNames
  <1>2. PICK s \in {"auditUpload", "read", "publish", "dispatch", "auditFailed", "auditIndexed",
                    "indexError", "auditExternal", "done", "serverError"} : Goto(r, s)
    BY DEF CommitIngest, AuditUpload, CommitChunks, IndexRaises, Publish, RunHandlers,
           AuditFailed, AuditIndexed, AuditExternal, ServerError
  <1> QED BY <1>1, <1>2, GotoFields DEF IInv

LEMMA FindFields ==
  ASSUME IInv, NEW r \in Requests, Find(r)
  PROVE  /\ \/ req'[r].step = "insert" /\ req'[r].document = req[r].document
               /\ Documents(req[r].source) = {}
            \/ req'[r].step = "insert" /\ req'[r].document \in Ids
               /\ Documents(req[r].source) = {req'[r].document}
            \/ req'[r].step = "serverError" /\ req'[r].document = req[r].document
         /\ req'[r].op = req[r].op /\ req'[r].source = req[r].source
         /\ req'[r].version = req[r].version /\ req'[r].indexed = req[r].indexed
  <1> USE DEF IInv
  <1>1. CASE \E d \in Documents(req[r].source) :
               /\ Documents(req[r].source) = {d}
               /\ req' = [req EXCEPT ![r].step = "insert", ![r].document = d]
    BY <1>1, FoundFields DEF Documents
  <1>2. "insert" \in Steps /\ "serverError" \in Steps
    BY StepNames
  <1>3. CASE Documents(req[r].source) = {} /\ Goto(r, "insert")
    BY <1>2, <1>3, GotoFields
  <1>4. CASE Goto(r, "serverError")
    BY <1>2, <1>4, GotoFields
  <1> QED BY <1>1, <1>3, <1>4 DEF Find

\* What a request has drawn and read it keeps.
LEMMA FieldsKept ==
  ASSUME IInv, NEW r \in Requests, OneMoves(r)
  PROVE  /\ req'[r].step # "idle"
         /\ ~ Insert(r) => req'[r].version = req[r].version
         /\ Insert(r) => req'[r].version = lastVersion' /\ lastVersion' = lastVersion + 1
         /\ req[r].indexed # 0 => req'[r].indexed = req[r].indexed /\ req'[r].step # "index"
         /\ req'[r].step = "index" <=> ReadLatest(r)
         /\ ~ ReadLatest(r) => req'[r].indexed = req[r].indexed
  <1>0. TypeOK /\ RowsOf(r)
    BY DEF IInv
  <1>1. CASE Begin(r)
    <2>1. req[r].indexed = 0 /\ ~ Insert(r) /\ ~ ReadLatest(r)
      BY <1>0, <1>1, StepNames
         DEF RowsOf, Begin, BeginUpload, BeginReindex, Starts, Insert, ReadLatest, At
    <2> QED BY <1>0, <1>1, <2>1, BeginUploadFields, BeginReindexFields DEF Begin
  <1>2. CASE Insert(r)
    <2>1. ~ ReadLatest(r)
      BY <1>2 DEF Insert, ReadLatest, At
    <2> QED BY <1>2, <2>1, InsertFields
  <1>3. CASE ReadLatest(r)
    <2>1. ~ Insert(r) /\ req[r].indexed = 0
      BY <1>0, <1>3, StepNames DEF Insert, ReadLatest, At, RowsOf
    <2> QED BY <1>3, <2>1, ReadLatestFields
  <1>4. CASE Find(r)
    <2>1. ~ Insert(r) /\ ~ ReadLatest(r)
      BY <1>4 DEF Find, Insert, ReadLatest, At
    <2> QED BY <1>4, <2>1, FindFields
  <1>5. CASE CommitIngest(r) \/ AuditUpload(r) \/ CommitChunks(r) \/ IndexRaises(r) \/ Publish(r)
               \/ RunHandlers(r) \/ AuditFailed(r) \/ AuditIndexed(r) \/ AuditExternal(r)
               \/ ServerError(r)
    <2>1. /\ req'[r].step \notin {"idle", "index", "commit"} /\ req'[r].version = req[r].version
          /\ req'[r].indexed = req[r].indexed
      BY <1>5, OnlyGoto
    <2>2. ~ ReadLatest(r) /\ ~ Insert(r)
      BY <2>1, InsertFields, ReadLatestFields
    <2> QED BY <2>1, <2>2
  <1> QED BY <1>1, <1>2, <1>3, <1>4, <1>5 DEF OneMoves, Advance

LEMMA CountersStep ==
  ASSUME IInv, NEW r \in Requests, OneMoves(r)
  PROVE  CountersInv'
  <1>0. TypeOK /\ CountersInv /\ RowsOf(r)
    BY DEF IInv
  <1>1. \A q \in Requests \ {r} : req'[q] = req[q]
    BY OneMovesReq
  <1>2. lastDocument' <= lastVersion'
    <2>1. lastDocument <= lastVersion /\ lastDocument \in Nat /\ lastVersion \in Nat
      BY <1>0, TablesTyped DEF CountersInv
    <2>2. CASE Insert(r)
      BY <2>1, <2>2, InsertFields
    <2>3. CASE ~ Insert(r)
      BY <2>1, <2>3, IdsGrow
    <2> QED BY <2>2, <2>3
  <1>3. lastVersion' <= MaxEarlier + Cardinality(Drawn')
    <2> DEFINE C == Cardinality(Drawn)
               D == Cardinality(Drawn')
    <2> SUFFICES lastVersion' <= MaxEarlier + D
      OBVIOUS
    <2>0. C \in Nat /\ D \in Nat /\ lastVersion <= MaxEarlier + C /\ lastVersion \in Nat
      <3>1. Drawn \in SUBSET Requests /\ Drawn' \in SUBSET Requests
        BY DEF Drawn
      <3> QED BY <1>0, <3>1, SubsetCount, TablesTyped DEF CountersInv
    <2>1. CASE Insert(r)
      <3>1. r \notin Drawn /\ Drawn \in SUBSET Requests
        BY <2>1, DrawIsPossible DEF Insert, Drawn
      <3>2. req'[r].version # 0 /\ lastVersion' = lastVersion + 1
        BY <1>0, <2>1, InsertFields, TablesTyped
      <3>3. Drawn' = Drawn \cup {r}
        BY <1>1, <3>2 DEF Drawn
      <3>4. D = C + 1
        BY <3>1, <3>3, OneMoreCounts
      <3> HIDE DEF C, D
      <3> QED BY <2>0, <3>2, <3>4, MaxEarlierAssumption
    <2>2. CASE ~ Insert(r)
      <3>1. Drawn' = Drawn
        BY <1>1, <2>2, FieldsKept DEF Drawn
      <3> QED BY <2>0, <2>2, <3>1, IdsGrow
    <2> QED BY <2>1, <2>2
  <1>4. ASSUME NEW v \in Ids PROVE chunkSets'[v] <= 1 + Cardinality(Chunked(v)')
    <2> DEFINE C == Cardinality(Chunked(v))
               D == Cardinality(Chunked(v)')
    <2>1. Chunked(v) \in SUBSET (Chunked(v)') /\ Chunked(v)' \in SUBSET Requests
      <3>1. ASSUME NEW q \in Chunked(v) PROVE q \in Chunked(v)'
        <4>1. q \in Requests /\ req[q].indexed = v /\ req[q].step # "index" /\ v # 0
          BY <3>1, IdRange DEF Chunked, At
        <4>2. req'[q].indexed = v /\ req'[q].step # "index"
          BY <1>1, <4>1, FieldsKept
        <4> QED BY <4>1, <4>2 DEF Chunked, At
      <3> QED BY <3>1 DEF Chunked
    <2>2. C \in Nat /\ D \in Nat /\ C <= D
      BY <2>1, LargerCount
    <2>3. chunkSets[v] \in Nat /\ chunkSets[v] <= 1 + C
      BY <1>0, TablesTyped DEF CountersInv
    <2>4. CASE chunkSets'[v] = chunkSets[v]
      <3> HIDE DEF C, D
      <3> QED BY <2>2, <2>3, <2>4 DEF D
    <2>5. CASE chunkSets'[v] # chunkSets[v]
      <3>1. /\ At(r, "index") /\ v = req[r].indexed /\ chunkSets'[v] = chunkSets[v] + 1
            /\ CommitChunks(r) \/ IndexRaises(r)
        BY <2>5, ChunksGrow
      <3>2. req'[r].step # "index" /\ req'[r].indexed = v
        BY <3>1, OnlyGoto
      <3>3. r \notin Chunked(v) /\ r \in Chunked(v)' /\ Chunked(v) \in SUBSET Requests
        BY <3>1, <3>2 DEF Chunked, At
      <3>4. Cardinality(Chunked(v) \cup {r}) = C + 1
        BY <3>3, OneMoreCounts
      <3>5. Chunked(v) \cup {r} \in SUBSET (Chunked(v)')
        BY <2>1, <3>3
      <3>6. C + 1 <= D
        BY <2>1, <3>4, <3>5, LargerCount
      <3> HIDE DEF C
      <3> QED BY <2>2, <2>3, <3>1, <3>6
    <2> QED BY <2>4, <2>5
  <1> QED BY <1>2, <1>3, <1>4 DEF CountersInv, Ids

-----------------------------------------------------------------------------
(* Rows and versions. *)

LEMMA RowsStep ==
  ASSUME IInv, NEW r \in Requests, OneMoves(r)
  PROVE  RowsInv'
  <1>0. TypeOK /\ RowsInv /\ VersionsInv /\ RowsOf(r)
    BY DEF IInv
  <1>1. ASSUME NEW v \in Ids, documentOf'[v] # 0 PROVE v <= lastVersion'
    <2>1. lastVersion <= lastVersion' /\ lastVersion \in Nat /\ lastVersion' \in Nat
      BY <1>0, IdsGrow, TablesTyped
    <2>2. v <= lastVersion
      <3>1. CASE documentOf[v] # 0
        BY <1>0, <3>1 DEF RowsInv
      <3>2. CASE documentOf[v] = 0
        BY <1>0, <1>1, <3>2, RowsGrow DEF VersionsInv
      <3> QED BY <3>1, <3>2
    <2> QED BY <2>1, <2>2, IdRange
  <1>2. ASSUME NEW v \in Ids, chunkSets'[v] > 0 PROVE documentOf'[v] # 0
    <2>1. CASE chunkSets'[v] = chunkSets[v]
      <3>1. documentOf[v] # 0
        BY <1>0, <1>2, <2>1 DEF RowsInv
      <3> QED BY <3>1, RowsGrow
    <2>2. CASE chunkSets'[v] # chunkSets[v]
      <3>1. At(r, "index") /\ v = req[r].indexed
        BY <2>2, ChunksGrow
      <3>2. documentOf[v] # 0
        BY <3>1, ChunkFacts
      <3> QED BY <3>2, RowsGrow
    <2> QED BY <2>1, <2>2
  <1>3. ASSUME NEW d \in Ids, source'[d] # NoSource PROVE \E v \in Ids : documentOf'[v] = d
    <2>1. CASE source[d] # NoSource
      <3>1. PICK v \in Ids : documentOf[v] = d
        BY <1>0, <2>1 DEF RowsInv, Versions
      <3>2. d # 0
        BY IdRange
      <3> QED BY <3>1, <3>2, RowsGrow
    <2>2. CASE source[d] = NoSource
      <3>1. source' # source
        BY <1>3, <2>2
      <3>2. CommitIngest(r)
        BY <3>1
           DEF OneMoves, Advance, Begin, BeginUpload, BeginReindex, Starts, Find, Insert,
               AuditUpload, ReadLatest, CommitChunks, IndexRaises, Publish, RunHandlers,
               AuditFailed, AuditIndexed, AuditExternal, ServerError, rows
      <3>3. d = req[r].document /\ documentOf'[req[r].version] = d /\ req[r].version \in Ids
        BY <1>0, <1>3, <2>2, <3>2, CommitFacts, TablesTyped
      <3> QED BY <3>3
    <2> QED BY <2>1, <2>2
  <1> QED BY <1>1, <1>2, <1>3 DEF RowsInv, Versions, Ids

LEMMA VersionsStep ==
  ASSUME IInv, NEW r \in Requests, OneMoves(r)
  PROVE  VersionsInv'
  <1>0. TypeOK /\ VersionsInv
    BY DEF IInv
  <1>1. \A q \in Requests \ {r} : req'[q] = req[q]
    BY OneMovesReq
  <1>2. \A q \in Requests : req[q].version \in Nat /\ req[q].version <= lastVersion
    BY <1>0, Typed, IdRange DEF VersionsInv
  <1>3. lastVersion \in Nat /\ lastVersion' \in Nat /\ lastVersion <= lastVersion'
    BY <1>0, IdsGrow, TablesTyped
  <1>4. CASE Insert(r)
    <2>1. req'[r].version = lastVersion + 1 /\ lastVersion' = lastVersion + 1
      BY <1>4, FieldsKept
    <2> QED BY <1>0, <1>1, <1>2, <1>3, <2>1 DEF VersionsInv
  <1>5. CASE ~ Insert(r)
    <2>1. \A q \in Requests : req'[q].version = req[q].version
      BY <1>1, <1>5, FieldsKept
    <2> QED BY <1>0, <1>2, <1>3, <2>1 DEF VersionsInv
  <1> QED BY <1>4, <1>5

-----------------------------------------------------------------------------
(* What the steps of the requests say stays true. *)

LEMMA OthersKeep ==
  ASSUME IInv, NEW r \in Requests, OneMoves(r), NEW q \in Requests, q # r
  PROVE  RowsOf(q)' /\ CallOf(q)'
  <1>0. TypeOK /\ VersionsInv /\ RowsOf(q) /\ CallOf(q)
    BY DEF IInv
  <1>1. req'[q] = req[q]
    BY OneMovesReq
  <1>2. /\ req[q].document \in Ids \cup {0} /\ req[q].version \in Ids \cup {0}
        /\ req[q].indexed \in Ids \cup {0}
    BY <1>0, Typed
  <1>3. RowsOf(q)'
    <2>1. At(q, "commit") => documentOf'[req[q].version] = 0
      <3>1. SUFFICES ASSUME At(q, "commit"), documentOf'[req[q].version] # 0 PROVE FALSE
        OBVIOUS
      <3>2. req[q].version \in Ids /\ documentOf[req[q].version] = 0
        BY <1>0, <1>2, <3>1 DEF RowsOf
      <3>3. req[q].version = req[r].version
        BY <3>1, <3>2, RowsGrow
      <3> QED BY <1>0, <3>2, <3>3, IdRange DEF VersionsInv
    <2>2. req[q].document # 0 /\ source[req[q].document] # NoSource =>
            source'[req[q].document] # NoSource
      BY <1>2, RowsGrow
    <2>3. req[q].indexed # 0 /\ documentOf[req[q].indexed] # 0 => documentOf'[req[q].indexed] # 0
      BY <1>2, RowsGrow
    <2> QED BY <1>0, <1>1, <2>1, <2>2, <2>3 DEF RowsOf, At
  <1>4. CallOf(q)'
    <2>1. call'[q] = call[q] /\ (q \in log' <=> q \in log)
      BY CallsOfOthers
    <2>2. req[q].indexed # 0 /\ chunkSets[req[q].indexed] > 0 => chunkSets'[req[q].indexed] > 0
      BY <1>0, <1>2, ChunksGrow, TablesTyped
    <2> QED BY <1>0, <1>1, <2>1, <2>2 DEF CallOf, At
  <1> QED BY <1>3, <1>4

LEMMA OwnRows ==
  ASSUME IInv, NEW r \in Requests, OneMoves(r)
  PROVE  RowsOf(r)'
  <1>0. TypeOK /\ RowsInv /\ VersionsInv /\ RowsOf(r)
    BY DEF IInv
  <1> USE <1>0
  <1>1. /\ req[r].document \in Ids \cup {0} /\ req[r].version \in Ids \cup {0}
        /\ req[r].indexed \in Ids \cup {0}
    BY Typed
  <1>2. /\ req[r].document # 0 /\ source[req[r].document] # NoSource =>
             source'[req[r].document] # NoSource
        /\ req[r].indexed # 0 /\ documentOf[req[r].indexed] # 0 => documentOf'[req[r].indexed] # 0
    BY <1>1, RowsGrow
  <1>3. ASSUME NEW op \in {"upload", "fromUrl"}, NEW s \in Sources, BeginUpload(r, op, s)
        PROVE  RowsOf(r)'
    <2>1. /\ req'[r].step = "find" /\ req'[r].source = s
          /\ req'[r].version = req[r].version /\ req'[r].indexed = req[r].indexed
      BY <1>3, BeginUploadFields
    <2>2. req[r].version = 0 /\ req[r].indexed = 0
      BY <1>3, StepNames DEF BeginUpload, Starts, RowsOf, At
    <2> QED BY <2>1, <2>2, StepNames DEF RowsOf, At
  <1>4. ASSUME NEW d \in Ids, BeginReindex(r, d) PROVE RowsOf(r)'
    <2>1. source'[d] # NoSource /\ d # 0
      BY <1>4, RowsGrow, IdRange DEF BeginReindex
    <2>2. req[r].indexed = 0 /\ req'[r].step = "read" /\ req'[r].document = d /\ req'[r].indexed = 0
      BY <1>4, BeginReindexFields, StepNames DEF BeginReindex, Starts, RowsOf, At
    <2> QED BY <2>1, <2>2, StepNames DEF RowsOf, At
  <1>5. CASE Find(r)
    <2>1. /\ req[r].step = "find"
          /\ req'[r].step \in {"insert", "serverError"} /\ req'[r].source = req[r].source
          /\ req'[r].version = req[r].version /\ req'[r].indexed = req[r].indexed
      BY <1>5, FindFields DEF Find, At
    <2> QED BY <2>1, StepNames DEF RowsOf, At
  <1>6. CASE Insert(r)
    <2>1. documentOf'[lastVersion + 1] = 0
      <3>1. lastVersion + 1 \in Ids /\ lastVersion \in Nat
        BY <1>6, DrawIsPossible, TablesTyped DEF Insert
      <3>2. documentOf[lastVersion + 1] = 0
        BY <3>1 DEF RowsInv
      <3> QED BY <1>6, <3>2 DEF Insert
    <2>2. /\ req'[r].step = "commit" /\ req'[r].version = lastVersion + 1
          /\ req'[r].source = req[r].source /\ req'[r].document # 0
          /\ req'[r].indexed = req[r].indexed /\ lastVersion + 1 # 0
      BY <1>6, InsertFields, TablesTyped
    <2>3. req[r].step = "insert"
      BY <1>6 DEF Insert, At
    <2> QED BY <2>1, <2>2, <2>3, StepNames DEF RowsOf, At
  <1>7. CASE CommitIngest(r)
    <2>1. /\ req[r].document \in Ids /\ source'[req[r].document] # NoSource /\ req[r].indexed = 0
      BY <1>7, CommitFacts, TablesTyped, NoSourceAssumption
    <2>2. "auditUpload" \in Steps /\ req[r].document # 0
      BY <2>1, StepNames, IdRange
    <2>3. /\ req'[r].step = "auditUpload" /\ req'[r].document = req[r].document
          /\ req'[r].indexed = 0
      BY <1>7, <2>1, <2>2, GotoFields DEF CommitIngest
    <2> QED BY <2>1, <2>2, <2>3, StepNames DEF RowsOf, At
  <1>8. CASE ReadLatest(r)
    <2>1. /\ req[r].step = "read" /\ req'[r].step = "index" /\ req'[r].document = req[r].document
          /\ req'[r].indexed \in Ids /\ documentOf[req'[r].indexed] = req[r].document
      BY <1>8, ReadLatestFields DEF ReadLatest, At
    <2>2. req'[r].indexed # 0 /\ req[r].document # 0 /\ source[req[r].document] # NoSource
      BY <2>1, StepNames, IdRange DEF RowsOf
    <2>3. documentOf'[req'[r].indexed] # 0
      BY <2>1, <2>2, RowsGrow
    <2> QED BY <1>2, <2>1, <2>2, <2>3, StepNames DEF RowsOf, At
  <1>9. CASE AuditUpload(r) \/ CommitChunks(r) \/ IndexRaises(r) \/ Publish(r)
               \/ RunHandlers(r) \/ AuditFailed(r) \/ AuditIndexed(r) \/ AuditExternal(r)
               \/ ServerError(r)
    <2>1. /\ req'[r].document = req[r].document /\ req'[r].indexed = req[r].indexed
          /\ req'[r].step \in {"auditUpload", "read", "publish", "dispatch", "auditFailed",
                               "auditIndexed", "indexError", "auditExternal", "done", "serverError"}
      BY <1>9, OnlyGoto
    <2>2. CASE req'[r].step \in {"done", "indexError", "serverError"}
      BY <1>2, <2>1, <2>2, StepNames DEF RowsOf, At
    <2>3. CASE req'[r].step \notin {"done", "indexError", "serverError"}
      <3>1. /\ req[r].step \in Stored
            /\ req'[r].step \in Unread => AuditUpload(r)
            /\ req'[r].step # "auditUpload"
        <4>1. \A s \in {"auditUpload", "read", "publish", "dispatch", "auditFailed",
                  "auditIndexed", "indexError", "auditExternal", "done", "serverError"} : s \in Steps
          BY StepNames
        <4>2. \A s \in {"auditUpload", "read", "publish", "dispatch", "auditFailed",
                  "auditIndexed", "indexError", "auditExternal", "done", "serverError"} :
                Goto(r, s) => req'[r].step = s
          BY <4>1, GotoFields
        <4>3. ~ ServerError(r)
          BY <2>3, <4>2 DEF ServerError
        <4> QED BY <1>9, <2>3, <4>2, <4>3, StepNames
                DEF AuditUpload, CommitChunks, IndexRaises, Publish, RunHandlers, AuditFailed,
                    AuditIndexed, AuditExternal, At
      <3>2. AuditUpload(r) => req[r].indexed = 0
        BY StepNames DEF AuditUpload, RowsOf, At
      <3>3. req[r].document # 0 /\ source[req[r].document] # NoSource
        BY <3>1 DEF RowsOf
      <3> QED BY <1>2, <2>1, <2>3, <3>1, <3>2, <3>3, StepNames DEF RowsOf, At
    <2> QED BY <2>2, <2>3
  <1> QED BY <1>3, <1>4, <1>5, <1>6, <1>7, <1>8, <1>9 DEF OneMoves, Advance, Begin

LEMMA OwnCall ==
  ASSUME IInv, NEW r \in Requests, OneMoves(r)
  PROVE  CallOf(r)'
  <1>0. TypeOK /\ RowsOf(r) /\ CallOf(r) /\ DP!IInv
    BY DEF IInv
  <1> USE <1>0
  <1>1. ASSUME req[r].indexed # 0, chunkSets[req[r].indexed] > 0, req'[r].indexed = req[r].indexed
        PROVE  req'[r].indexed # 0 /\ chunkSets'[req'[r].indexed] > 0
    <2>1. req[r].indexed \in Ids
      BY <1>1, Typed
    <2> QED BY <1>1, <2>1, ChunksGrow, TablesTyped
  <1>2. CASE Begin(r) \/ Find(r) \/ Insert(r) \/ CommitIngest(r) \/ AuditUpload(r) \/ ReadLatest(r)
    <2>1. /\ req[r].step \in Unread
          /\ req'[r].step \in Unpublished \cup {"serverError"} /\ req'[r].step # "publish"
      <3>1. CASE Begin(r)
        BY <3>1, BeginUploadFields, BeginReindexFields, StepNames
           DEF Begin, BeginUpload, BeginReindex, Starts, At
      <3>2. CASE Find(r) \/ Insert(r) \/ ReadLatest(r)
        BY <3>2, FindFields, InsertFields, ReadLatestFields, StepNames DEF Find, Insert, ReadLatest, At
      <3>3. CASE CommitIngest(r) \/ AuditUpload(r)
        <4>1. "auditUpload" \in Steps /\ "read" \in Steps
          BY StepNames
        <4> QED BY <3>3, <4>1, GotoFields, StepNames DEF CommitIngest, AuditUpload, At
      <3> QED BY <1>2, <3>1, <3>2, <3>3
    <2>2. UNCHANGED <<call, log>>
      BY <1>2
         DEF Begin, BeginUpload, BeginReindex, Starts, Find, Insert, CommitIngest, AuditUpload,
             ReadLatest, dispatchVars
    <2>3. call[r].step = "new" /\ r \notin log
      BY <2>1, StepNames DEF CallOf
    <2> QED BY <2>1, <2>2, <2>3, StepNames DEF CallOf, At
  <1>3. CASE CommitChunks(r)
    <2>1. "publish" \in Steps /\ req[r].step = "index"
      BY <1>3, StepNames DEF CommitChunks, At
    <2>2. req'[r].step = "publish" /\ req'[r].indexed = req[r].indexed
      BY <1>3, <2>1, GotoFields DEF CommitChunks
    <2>3. req[r].indexed \in Ids /\ chunkSets'[req[r].indexed] > 0
      BY <1>3, <2>1, ChunkFacts, TablesTyped DEF CommitChunks, At
    <2>4. UNCHANGED <<call, log>>
      BY <1>3 DEF CommitChunks, dispatchVars
    <2> QED BY <2>1, <2>2, <2>3, <2>4, IdRange, StepNames DEF CallOf, At
  <1>4. CASE IndexRaises(r)
    <2>1. "auditFailed" \in Steps /\ req[r].step \in {"read", "index"}
      BY <1>4, StepNames DEF IndexRaises, At
    <2>2. req'[r].step = "auditFailed"
      BY <1>4, <2>1, GotoFields DEF IndexRaises
    <2>3. UNCHANGED <<call, log>>
      BY <1>4 DEF IndexRaises, dispatchVars
    <2> QED BY <2>1, <2>2, <2>3, StepNames DEF CallOf, At
  <1>5. CASE Publish(r)
    <2>1. /\ req[r].step = "publish" /\ "auditFailed" \in Steps /\ "dispatch" \in Steps
      BY <1>5, StepNames DEF Publish, At
    <2>2. req[r].indexed # 0 /\ chunkSets[req[r].indexed] > 0
      BY <2>1 DEF CallOf
    <2>3. CASE Dispatcher!Persist(r) /\ Goto(r, "dispatch")
      <3>1. req'[r].step = "dispatch" /\ req'[r].indexed = req[r].indexed
        BY <2>1, <2>3, GotoFields
      <3> QED BY <1>1, <2>2, <2>3, <3>1, PersistStep, StepNames DEF CallOf, At
    <2>4. CASE Dispatcher!PersistRaises(r) /\ Goto(r, "auditFailed")
      <3>1. req'[r].step = "auditFailed" /\ req'[r].indexed = req[r].indexed
        BY <2>1, <2>4, GotoFields
      <3> QED BY <1>1, <2>2, <2>4, <3>1, PersistRaisesStep, StepNames DEF CallOf, At
    <2> QED BY <1>5, <2>3, <2>4 DEF Publish
  <1>6. CASE RunHandlers(r)
    <2>1. /\ req[r].step = "dispatch" /\ "auditFailed" \in Steps /\ "dispatch" \in Steps
          /\ "auditIndexed" \in Steps
      BY <1>6, StepNames DEF RunHandlers, At
    <2>2. req[r].indexed # 0 /\ chunkSets[req[r].indexed] > 0
      BY <2>1 DEF CallOf
    <2>3. call'[r].step \notin {"new", "lost"} /\ log' = log
      BY <1>6, HandlersStep DEF RunHandlers
    <2>4. /\ req'[r].indexed = req[r].indexed
          /\ req'[r].step = CASE call'[r].step = "returned" -> "auditIndexed"
                              [] call'[r].step = "raised" -> "auditFailed"
                              [] OTHER -> "dispatch"
      BY <1>6, <2>1, GotoFields DEF RunHandlers
    <2>5. \/ req'[r].step = "auditIndexed" /\ call'[r].step = "returned"
          \/ req'[r].step = "auditFailed" /\ call'[r].step = "raised"
          \/ req'[r].step = "dispatch" /\ call'[r].step \notin {"new", "returned", "raised", "lost"}
      BY <2>3, <2>4
    <2> QED BY <1>1, <2>2, <2>3, <2>4, <2>5, StepNames DEF CallOf, At
  <1>7. CASE AuditFailed(r) \/ AuditIndexed(r) \/ AuditExternal(r) \/ ServerError(r)
    <2>1. \A s \in {"indexError", "auditExternal", "done", "serverError"} : s \in Steps
      BY StepNames
    <2>2. req'[r].indexed = req[r].indexed
      BY <1>7, OnlyGoto
    <2>3. UNCHANGED <<call, log>>
      BY <1>7 DEF AuditFailed, AuditIndexed, AuditExternal, ServerError, dispatchVars
    <2>4. CASE AuditFailed(r)
      <3>1. req[r].step = "auditFailed" /\ req'[r].step = "indexError"
        BY <2>1, <2>4, GotoFields DEF AuditFailed, At
      <3> QED BY <1>1, <2>2, <2>3, <3>1, StepNames DEF CallOf, At
    <2>5. CASE AuditIndexed(r) \/ AuditExternal(r)
      <3>1. /\ req[r].step \in {"auditIndexed", "auditExternal"}
            /\ req'[r].step \in {"auditExternal", "done"}
        BY <2>1, <2>5, GotoFields DEF AuditIndexed, AuditExternal, At
      <3>2. /\ call[r].step = "returned" /\ req[r].indexed # 0 /\ chunkSets[req[r].indexed] > 0
        BY <3>1 DEF CallOf
      <3> QED BY <1>1, <2>2, <2>3, <3>1, <3>2, StepNames DEF CallOf, At
    <2>6. CASE ServerError(r)
      <3>1. req'[r].step = "serverError"
        BY <2>1, <2>6, GotoFields DEF ServerError
      <3> QED BY <1>1, <2>2, <2>3, <3>1, StepNames DEF CallOf, At
    <2> QED BY <1>7, <2>4, <2>5, <2>6
  <1> QED BY <1>2, <1>3, <1>4, <1>5, <1>6, <1>7 DEF OneMoves, Advance

-----------------------------------------------------------------------------
(* Types. *)

LEMMA TypeStep ==
  ASSUME IInv, NEW r \in Requests, OneMoves(r)
  PROVE  TypeOK'
  <1>0. TypeOK
    BY DEF IInv
  <1>1. /\ lastDocument' \in Ids \cup {0} /\ lastVersion' \in Ids \cup {0}
        /\ source' \in [Ids -> Sources \cup {NoSource}]
        /\ documentOf' \in [Ids -> Ids \cup {0}]
        /\ trail' \in [Ids -> {"none", "uploaded", "indexed", "index_failed",
                               "ingested_from_external_source"}]
        /\ req' \in [Requests -> RequestState]
    BY IdsGrow, RowsGrow, TrailTyped, OneMovesReq
  <1>2. chunkSets' \in [Ids -> 0 .. 1 + Cardinality(Requests)]
    <2>1. ASSUME NEW v \in Ids PROVE chunkSets'[v] \in 0 .. 1 + Cardinality(Requests)
      <3>1. chunkSets'[v] <= 1 + Cardinality(Chunked(v)')
        BY CountersStep DEF CountersInv, Ids
      <3>2. Chunked(v)' \in SUBSET Requests
        BY DEF Chunked
      <3>3. Cardinality(Chunked(v)') \in Nat /\ Cardinality(Chunked(v)') <= Cardinality(Requests)
        BY <3>2, SubsetCount
      <3>4. chunkSets'[v] \in Nat
        BY ChunksGrow
      <3> QED BY <3>1, <3>3, <3>4, IdRange
    <2> QED BY <2>1, ChunksGrow
  <1>3. alone' \subseteq Requests
    BY <1>0
       DEF TypeOK, OneMoves, Advance, Begin, BeginUpload, BeginReindex, Starts, Find, Insert,
           AuditUpload, ReadLatest, CommitIngest, CommitChunks, IndexRaises, Publish, RunHandlers,
           AuditFailed, AuditIndexed, AuditExternal, ServerError
  <1>4. Dispatcher!TypeOK' /\ DP!IInv'
    <2>1. DP!IInv'
      BY CallsOfOthers
    <2>2. DP!IInv' => Dispatcher!TypeOK'
      BY DispatchTyped, PTL
    <2> QED BY <2>1, <2>2
  <1>5. \A q \in Requests : CallOf(q)'
    BY OwnCall, OthersKeep
  <1>6. \A q \in Requests : At(q, "dispatch")' => q \in Dispatcher!InProgress'
    BY <1>4, <1>5 DEF CallOf, At, Dispatcher!InProgress, Dispatcher!Ended
  <1> QED BY <1>1, <1>2, <1>3, <1>4, <1>6 DEF TypeOK, Ids, RequestState, At

-----------------------------------------------------------------------------
(* A request that runs alone. *)

LEMMA ActiveSteps ==
  ASSUME TypeOK, NEW r \in Requests
  PROVE  Active(r) <=> req[r].step \notin {"idle", "done", "indexError", "serverError", "lost"}
  BY StepNames DEF Active

\* Who moves without starting is active, and no request starts.
LEMMA MovesAreActive ==
  ASSUME IInv, NEW r \in Requests, OneMoves(r), ~ Begin(r)
  PROVE  Active(r) /\ alone' = alone
  <1>1. req[r].step \in {"find", "insert", "commit", "auditUpload", "read", "index", "publish",
                         "dispatch", "auditIndexed", "auditFailed", "auditExternal"}
    BY DEF OneMoves, Advance, Find, Insert, AuditUpload, ReadLatest, CommitIngest, CommitChunks,
           IndexRaises, Publish, RunHandlers, AuditFailed, AuditIndexed, AuditExternal,
           ServerError, At
  <1>2. alone' = alone
    BY DEF OneMoves, Advance, Find, Insert, AuditUpload, ReadLatest, CommitIngest, CommitChunks,
           IndexRaises, Publish, RunHandlers, AuditFailed, AuditIndexed, AuditExternal,
           ServerError
  <1> QED BY <1>1, <1>2, ActiveSteps DEF IInv

\* A request that was answered needs nothing more.
LEMMA AnsweredAlone ==
  ASSUME NEW q \in Requests, req'[q].step \in {"done", "indexError", "serverError", "lost"}
  PROVE  AloneOf(q)' /\ OwnVersion(q)'
  BY StepNames DEF AloneOf, OwnVersion, At, Active

LEMMA BeginAlone ==
  ASSUME IInv, NEW r \in Requests, Begin(r)
  PROVE  AloneInv'
  <1>0. TypeOK /\ AloneInv
    BY DEF IInv
  <1>1. /\ req[r].step = "idle"
        /\ alone' = IF \E q \in Requests : Active(q) THEN {q \in alone : ~ Active(q)}
                    ELSE alone \cup {r}
    BY DEF Begin, BeginUpload, BeginReindex, Starts, At
  <1>2. req'[r].step = "find" \/ (req'[r].step = "read" /\ req'[r].op = "reindex")
    BY <1>0, BeginUploadFields, BeginReindexFields DEF Begin
  <1>3. \A q \in Requests \ {r} : req'[q] = req[q]
    BY OneMovesReq DEF OneMoves
  <1>4. ASSUME NEW q \in alone', q # r
        PROVE  AloneOf(q)' /\ OwnVersion(q)'
    <2>1. q \in alone /\ q \in Requests /\ ~ Active(q)
      BY <1>0, <1>1, <1>4, TablesTyped
    <2>2. req[q].step # "idle"
      BY <1>0, <2>1 DEF AloneInv, AloneOf, At
    <2>3. req'[q].step \in {"done", "indexError", "serverError", "lost"}
      BY <1>0, <1>3, <1>4, <2>1, <2>2, ActiveSteps
    <2> QED BY <2>1, <2>3, AnsweredAlone
  <1>5. ASSUME r \in alone' PROVE AloneOf(r)' /\ (req'[r].op # "reindex" => OwnVersion(r)')
    <2>1. \A q \in Requests : ~ Active(q)
      BY <1>0, <1>1, <1>5 DEF AloneInv, AloneOf, At
    <2>2. \A q \in Requests \ {r} : ~ Active(q)'
      BY <1>3, <2>1 DEF Active
    <2> QED BY <1>2, <2>2 DEF AloneOf, OwnVersion, At
  <1>6. alone' \subseteq Requests
    BY <1>0, <1>1, TablesTyped
  <1> QED BY <1>4, <1>5, <1>6 DEF AloneInv

\* What the only active request has found stays so.
LEMMA OwnAlone ==
  ASSUME IInv, NEW r \in alone, OneMoves(r), ~ Begin(r)
  PROVE  AloneOf(r)'
  <1>0. TypeOK /\ AloneInv /\ r \in Requests
    BY TablesTyped DEF IInv
  <1>1. Active(r) /\ \A q \in Requests \ {r} : ~ Active(q)
    BY <1>0, MovesAreActive DEF AloneInv, AloneOf
  <1>2. req'[r].step # "idle" /\ \A q \in Requests \ {r} : ~ Active(q)'
    BY <1>0, <1>1, FieldsKept, OneMovesReq DEF Active
  <1>3. ASSUME req'[r].step \in {"insert", "commit"}
        PROVE  {d \in Ids : source'[d] = req'[r].source} \subseteq {req'[r].document}
    <2>1. CASE Find(r)
      <3>1. source' = source /\ req'[r].source = req[r].source
        BY <1>0, <2>1, FindFields DEF Find, rows
      <3>2. Documents(req[r].source) \subseteq {req'[r].document}
        BY <1>0, <1>3, <2>1, FindFields
      <3> QED BY <3>1, <3>2 DEF Documents
    <2>2. CASE Insert(r)
      <3>1. source' = source /\ req'[r].source = req[r].source
        BY <1>0, <2>2, InsertFields DEF Insert
      <3>2. Documents(req[r].source) \subseteq {req[r].document}
        BY <1>0, <2>2 DEF AloneInv, AloneOf, Insert, At
      <3>3. req'[r].document = req[r].document \/ req[r].document = 0
        BY <1>0, <2>2, InsertFields
      <3> QED BY <3>1, <3>2, <3>3, IdRange DEF Documents
    <2>3. Find(r) \/ Insert(r)
      BY <1>0, <1>3, OnlyGoto, ReadLatestFields DEF OneMoves, Advance
    <2> QED BY <2>1, <2>2, <2>3
  <1> QED BY <1>2, <1>3 DEF AloneOf, At, Documents, Ids

LEMMA OwnVersionKept ==
  ASSUME IInv, NEW r \in alone, OneMoves(r), ~ Begin(r), req'[r].op # "reindex"
  PROVE  OwnVersion(r)'
  <1>0. TypeOK /\ AloneInv /\ RowsInv /\ RowsOf(r) /\ r \in Requests
    BY TablesTyped DEF IInv
  <1> USE <1>0
  <1>1. CASE Find(r)
    <2>1. req'[r].step \in {"insert", "serverError"}
      BY <1>1, FindFields
    <2> QED BY <2>1 DEF OwnVersion
  <1>2. CASE Insert(r)
    <2>1. /\ req'[r].step = "commit" /\ req'[r].version = lastVersion + 1
          /\ lastVersion' = lastVersion + 1
      BY <1>2, InsertFields
    <2>2. lastVersion + 1 \in Ids /\ lastVersion \in Nat
      BY <1>2, DrawIsPossible, TablesTyped DEF Insert
    <2>3. chunkSets[lastVersion + 1] = 0
      BY <2>2, TablesTyped DEF RowsInv
    <2>4. chunkSets' = chunkSets
      BY <1>2 DEF Insert
    <2> QED BY <2>1, <2>2, <2>3, <2>4 DEF OwnVersion
  <1>3. CASE ~ Find(r) /\ ~ Insert(r)
    <2>1. req'[r].op = req[r].op /\ req'[r].version = req[r].version
      BY <1>3, OnlyGoto, ReadLatestFields DEF OneMoves, Advance
    <2>2. OwnVersion(r)
      BY <2>1 DEF AloneInv
    <2>3. lastVersion' = lastVersion
      BY <1>3, IdsGrow
    <2>4. CASE CommitIngest(r)
      <3>1. req'[r].step = "auditUpload" /\ req'[r].document = req[r].document
        <4>1. "auditUpload" \in Steps
          BY StepNames
        <4> QED BY <2>4, <4>1, GotoFields DEF CommitIngest
      <3>2. documentOf'[req[r].version] = req[r].document /\ chunkSets' = chunkSets
        BY <2>4, CommitFacts, TablesTyped
      <3>3. req[r].step = "commit"
        BY <2>4 DEF CommitIngest, At
      <3> QED BY <2>1, <2>2, <2>3, <3>1, <3>2, <3>3 DEF OwnVersion
    <2>5. CASE ReadLatest(r)
      <3>1. /\ req'[r].step = "index" /\ req'[r].document = req[r].document
            /\ req'[r].indexed \in Ids /\ documentOf[req'[r].indexed] = req[r].document
            /\ \A v \in Ids : documentOf[v] = req[r].document => v <= req'[r].indexed
            /\ req[r].document \in Ids
        BY <2>5, ReadLatestFields
      <3>2. req[r].step = "read" /\ documentOf' = documentOf /\ chunkSets' = chunkSets
        BY <2>5 DEF ReadLatest, At, rows
      <3>3. /\ req[r].version = lastVersion /\ documentOf[req[r].version] = req[r].document
            /\ req[r].version \in Ids
        BY <2>2, <3>2, Typed DEF OwnVersion
      <3>4. req'[r].indexed <= lastVersion /\ lastVersion <= req'[r].indexed
        BY <3>1, <3>3, IdRange DEF RowsInv
      <3>5. req'[r].indexed = req[r].version
        BY <3>1, <3>3, <3>4, IdRange
      <3> QED BY <2>1, <2>2, <2>3, <3>1, <3>2, <3>3, <3>5 DEF OwnVersion
    <2>6. CASE CommitChunks(r)
      <3>1. req'[r].step = "publish" /\ req'[r].document = req[r].document
            /\ req'[r].indexed = req[r].indexed
        <4>1. "publish" \in Steps
          BY StepNames
        <4> QED BY <2>6, <4>1, GotoFields DEF CommitChunks
      <3>2. req[r].step = "index" /\ documentOf' = documentOf
        BY <2>6 DEF CommitChunks, At
      <3>3. req[r].indexed = req[r].version /\ chunkSets[req[r].version] = 0
        BY <2>2, <3>2 DEF OwnVersion
      <3>4. chunkSets'[req[r].version] = 1
        BY <2>6, <3>2, <3>3, ChunkFacts, TablesTyped DEF CommitChunks, At
      <3> QED BY <2>1, <2>2, <2>3, <3>1, <3>2, <3>3, <3>4 DEF OwnVersion
    <2>7. CASE AuditUpload(r) \/ Publish(r) \/ RunHandlers(r)
      <3>1. \A s \in {"read", "dispatch", "auditFailed", "auditIndexed"} : s \in Steps
        BY StepNames
      <3>2. \/ /\ req'[r].step = "read" /\ req[r].step = "auditUpload"
            \/ /\ req'[r].step \in {"dispatch", "auditFailed", "auditIndexed"}
               /\ req[r].step \in {"publish", "dispatch"}
        BY <2>7, <3>1, GotoFields DEF AuditUpload, Publish, RunHandlers, At
      <3>3. req'[r].document = req[r].document /\ req'[r].indexed = req[r].indexed
        BY <2>7, OnlyGoto
      <3>4. documentOf' = documentOf /\ chunkSets' = chunkSets
        BY <2>7 DEF AuditUpload, Publish, RunHandlers, rows
      <3> QED BY <2>1, <2>2, <2>3, <3>2, <3>3, <3>4 DEF OwnVersion
    <2>8. CASE IndexRaises(r) \/ AuditFailed(r) \/ AuditIndexed(r) \/ AuditExternal(r)
               \/ ServerError(r)
      <3>1. \A s \in {"auditFailed", "indexError", "auditExternal", "done", "serverError"} : s \in Steps
        BY StepNames
      <3>2. req'[r].step \in {"auditFailed", "indexError", "auditExternal", "done", "serverError"}
        BY <2>8, <3>1, GotoFields DEF IndexRaises, AuditFailed, AuditIndexed, AuditExternal, ServerError
      <3> QED BY <3>2 DEF OwnVersion
    <2> QED BY <1>3, <2>4, <2>5, <2>6, <2>7, <2>8 DEF OneMoves, Advance
  <1> QED BY <1>1, <1>2, <1>3

LEMMA AloneStep ==
  ASSUME IInv, NEW r \in Requests, OneMoves(r)
  PROVE  AloneInv'
  <1>1. CASE Begin(r)
    BY <1>1, BeginAlone
  <1>2. CASE ~ Begin(r)
    <2>1. Active(r) /\ alone' = alone /\ alone \subseteq Requests
      BY <1>2, MovesAreActive, TablesTyped DEF IInv
    <2>2. ASSUME NEW q \in alone, q # r PROVE AloneOf(q)' /\ OwnVersion(q)'
      <3>1. ~ Active(q) /\ req[q].step # "idle" /\ q \in Requests
        BY <2>1, <2>2 DEF IInv, AloneInv, AloneOf, At
      <3>2. req'[q] = req[q]
        BY <2>2, <3>1, OneMovesReq
      <3>3. req'[q].step \in {"done", "indexError", "serverError", "lost"}
        BY <3>1, <3>2, ActiveSteps DEF IInv
      <3> QED BY <3>1, <3>3, AnsweredAlone
    <2>3. ASSUME r \in alone PROVE AloneOf(r)' /\ (req'[r].op # "reindex" => OwnVersion(r)')
      BY <1>2, <2>3, OwnAlone, OwnVersionKept
    <2> QED BY <2>1, <2>2, <2>3 DEF AloneInv
  <1> QED BY <1>1, <1>2

-----------------------------------------------------------------------------
(* The end of the process, and the invariant. *)

LEMMA CrashKeeps ==
  ASSUME IInv, Crash
  PROVE  IInv'
  <1>0. TypeOK /\ DP!IInv /\ CountersInv /\ RowsInv /\ VersionsInv /\ AloneInv
    BY DEF IInv
  <1> USE <1>0
  <1>1. /\ UNCHANGED <<lastDocument, lastVersion, source, documentOf, chunkSets, trail, alone>>
        /\ DP!IInv' /\ log' = log
        /\ \A q \in Requests : call[q].step \in {"new", "returned", "raised", "lost"} =>
              call'[q] = call[q]
    <2>1. UNCHANGED <<rows, alone>> /\ (Dispatcher!Crash \/ UNCHANGED dispatchVars)
      BY DEF Crash
    <2>2. CASE Dispatcher!Crash
      BY <2>1, <2>2, DispatchCrash DEF rows
    <2>3. CASE UNCHANGED dispatchVars
      BY <2>1, <2>3, DispatchIdle DEF dispatchVars, rows
    <2> QED BY <2>1, <2>2, <2>3
  <1>2. ASSUME NEW q \in Requests
        PROVE  /\ req'[q] \in RequestState /\ req'[q].op = req[q].op
               /\ req'[q].version = req[q].version
               /\ req'[q].document = req[q].document /\ req'[q].indexed = req[q].indexed
               /\ req'[q] = req[q] \/ req'[q].step = "lost"
               /\ Active(q) => req'[q].step = "lost"
               /\ ~ Active(q) => req'[q] = req[q]
    <2> DEFINE n == [req[q] EXCEPT !.step = "lost"]
    <2>1. /\ n \in RequestState
          /\ n.step = "lost" /\ n.op = req[q].op /\ n.version = req[q].version
          /\ n.document = req[q].document /\ n.indexed = req[q].indexed
      BY Typed, StepNames DEF RequestState
    <2>2. req'[q] = IF Active(q) THEN n ELSE req[q]
      BY DEF Crash
    <2> HIDE DEF n
    <2> QED BY <2>1, <2>2, Typed
  <1>3. req' \in [Requests -> RequestState]
    <2>1. DOMAIN req' = Requests /\ req' = [q \in Requests |-> req'[q]]
      BY DEF Crash
    <2> QED BY <1>2, <2>1
  <1>4. CountersInv'
    <2>1. Drawn' = Drawn
      BY <1>2 DEF Drawn
    <2>2. lastDocument' <= lastVersion' /\ lastVersion' <= MaxEarlier + Cardinality(Drawn')
      BY <1>1, <2>1 DEF CountersInv
    <2>3. ASSUME NEW v \in Ids PROVE chunkSets'[v] <= 1 + Cardinality(Chunked(v)')
      <3> DEFINE C == Cardinality(Chunked(v))
                 D == Cardinality(Chunked(v)')
      <3> SUFFICES chunkSets'[v] <= 1 + D
        OBVIOUS
      <3>1. Chunked(v) \in SUBSET (Chunked(v)') /\ Chunked(v)' \in SUBSET Requests
        BY <1>2 DEF Chunked, At
      <3>2. C \in Nat /\ D \in Nat /\ C <= D
        BY <3>1, LargerCount
      <3>3. chunkSets'[v] \in Nat /\ chunkSets'[v] <= 1 + C
        BY <1>1, TablesTyped DEF CountersInv
      <3> HIDE DEF C, D
      <3> QED BY <3>2, <3>3
    <2> QED BY <2>2, <2>3 DEF CountersInv, Ids
  <1>5. RowsInv' /\ VersionsInv'
    BY <1>1, <1>2 DEF RowsInv, VersionsInv, Versions, Ids
  <1>6. ASSUME NEW q \in Requests PROVE RowsOf(q)' /\ CallOf(q)'
    <2>1. RowsOf(q) /\ CallOf(q)
      BY DEF IInv
    <2>2. CASE req'[q] = req[q] /\ ~ Active(q)
      <3>1. call'[q] = call[q] \/ req[q].step \in {"serverError", "lost"}
        BY <1>1, <2>1, <2>2, ActiveSteps, StepNames DEF CallOf
      <3>2. req[q].step \in {"idle", "done", "indexError", "serverError", "lost"}
        BY <2>2, ActiveSteps
      <3>3. RowsOf(q)'
        BY <1>1, <2>1, <2>2 DEF RowsOf, At
      <3>4. CallOf(q)'
        BY <1>1, <2>1, <2>2, <3>1, <3>2, StepNames DEF CallOf, At
      <3> QED BY <3>3, <3>4
    <2>3. CASE req'[q].step = "lost"
      <3>1. RowsOf(q)'
        BY <1>1, <1>2, <2>1, <2>3, StepNames DEF RowsOf, At
      <3>2. CallOf(q)'
        BY <1>1, <1>2, <2>1, <2>3, StepNames DEF CallOf, At
      <3> QED BY <3>1, <3>2
    <2> QED BY <1>2, <2>2, <2>3
  <1>7. AloneInv'
    <2>1. ASSUME NEW q \in alone PROVE AloneOf(q)' /\ OwnVersion(q)'
      <3>1. q \in Requests /\ req[q].step # "idle"
        BY <2>1, TablesTyped DEF AloneInv, AloneOf, At
      <3>2. req'[q].step \in {"done", "indexError", "serverError", "lost"}
        BY <1>2, <3>1, ActiveSteps
      <3> QED BY <3>1, <3>2, AnsweredAlone
    <2> QED BY <1>1, <2>1 DEF AloneInv
  <1>8. TypeOK'
    <2>1. DP!IInv' => Dispatcher!TypeOK'
      BY DispatchTyped, PTL
    <2>2. \A q \in Requests : ~ At(q, "dispatch")'
      BY <1>2, ActiveSteps DEF At
    <2> QED BY <1>1, <1>3, <2>1, <2>2 DEF TypeOK, Ids, RequestState
  <1> QED BY <1>1, <1>4, <1>5, <1>6, <1>7, <1>8 DEF IInv

LEMMA Inductive == IInv /\ [Next]_vars => IInv'
  <1> SUFFICES ASSUME IInv, [Next]_vars PROVE IInv'
    OBVIOUS
  <1>1. ASSUME NEW r \in Requests, OneMoves(r) PROVE IInv'
    BY <1>1, TypeStep, CallsOfOthers, CountersStep, RowsStep, VersionsStep, OwnRows, OwnCall,
       OthersKeep, AloneStep DEF IInv
  <1>2. CASE Crash
    BY <1>2, CrashKeeps
  <1>3. CASE UNCHANGED vars
    <2>1. DP!IInv'
      BY <1>3, DispatchIdle DEF IInv, vars
    <2>2. DP!IInv' => Dispatcher!TypeOK'
      BY DispatchTyped, PTL
    <2>3. /\ UNCHANGED <<lastDocument, lastVersion, source, documentOf, chunkSets, trail, req,
                         alone, log, call>>
      BY <1>3 DEF vars, rows, dispatchVars
    <2>4. TypeOK'
      BY <2>1, <2>2, <2>3
         DEF IInv, TypeOK, Ids, RequestState, At, Dispatcher!InProgress, Dispatcher!Ended
    <2>5. CountersInv' /\ RowsInv' /\ VersionsInv'
      BY <2>3 DEF IInv, CountersInv, RowsInv, VersionsInv, Drawn, Chunked, Versions, Ids, At
    <2>6. \A r \in Requests : RowsOf(r)' /\ CallOf(r)'
      BY <2>3 DEF IInv, RowsOf, CallOf, At
    <2>7. AloneInv'
      BY <2>3 DEF IInv, AloneInv, AloneOf, OwnVersion, At, Active, Documents, Ids
    <2> QED BY <2>1, <2>4, <2>5, <2>6, <2>7 DEF IInv
  <1> QED BY <1>1, <1>2, <1>3 DEF Next, OneMoves

LEMMA Initial == Init => IInv
  <1> SUFFICES ASSUME Init PROVE IInv
    OBVIOUS
  <1>1. DP!IInv /\ Dispatcher!TypeOK
    BY DispatchInitial, DispatchTyped DEF Init
  <1>2. \A r \in Requests : call[r].step = "new" /\ r \notin log
    BY DEF Init, Dispatcher!Init
  <1>3. /\ \A r \in Requests : req[r].step = "idle" /\ req[r].version = 0 /\ req[r].indexed = 0
        /\ req \in [Requests -> RequestState]
    <2>1. [step |-> "idle", op |-> "upload", source |-> NoSource, document |-> 0,
           version |-> 0, indexed |-> 0] \in RequestState
      BY StepNames DEF RequestState
    <2> QED BY <2>1 DEF Init
  <1>4. lastDocument \in Nat /\ lastVersion = lastDocument /\ lastDocument <= MaxEarlier
    BY MaxEarlierAssumption DEF Init
  <1>5. \A v \in Ids : v \in Nat /\ v # 0
    BY IdRange
  <1>6. /\ source \in [Ids -> Sources \cup {NoSource}]
        /\ documentOf \in [Ids -> Ids \cup {0}]
        /\ \A d \in Ids : source[d] # NoSource => d <= lastVersion
        /\ \A v \in Ids : documentOf[v] # 0 => documentOf[v] = v /\ v <= lastVersion
        /\ \A v \in Ids : v <= lastVersion => documentOf[v] = v
        /\ \A v \in Ids : chunkSets[v] \in {0, 1} /\ (v > lastVersion => chunkSets[v] = 0)
    BY <1>4, <1>5 DEF Init
  <1>7. TypeOK
    <2>1. lastDocument \in Ids \cup {0}
      BY <1>4, IdRange, MaxEarlierAssumption
    <2>2. chunkSets \in [Ids -> 0 .. 1 + Cardinality(Requests)]
      BY <1>6, IdRange DEF Init
    <2>3. trail \in [Ids -> {"none", "uploaded", "indexed", "index_failed",
                             "ingested_from_external_source"}]
      BY DEF Init
    <2> QED BY <1>1, <1>3, <1>4, <1>6, <2>1, <2>2, <2>3 DEF TypeOK, Init, At
  <1>8. CountersInv
    <2>1. ASSUME NEW S \in SUBSET Requests PROVE lastVersion <= MaxEarlier + Cardinality(S)
      BY <1>4, SubsetCount, MaxEarlierAssumption
    <2>2. ASSUME NEW v \in Ids, NEW S \in SUBSET Requests PROVE chunkSets[v] <= 1 + Cardinality(S)
      BY <1>6, SubsetCount
    <2>3. Drawn \in SUBSET Requests /\ \A v \in Ids : Chunked(v) \in SUBSET Requests
      BY DEF Drawn, Chunked
    <2> QED BY <1>4, <2>1, <2>2, <2>3 DEF CountersInv
  <1>9. RowsInv /\ VersionsInv
    <2>1. \A v \in Ids : chunkSets[v] > 0 => documentOf[v] # 0
      BY <1>4, <1>5, <1>6
    <2>2. \A d \in Ids : source[d] # NoSource => Versions(d) # {}
      BY <1>6 DEF Versions
    <2> QED BY <1>3, <1>4, <1>6, <2>1, <2>2 DEF RowsInv, VersionsInv
  <1>10. \A r \in Requests : RowsOf(r) /\ CallOf(r)
    BY <1>2, <1>3, StepNames DEF RowsOf, CallOf, At
  <1>11. AloneInv
    BY DEF Init, AloneInv
  <1> QED BY <1>1, <1>7, <1>8, <1>9, <1>10, <1>11 DEF IInv

-----------------------------------------------------------------------------
(* The theorems. *)

\* The rows, the requests and their publications stay consistent in every
\* behaviour: the inductive invariant.
THEOREM Invariance == Spec => []IInv
  BY Initial, Inductive, PTL DEF Spec

\* Ids stay within one document and one version per upload, and a request
\* waits for publish exactly while its publication runs.
THEOREM TypeCorrect == Spec => []TypeOK
  <1>1. IInv => TypeOK
    BY DEF IInv
  <1> QED BY Invariance, <1>1, PTL

\* No event document.indexed precedes the chunks it announces, and a success
\* answer comes after a completed dispatch, whatever fails or crashes.
THEOREM EventsFollowChunks == Spec => []AnnouncedChunksExist
  <1>1. ASSUME IInv PROVE AnnouncedChunksExist
    <2>1. ASSUME NEW r \in log PROVE chunkSets[req[r].indexed] > 0
      <3>1. r \in Requests
        BY <1>1, <2>1 DEF IInv, DP!IInv, DP!TablesType
      <3> QED BY <1>1, <2>1, <3>1 DEF IInv, CallOf
    <2>2. ASSUME NEW r \in Requests, At(r, "done") PROVE r \in log /\ Dispatcher!At(r, "returned")
      <3>1. call[r].step = "returned"
        BY <1>1, <2>2 DEF IInv, CallOf, At
      <3> QED BY <1>1, <3>1, CallFacts DEF IInv, Dispatcher!At
    <2> QED BY <2>1, <2>2 DEF AnnouncedChunksExist
  <1> QED BY Invariance, <1>1, PTL

\* A workflow that fails, however often, never turns an upload whose chunks
\* are committed into a 502.
THEOREM HandlersDoNotFailUploads == Spec => []HandlersCannotFailTheRequest
  <1>1. ASSUME IInv PROVE HandlersCannotFailTheRequest
    <2>1. ASSUME NEW r \in Requests, At(r, "indexError"), call[r].step # "new" PROVE r \in faulted
      <3>1. call[r].step = "raised"
        BY <1>1, <2>1 DEF IInv, CallOf, At
      <3> QED BY <1>1, <3>1, CallFacts DEF IInv
    <2> QED BY <2>1 DEF HandlersCannotFailTheRequest
  <1> QED BY Invariance, <1>1, PTL


LEMMA DocumentsFinite ==
  ASSUME NEW S \in SUBSET Ids
  PROVE  IsFiniteSet(S) /\ Cardinality(S) \in Nat
  <1>1. IsFiniteSet(Ids)
    BY IdRange, FS_Interval DEF Ids
  <1> QED BY <1>1, FS_Subset, FS_CardinalityType

\* A request that ran alone never adds a second document of a source.
LEMMA ShareStep ==
  ASSUME IInv, [Next]_vars, NEW r \in alone, NEW s \in Sources, At(r, "commit"), ~ At(r, "commit")',
         Cardinality(Documents(s)) <= 1
  PROVE  Cardinality(Documents(s)') <= 1
  <1> DEFINE C == Cardinality(Documents(s))
             D == Cardinality(Documents(s)')
  <1> SUFFICES D <= 1
    OBVIOUS
  <1>0. TypeOK /\ AloneInv /\ r \in Requests
    BY TablesTyped DEF IInv
  <1>1. Documents(s) \in SUBSET Ids /\ Documents(s)' \in SUBSET Ids
    BY DEF Documents, Ids
  <1>2. C \in Nat /\ D \in Nat /\ C <= 1
    BY <1>1, DocumentsFinite
  <1>3. ASSUME Documents(s)' \subseteq Documents(s) PROVE D <= 1
    <2>1. D <= C
      BY <1>1, <1>3, DocumentsFinite, FS_Subset
    <2> HIDE DEF C, D
    <2> QED BY <1>2, <2>1
  <1>4. CASE CommitIngest(r)
    <2>1. CASE s = req[r].source
      <3>1. Documents(s) \subseteq {req[r].document}
        BY <1>0, <2>1 DEF AloneInv, AloneOf, At
      <3>2. Documents(s)' \subseteq {req[r].document}
        BY <1>0, <1>4, <3>1, CommitFacts, TablesTyped DEF Documents, Ids
      <3>3. Cardinality({req[r].document}) = 1 /\ IsFiniteSet({req[r].document})
        BY FS_Singleton
      <3>4. D <= Cardinality({req[r].document})
        BY <3>2, <3>3, FS_Subset
      <3> HIDE DEF C, D
      <3> QED BY <3>3, <3>4
    <2>2. CASE s # req[r].source
      <3>1. Documents(s)' \subseteq Documents(s)
        BY <1>0, <1>4, <2>2, CommitFacts, TablesTyped DEF Documents, Ids
      <3> QED BY <1>3, <3>1
    <2> QED BY <2>1, <2>2
  <1>5. CASE ~ CommitIngest(r)
    <2>1. source' = source
      <3>1. CASE UNCHANGED vars
        BY <3>1 DEF vars, rows
      <3>2. CASE Crash
        BY <3>2 DEF Crash, rows
      <3>3. ASSUME NEW q \in Requests, OneMoves(q) PROVE source' = source
        <4>1. q = r
          BY <1>0, <3>3, OneMovesReq DEF At
        <4> QED BY <1>5, <3>3, <4>1
               DEF OneMoves, Advance, Begin, BeginUpload, BeginReindex, Starts, Find, Insert,
                   AuditUpload, ReadLatest, CommitChunks, IndexRaises, Publish, RunHandlers,
                   AuditFailed, AuditIndexed, AuditExternal, ServerError, rows
      <3> QED BY <3>1, <3>2, <3>3 DEF Next, OneMoves
    <2>2. Documents(s)' = Documents(s)
      BY <2>1 DEF Documents, Ids
    <2> QED BY <1>3, <2>2
  <1> QED BY <1>4, <1>5

\* Uploads one after the other share the document of their source.
THEOREM SerialUploadsShare == Spec => SerialUploadsShareADocument
  <1>1. IInv /\ [Next]_vars =>
          \A r \in alone, s \in Sources :
             At(r, "commit") /\ ~ At(r, "commit")' /\ Cardinality(Documents(s)) <= 1 =>
                Cardinality(Documents(s)') <= 1
    BY ShareStep
  <1> QED BY <1>1, Invariance, PTL DEF Spec, SerialUploadsShareADocument

\* A request that ran alone and succeeded has indexed its own version, once,
\* and the status of its document says so.
LEMMA OwnVersionIndexed ==
  ASSUME IInv, NEW r \in alone, At(r, "auditIndexed"), req[r].op # "reindex"
  PROVE  /\ req[r].indexed = req[r].version
         /\ chunkSets[req[r].version] = 1
         /\ Status(req[r].document) = "indexed"
  <1>0. TypeOK /\ AloneInv /\ RowsInv /\ r \in Requests
    BY TablesTyped DEF IInv
  <1>1. /\ req[r].version = lastVersion /\ req[r].version # 0
        /\ documentOf[req[r].version] = req[r].document
        /\ req[r].indexed = req[r].version /\ chunkSets[req[r].version] = 1
    BY <1>0 DEF AloneInv, OwnVersion, At
  <1>2. req[r].document # 0 /\ source[req[r].document] # NoSource
    BY <1>0, StepNames DEF IInv, RowsOf, At
  <1>3. req[r].document \in Ids /\ req[r].version \in Ids
    BY <1>0, <1>1, <1>2, Typed
  <1>4. /\ Latest(req[r].document) \in Ids
        /\ documentOf[Latest(req[r].document)] = req[r].document
        /\ req[r].version <= Latest(req[r].document)
    BY <1>0, <1>1, <1>2, <1>3, LatestVersion
  <1>5. Latest(req[r].document) <= lastVersion
    BY <1>0, <1>2, <1>4 DEF RowsInv
  <1>6. Latest(req[r].document) = req[r].version
    BY <1>1, <1>3, <1>4, <1>5, IdRange
  <1> QED BY <1>1, <1>6 DEF Status

\* A success of a request without company is about the text it was given.
THEOREM SerialUploadsIndex == Spec => SerialUploadsIndexOnce
  <1>1. IInv /\ [Next]_vars =>
          \A r \in alone :
             At(r, "auditIndexed") /\ ~ At(r, "auditIndexed")' /\ req[r].op # "reindex" =>
                /\ req[r].indexed = req[r].version
                /\ chunkSets[req[r].version] = 1
                /\ Status(req[r].document) = "indexed"
    BY OwnVersionIndexed
  <1> QED BY <1>1, Invariance, PTL DEF Spec, SerialUploadsIndexOnce

=============================================================================
