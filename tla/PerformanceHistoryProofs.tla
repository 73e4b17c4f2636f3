----------------------- MODULE PerformanceHistoryProofs -----------------------
(***************************************************************************)
(* Proofs about PerformanceHistory, for any requests, dates and figures.   *)
(*                                                                         *)
(* The argument: rows are only added (HistoryIsAppendOnly), the points of  *)
(* a request all at once, under a version nobody used for these dates      *)
(* (BaselinesInv); so what a summary has read of an author is all there    *)
(* will ever be of it (CurveOf).  Every author adds one to the highest     *)
(* version at most, which keeps the numbers in range.  A capture passes    *)
(* its insert only when the day has a row (CaptureOf), and the handler     *)
(* counts as handled only after a capture that has passed (CallOf).  Of    *)
(* the event machinery the proofs of EventDispatch are reused.             *)
(***************************************************************************)
EXTENDS PerformanceHistory, Sequences, FiniteSetTheorems, TLAPS

DP == INSTANCE EventDispatchProofs WITH
    Events <- Requests, Handlers <- {"capture"}, Workflows <- {},
    Registered <- [r \in Requests |-> <<"capture">>]

\* The points a request has inserted, and the requests that inserted points.
PointsBy(r) == {p \in baselines : p.author = r}
Authors == {r \in Requests : PointsBy(r) # {}}

\* A version has one value per date; an author's points bear one version and
\* are all of them there; versions grow by one per author at most.
BaselinesInv ==
    /\ \A p, q \in baselines : p.version = q.version /\ p.period = q.period => p = q
    /\ \A r \in Authors :
         /\ {p.period : p \in PointsBy(r)} = req[r].points
         /\ \A p, q \in PointsBy(r) : p.version = q.version
    /\ \A p \in baselines : p.version <= 1 + Cardinality(Authors)

\* A request that authors a baseline, up to the insert.
AuthorOf(r) ==
    /\ At(r, "idle") => req[r] = Idle
    /\ req[r].step \in {"idle", "max", "insertPoints"} => r \notin Authors
    /\ req[r].step \in {"max", "insertPoints", "announce", "dispatch"} => req[r].op = "author"
    /\ req[r].step \in {"activeVersion", "points"} => req[r].op = "summary"
    /\ req[r].step \in {"max", "insertPoints"} => req[r].points # {}
    /\ At(r, "insertPoints") => req[r].version # 0 /\ req[r].version <= 2 + Cardinality(Authors)

\* What a summary has read is what is there: of an author, everything.
CurveOf(r) ==
    \A p \in req[r].curve :
        /\ p \in baselines
        /\ \A q \in req[r].curve : q.version = p.version
        /\ p.author \in Requests => PointsBy(p.author) \subseteq req[r].curve

\* A capture knows a day and figures; when it announces, the day has a row.
CaptureOf(r) ==
    /\ req[r].copied # Null => figures # Null
    /\ req[r].step \in {"find", "insertSnapshot", "announceCapture"} =>
         req[r].day # Null /\ req[r].copied # Null
    /\ At(r, "announceCapture") => snapshots[req[r].day] # Null
    /\ 1 \in handled[r] /\ req[r].copied # Null =>
         req[r].day # Null /\ snapshots[req[r].day] # Null

\* Where the publication of a request's event is.
CallOf(r) ==
    /\ (\/ req[r].step \in {"idle", "max", "insertPoints", "announce"}
        \/ req[r].op # "author" /\ req[r].step \notin Answers) =>
          call[r].step = "new" /\ call[r].handler = 1 /\ handled[r] = {}
    /\ req[r].op = "author" /\ req[r].step \in Capturing =>
         call[r].step = "call" /\ call[r].handler = 1 /\ handled[r] = {}
    /\ At(r, "dispatch") =>
         \/ call[r].step = "call" /\ call[r].handler = 2
         \/ call[r].step = "deadLetter" /\ call[r].handler = 1 /\ handled[r] = {}

\* A request that runs alone is the only active one, and its version is new.
AloneOf(r) ==
    /\ ~ At(r, "idle")
    /\ Active(r) => \A q \in Requests \ {r} : ~ Active(q)
    /\ At(r, "insertPoints") => req[r].version = MaxVersion + 1

IInv ==
    /\ TypeOK
    /\ DP!IInv
    /\ BaselinesInv
    /\ \A r \in Requests : AuthorOf(r) /\ CurveOf(r) /\ CaptureOf(r) /\ CallOf(r)
    /\ \A r \in alone : AloneOf(r)

-----------------------------------------------------------------------------
(* The event machinery, as EventDispatchProofs has it. *)

\* Module EventDispatch is the same one under both names.
LEMMA SameActions ==
    /\ \A r \in Requests : Dispatcher!Persist(r) <=> DP!Persist(r)
    /\ \A r \in Requests : Dispatcher!PersistRaises(r) <=> DP!PersistRaises(r)
    /\ \A r \in Requests : Dispatcher!Dispatch(r) <=> DP!Dispatch(r)
    /\ Dispatcher!Crash <=> DP!Crash
    /\ Dispatcher!TypeOK <=> DP!TypeOK
    /\ Dispatcher!Init <=> DP!Init
  <1>1. /\ \A r \in Requests : Dispatcher!Persist(r) <=> DP!Persist(r)
        /\ \A r \in Requests : Dispatcher!PersistRaises(r) <=> DP!PersistRaises(r)
    BY DEF Dispatcher!Persist, DP!Persist, Dispatcher!PersistRaises, DP!PersistRaises,
           Dispatcher!At, DP!At, Dispatcher!Goto, DP!Goto, Dispatcher!InDoubt, DP!InDoubt
  <1>2. \A r \in Requests : Dispatcher!Dispatch(r) <=> DP!Dispatch(r)
    BY DEF Dispatcher!Dispatch, DP!Dispatch,
           Dispatcher!PlainReturns, DP!PlainReturns, Dispatcher!PlainRaises, DP!PlainRaises,
           Dispatcher!RecordDeadLetter, DP!RecordDeadLetter,
           Dispatcher!DeadLetterRaises, DP!DeadLetterRaises, Dispatcher!Return, DP!Return,
           Dispatcher!Start, DP!Start, Dispatcher!StartRaises, DP!StartRaises,
           Dispatcher!StepsReturn, DP!StepsReturn, Dispatcher!StepRaises, DP!StepRaises,
           Dispatcher!Complete, DP!Complete, Dispatcher!CompleteRaises, DP!CompleteRaises,
           Dispatcher!RecordFailure, DP!RecordFailure,
           Dispatcher!RecordFailureRaises, DP!RecordFailureRaises,
           Dispatcher!At, DP!At, Dispatcher!Goto, DP!Goto, Dispatcher!HasHandler, DP!HasHandler,
           Dispatcher!Current, DP!Current, Dispatcher!InDoubt, DP!InDoubt,
           Dispatcher!WithStatus, DP!WithStatus, Dispatcher!NextHandler, DP!NextHandler,
           Dispatcher!HandlerRaised, DP!HandlerRaised,
           Dispatcher!HandlerReturned, DP!HandlerReturned
  <1>3. Dispatcher!Crash <=> DP!Crash
    BY DEF Dispatcher!Crash, DP!Crash, Dispatcher!InProgress, DP!InProgress,
           Dispatcher!Ended, DP!Ended
  <1>4. (Dispatcher!TypeOK <=> DP!TypeOK) /\ (Dispatcher!Init <=> DP!Init)
    BY DEF Dispatcher!TypeOK, DP!TypeOK, Dispatcher!CallState, DP!CallState, Dispatcher!Steps,
           DP!Steps, Dispatcher!Ended, DP!Ended, Dispatcher!Statuses, DP!Statuses,
           Dispatcher!Init, DP!Init
  <1> QED BY <1>1, <1>2, <1>3, <1>4

\* What EventDispatch assumes holds of its instance: one plain handler.
LEMMA DispatchAssumptions ==
    /\ {} \subseteq {"capture"}
    /\ [r \in Requests |-> <<"capture">>] \in [Requests -> Seq({"capture"})]
    /\ \A e \in Requests : \A j, k \in DOMAIN ([r \in Requests |-> <<"capture">>])[e] :
          ([r \in Requests |-> <<"capture">>])[e][j] = ([r \in Requests |-> <<"capture">>])[e][k]
            => j = k
    /\ MaxAttempts \in Nat \ {0}
  BY AttemptsAssumption

LEMMA DispatchInitial == Dispatcher!Init => DP!IInv
  BY DP!Initial, DispatchAssumptions, SameActions

LEMMA DispatchTyped == DP!IInv => Dispatcher!TypeOK
  <1>1. DP!IInv => DP!TypeOK
    BY DEF DP!IInv, DP!TablesType, DP!EventType, DP!TypeOK
  <1> QED BY <1>1, SameActions

LEMMA DispatchIdle ==
  ASSUME DP!IInv, UNCHANGED dispatchVars
  PROVE  DP!IInv'
  <1>1. UNCHANGED DP!vars
    BY DEF dispatchVars, DP!vars
  <1> QED BY <1>1, DP!Inductive, DispatchAssumptions

\* A step of the event machinery for the event of r leaves the other events alone.
LEMMA DispatchStep ==
  ASSUME DP!IInv, NEW r \in Requests,
         Dispatcher!Persist(r) \/ Dispatcher!PersistRaises(r) \/ Dispatcher!Dispatch(r)
  PROVE  /\ DP!IInv'
         /\ \A q \in Requests \ {r} : call'[q] = call[q] /\ handled'[q] = handled[q]
  <1>1. DP!Persist(r) \/ DP!PersistRaises(r) \/ DP!Dispatch(r)
    BY SameActions
  <1>2. DP!IInv'
    BY <1>1, DP!Inductive, DispatchAssumptions DEF DP!Next
  <1>3. ASSUME NEW q \in Requests, q # r
        PROVE  call'[q] = call[q] /\ handled'[q] = handled[q]
    BY <1>1, <1>3, DP!Others, DispatchAssumptions
  <1> QED BY <1>2, <1>3

LEMMA DispatchCrash ==
  ASSUME DP!IInv, Dispatcher!Crash
  PROVE  /\ DP!IInv'
         /\ handled' = handled
         /\ \A q \in Requests : call[q].step = "new" => call'[q] = call[q]
  <1>1. DP!IInv'
    BY SameActions, DP!Inductive, DispatchAssumptions DEF DP!Next
  <1>2. /\ handled' = handled
        /\ \A q \in Requests : call[q].step = "new" => call'[q] = call[q]
    BY DEF Dispatcher!Crash, Dispatcher!InProgress, Dispatcher!Ended
  <1> QED BY <1>1, <1>2

LEMMA OneHandler ==
  ASSUME NEW r \in Requests
  PROVE  /\ [q \in Requests |-> <<"capture">>][r] = <<"capture">>
         /\ Len([q \in Requests |-> <<"capture">>][r]) = 1
         /\ (Dispatcher!HasHandler(r) <=> call[r].handler <= 1)
  BY DEF Dispatcher!HasHandler

\* What the dispatcher's invariant says of one publication.
LEMMA CallFacts ==
  ASSUME DP!IInv, NEW r \in Requests
  PROVE  /\ DOMAIN call = Requests /\ call = [q \in Requests |-> call[q]]
         /\ DOMAIN handled = Requests /\ handled = [q \in Requests |-> handled[q]]
         /\ DOMAIN call[r] = {"step", "handler", "attempt"}
         /\ call[r].step \in {"new", "call", "steps", "complete", "fail", "deadLetter",
                              "returned", "raised", "lost"}
         /\ call[r].handler \in {1, 2}
         /\ call[r].step = "deadLetter" => call[r].handler = 1
  BY OneHandler DEF DP!IInv, DP!TablesType, DP!EventType, DP!CallState, DP!Steps, DP!Ended

\* Where publish is afterwards.
LEMMA PersistStep ==
  ASSUME DP!IInv, NEW r \in Requests, Dispatcher!Persist(r)
  PROVE  /\ call[r].step = "new"
         /\ call'[r].step = "call" /\ call'[r].handler = call[r].handler /\ handled' = handled
  BY CallFacts DEF Dispatcher!Persist, Dispatcher!Goto, Dispatcher!At

LEMMA PlainReturnsStep ==
  ASSUME DP!IInv, NEW r \in Requests, Dispatcher!PlainReturns(r)
  PROVE  call'[r].step = "call" /\ call'[r].handler = call[r].handler + 1
  BY CallFacts DEF Dispatcher!PlainReturns, Dispatcher!HandlerReturned, Dispatcher!NextHandler

LEMMA PlainRaisesStep ==
  ASSUME DP!IInv, NEW r \in Requests, Dispatcher!PlainRaises(r)
  PROVE  /\ call'[r].step \in {"call", "deadLetter"} /\ call'[r].handler = call[r].handler
         /\ handled' = handled
  BY CallFacts DEF Dispatcher!PlainRaises, Dispatcher!HandlerRaised, Dispatcher!Goto

LEMMA DeadLetterStep ==
  ASSUME DP!IInv, NEW r \in Requests, Dispatcher!RecordDeadLetter(r)
  PROVE  /\ call'[r].step = "call" /\ call'[r].handler = 2 /\ handled' = handled
  BY CallFacts DEF Dispatcher!RecordDeadLetter, Dispatcher!NextHandler, Dispatcher!At

LEMMA AreDispatches ==
  ASSUME NEW r \in Requests,
         Dispatcher!PlainReturns(r) \/ Dispatcher!PlainRaises(r) \/ Dispatcher!Return(r)
           \/ Dispatcher!RecordDeadLetter(r) \/ Dispatcher!DeadLetterRaises(r)
  PROVE  Dispatcher!Dispatch(r)
  BY DEF Dispatcher!Dispatch


-----------------------------------------------------------------------------
(* Counts, and the shape of a request. *)

LEMMA SubsetCount ==
  ASSUME NEW S \in SUBSET Requests
  PROVE  /\ IsFiniteSet(S) /\ Cardinality(S) \in Nat
         /\ Cardinality(S) <= Cardinality(Requests)
  BY RequestsAssumption, FS_Subset, FS_CardinalityType

LEMMA OneMoreCounts ==
  ASSUME NEW S \in SUBSET Requests, NEW r \in Requests, r \notin S
  PROVE  /\ Cardinality(S \cup {r}) = Cardinality(S) + 1
         /\ Cardinality(S) + 1 <= Cardinality(Requests)
  <1>1. Cardinality(S \cup {r}) = Cardinality(S) + 1
    BY SubsetCount, FS_AddElement
  <1>2. S \cup {r} \in SUBSET Requests
    OBVIOUS
  <1> QED BY <1>1, <1>2, SubsetCount

\* A nonempty set of numbers up to a bound has a highest element: the bound
\* less the least distance from it.
LEMMA MaxOf ==
  ASSUME NEW bound \in Nat, NEW S \in SUBSET (0 .. bound), S # {}
  PROVE  Max(S) \in S /\ \A x \in S : x <= Max(S)
  <1> DEFINE R == OpToRel(<, Nat)
             T == {n \in Nat : bound - n \in S}
  <1>1. IsWellFoundedOn(R, Nat)
    BY NatLessThanWellFounded
  <1>2. \A x, y \in Nat : x < y => <<x, y>> \in R
    BY DEF OpToRel
  <1>3. T \subseteq Nat /\ T # {}
    <2>1. PICK s \in S : TRUE
      OBVIOUS
    <2>2. bound - s \in Nat /\ bound - (bound - s) = s
      OBVIOUS
    <2> QED BY <2>1, <2>2
  <1> HIDE DEF R, T
  <1>4. PICK n \in T : \A m \in T : <<m, n>> \notin R
    BY <1>1, <1>3, WFMin
  <1>5. bound - n \in S
    BY DEF T
  <1>6. ASSUME NEW x \in S PROVE x <= bound - n
    <2>1. bound - x \in T
      <3>1. bound - x \in Nat /\ bound - (bound - x) = x
        OBVIOUS
      <3> QED BY <3>1 DEF T
    <2>2. ~ (bound - x < n)
      BY <1>2, <1>3, <1>4, <2>1
    <2> QED BY <1>3, <2>2
  <1>7. \E x \in S : \A y \in S : x >= y
    BY <1>3, <1>5, <1>6
  <1> QED BY <1>7 DEF Max

LEMMA StepNames ==
    /\ \A s : s \in Steps <=>
          s \in {"idle", "max", "insertPoints", "announce", "dispatch", "project", "find",
                 "insertSnapshot", "announceCapture", "activeVersion", "points"}
          \/ s \in Answers
    /\ Answers = {"done", "serverError", "lost"}
    /\ Ops = {"author", "capture", "summary"}
    /\ Capturing = {"project", "find", "insertSnapshot", "announceCapture"}
  BY DEF Steps, Answers, Ops, Capturing

LEMMA VersionRange ==
    /\ Cardinality(Requests) \in Nat
    /\ Versions = {v \in Nat : 1 <= v /\ v <= 1 + Cardinality(Requests)}
    /\ 0 \notin Versions
  BY RequestsAssumption, FS_CardinalityType DEF Versions

LEMMA Typed ==
  ASSUME TypeOK, NEW r \in Requests
  PROVE  /\ DOMAIN req = Requests
         /\ req[r] \in RequestState
         /\ DOMAIN req[r] = {"step", "op", "points", "version", "day", "copied", "curve"}
         /\ req[r].step \in Steps /\ req[r].op \in Ops
         /\ req[r].points \subseteq Periods
         /\ req[r].version \in Versions \cup {0}
         /\ req[r].day \in Days \cup {Null} /\ req[r].copied \in Figures \cup {Null}
         /\ req[r].curve \subseteq Point
  BY DEF TypeOK, RequestState

LEMMA PointTyped ==
  ASSUME TypeOK, NEW p \in baselines
  PROVE  /\ p \in Point /\ DOMAIN p = {"version", "period", "author"}
         /\ p.version \in Versions /\ p.period \in Periods
         /\ p.author \in Requests \cup {Earlier}
  BY DEF TypeOK, Point

\* The highest version is one of a baseline that is there, or 0.
LEMMA MaxVersionIs ==
  ASSUME TypeOK
  PROVE  /\ MaxVersion \in Versions \cup {0}
         /\ MaxVersion # 0 => \E p \in baselines : p.version = MaxVersion
         /\ \A p \in baselines : p.version <= MaxVersion
  <1> DEFINE S == {0} \cup {p.version : p \in baselines}
  <1>1. S \in SUBSET (0 .. 1 + Cardinality(Requests)) /\ S # {}
    BY PointTyped, VersionRange
  <1>2. MaxVersion = Max(S)
    BY DEF MaxVersion
  <1>3. 1 + Cardinality(Requests) \in Nat
    BY VersionRange
  <1> HIDE DEF S
  <1>4. Max(S) \in S /\ \A x \in S : x <= Max(S)
    BY <1>1, <1>3, MaxOf
  <1> QED BY <1>2, <1>4, PointTyped DEF S

\* The fields of a request that takes the state n.
LEMMA BecomesFields ==
  ASSUME TypeOK, NEW r \in Requests, NEW n \in RequestState, req' = [req EXCEPT ![r] = n]
  PROVE  /\ req'[r] = n
         /\ \A q \in Requests \ {r} : req'[q] = req[q]
         /\ req' \in [Requests -> RequestState]
  BY DEF TypeOK

\* The fields of a request that moves to another step.
LEMMA GotoFields ==
  ASSUME TypeOK, NEW r \in Requests, NEW s \in Steps, Goto(r, s)
  PROVE  /\ req'[r].step = s /\ req'[r].op = req[r].op /\ req'[r].points = req[r].points
         /\ req'[r].version = req[r].version /\ req'[r].day = req[r].day
         /\ req'[r].copied = req[r].copied /\ req'[r].curve = req[r].curve
         /\ \A q \in Requests \ {r} : req'[q] = req[q]
         /\ req' \in [Requests -> RequestState]
  <1> DEFINE n == [req[r] EXCEPT !.step = s]
  <1>1. /\ n \in RequestState
        /\ n.step = s /\ n.op = req[r].op /\ n.points = req[r].points
        /\ n.version = req[r].version /\ n.day = req[r].day
        /\ n.copied = req[r].copied /\ n.curve = req[r].curve
    BY Typed DEF RequestState
  <1>2. req' = [req EXCEPT ![r] = n]
    BY DEF Goto
  <1> HIDE DEF n
  <1> QED BY <1>1, <1>2, BecomesFields

\* An answered request has forgotten all but its points.
LEMMA AnsweredIs ==
  ASSUME TypeOK, NEW r \in Requests, NEW a \in Answers
  PROVE  /\ Answered(r, a) \in RequestState
         /\ Answered(r, a).step = a /\ Answered(r, a).op = "capture"
         /\ Answered(r, a).points = req[r].points /\ Answered(r, a).version = 0
         /\ Answered(r, a).day = Null /\ Answered(r, a).copied = Null
         /\ Answered(r, a).curve = {}
  BY Typed, StepNames DEF Answered, Idle, RequestState

LEMMA AnswerFields ==
  ASSUME TypeOK, NEW r \in Requests, NEW a \in Answers, Answer(r, a)
  PROVE  /\ req'[r] = Answered(r, a)
         /\ req'[r].step = a /\ req'[r].op = "capture" /\ req'[r].points = req[r].points
         /\ req'[r].copied = Null /\ req'[r].curve = {}
         /\ \A q \in Requests \ {r} : req'[q] = req[q]
         /\ req' \in [Requests -> RequestState]
  <1> DEFINE n == Answered(r, a)
  <1>1. req' = [req EXCEPT ![r] = n]
    BY DEF Answer
  <1>2. /\ n \in RequestState
        /\ n.step = a /\ n.op = "capture" /\ n.points = req[r].points
        /\ n.copied = Null /\ n.curve = {}
    BY AnsweredIs
  <1> HIDE DEF n
  <1>3. /\ req'[r] = n
        /\ \A q \in Requests \ {r} : req'[q] = req[q]
        /\ req' \in [Requests -> RequestState]
    BY <1>1, <1>2, BecomesFields
  <1> QED BY <1>2, <1>3 DEF n


-----------------------------------------------------------------------------
(* What each action does to the fields of its request. *)

LEMMA BeginFields ==
  ASSUME IInv, NEW r \in Requests, Begin(r)
  PROVE  /\ req[r].step = "idle" /\ r \notin Authors
         /\ \/ req'[r].step = "max" /\ req'[r].op = "author" /\ req'[r].points # {}
            \/ req'[r].step = "project" /\ req'[r].op = "capture"
            \/ req'[r].step = "activeVersion" /\ req'[r].op = "summary"
         /\ req'[r].copied = Null /\ req'[r].curve = {}
         /\ \A q \in Requests \ {r} : req'[q] = req[q]
         /\ req' \in [Requests -> RequestState]
         /\ UNCHANGED <<figures, rows, dispatchVars>>
  <1> DEFINE Goal ==
               /\ \/ req'[r].step = "max" /\ req'[r].op = "author" /\ req'[r].points # {}
                  \/ req'[r].step = "project" /\ req'[r].op = "capture"
                  \/ req'[r].step = "activeVersion" /\ req'[r].op = "summary"
               /\ req'[r].copied = Null /\ req'[r].curve = {}
               /\ \A q \in Requests \ {r} : req'[q] = req[q]
               /\ req' \in [Requests -> RequestState]
  <1>0. TypeOK /\ AuthorOf(r)
    BY DEF IInv
  <1>1. req[r].step = "idle"
    BY DEF Begin, BeginAuthor, BeginCapture, BeginSummary, Starts, At
  <1>2. /\ r \notin Authors /\ req[r].op = "capture"
        /\ req[r].copied = Null /\ req[r].curve = {}
    BY <1>0, <1>1 DEF AuthorOf, At, Idle
  <1>3. ASSUME NEW periods \in (SUBSET Periods) \ {{}}, BeginAuthor(r, periods) PROVE Goal
    <2> DEFINE n == [req[r] EXCEPT !.step = "max", !.op = "author", !.points = periods]
    <2>1. n \in RequestState
      BY <1>0, Typed, StepNames DEF RequestState
    <2>2. /\ n.step = "max" /\ n.op = "author" /\ n.points = periods
          /\ n.copied = req[r].copied /\ n.curve = req[r].curve
      BY <1>0, Typed
    <2>3. req' = [req EXCEPT ![r] = n]
      BY <1>3 DEF BeginAuthor, Starts
    <2>4. periods # {}
      OBVIOUS
    <2> HIDE DEF n
    <2>5. /\ req'[r] = n
          /\ \A q \in Requests \ {r} : req'[q] = req[q]
          /\ req' \in [Requests -> RequestState]
      BY <1>0, <2>1, <2>3, BecomesFields
    <2> QED BY <1>2, <2>2, <2>4, <2>5
  <1>4. ASSUME BeginCapture(r) PROVE Goal
    <2> DEFINE n == [req[r] EXCEPT !.step = "project"]
    <2>1. /\ n \in RequestState /\ n.step = "project" /\ n.op = "capture"
          /\ n.copied = Null /\ n.curve = {}
      BY <1>0, <1>2, Typed, StepNames DEF RequestState
    <2>2. req' = [req EXCEPT ![r] = n]
      BY <1>4 DEF BeginCapture, Starts
    <2> HIDE DEF n
    <2> QED BY <1>0, <2>1, <2>2, BecomesFields
  <1>5. ASSUME BeginSummary(r) PROVE Goal
    <2> DEFINE n == [req[r] EXCEPT !.step = "activeVersion", !.op = "summary"]
    <2>1. n \in RequestState
      BY <1>0, Typed, StepNames DEF RequestState
    <2>2. /\ n.step = "activeVersion" /\ n.op = "summary"
          /\ n.copied = req[r].copied /\ n.curve = req[r].curve
      BY <1>0, Typed
    <2>3. req' = [req EXCEPT ![r] = n]
      BY <1>5 DEF BeginSummary, Starts
    <2> HIDE DEF n
    <2> QED BY <1>0, <1>2, <2>1, <2>2, <2>3, BecomesFields
  <1>6. UNCHANGED <<figures, rows, dispatchVars>>
    BY DEF Begin, BeginAuthor, BeginCapture, BeginSummary, Starts
  <1>7. Goal
    BY <1>3, <1>4, <1>5 DEF Begin
  <1> QED BY <1>1, <1>2, <1>6, <1>7

\* There is a version for every author.
LEMMA VersionIsPossible ==
  ASSUME IInv, NEW r \in Requests, At(r, "max")
  PROVE  MaxVersion + 1 \in Versions /\ MaxVersion + 1 <= 2 + Cardinality(Authors)
  <1>1. r \notin Authors /\ Authors \in SUBSET Requests
    BY DEF IInv, AuthorOf, Authors, At
  <1>2. Cardinality(Authors) \in Nat /\ Cardinality(Authors) + 1 <= Cardinality(Requests)
    BY <1>1, OneMoreCounts, SubsetCount
  <1>3. MaxVersion \in Nat /\ MaxVersion <= 1 + Cardinality(Authors)
    <2>1. TypeOK /\ \A p \in baselines : p.version <= 1 + Cardinality(Authors)
      BY DEF IInv, BaselinesInv
    <2>2. CASE MaxVersion = 0
      BY <1>2, <2>2
    <2>3. CASE MaxVersion # 0
      BY <2>1, <2>3, MaxVersionIs, VersionRange
    <2> QED BY <2>2, <2>3
  <1> HIDE DEF Authors
  <1> QED BY <1>2, <1>3, VersionRange

LEMMA ReadMaxFields ==
  ASSUME IInv, NEW r \in Requests, ReadMax(r)
  PROVE  /\ req[r].step = "max"
         /\ req'[r].step = "insertPoints" /\ req'[r].op = req[r].op
         /\ req'[r].points = req[r].points /\ req'[r].version = MaxVersion + 1
         /\ req'[r].copied = req[r].copied /\ req'[r].day = req[r].day
         /\ req'[r].curve = req[r].curve
         /\ \A q \in Requests \ {r} : req'[q] = req[q]
         /\ req' \in [Requests -> RequestState]
  <1> DEFINE m == MaxVersion + 1
             n == [req[r] EXCEPT !.step = "insertPoints", !.version = m]
  <1>0. TypeOK /\ req[r].step = "max"
    BY DEF IInv, ReadMax, At
  <1>1. m \in Versions
    BY VersionIsPossible DEF ReadMax
  <1>2. req' = [req EXCEPT ![r] = n]
    BY <1>0, Typed DEF ReadMax
  <1> HIDE DEF m
  <1>3. /\ n \in RequestState
        /\ n.step = "insertPoints" /\ n.op = req[r].op /\ n.points = req[r].points
        /\ n.version = m /\ n.copied = req[r].copied /\ n.day = req[r].day
        /\ n.curve = req[r].curve
    BY <1>0, <1>1, Typed, StepNames DEF RequestState
  <1> HIDE DEF n
  <1>4. /\ req'[r] = n
        /\ \A q \in Requests \ {r} : req'[q] = req[q]
        /\ req' \in [Requests -> RequestState]
    BY <1>0, <1>2, <1>3, BecomesFields
  <1> QED BY <1>0, <1>3, <1>4 DEF m

LEMMA ReadProjectFields ==
  ASSUME IInv, NEW r \in Requests, NEW d \in Days, ReadProject(r, d)
  PROVE  /\ req[r].step = "project" /\ figures # Null
         /\ req'[r].step = "find" /\ req'[r].op = req[r].op
         /\ req'[r].points = req[r].points /\ req'[r].version = req[r].version
         /\ req'[r].copied = figures /\ req'[r].day = d
         /\ req'[r].curve = req[r].curve
         /\ \A q \in Requests \ {r} : req'[q] = req[q]
         /\ req' \in [Requests -> RequestState]
  <1> DEFINE n == [req[r] EXCEPT !.step = "find", !.copied = figures, !.day = d]
  <1>0. TypeOK /\ req[r].step = "project" /\ figures # Null /\ figures \in Figures \cup {Null}
    BY DEF IInv, TypeOK, ReadProject, At
  <1>1. /\ n \in RequestState
        /\ n.step = "find" /\ n.op = req[r].op /\ n.points = req[r].points
        /\ n.version = req[r].version /\ n.copied = figures /\ n.day = d
        /\ n.curve = req[r].curve
    BY <1>0, Typed, StepNames DEF RequestState
  <1>2. req' = [req EXCEPT ![r] = n]
    BY <1>0, Typed DEF ReadProject
  <1> HIDE DEF n
  <1>3. /\ req'[r] = n
        /\ \A q \in Requests \ {r} : req'[q] = req[q]
        /\ req' \in [Requests -> RequestState]
    BY <1>0, <1>1, <1>2, BecomesFields
  <1> QED BY <1>0, <1>1, <1>3

\* A summary reads the version, then the points: it has read none before.
LEMMA ReadActiveVersionFields ==
  ASSUME IInv, NEW r \in Requests, ReadActiveVersion(r), baselines # {}
  PROVE  /\ req[r].step = "activeVersion"
         /\ req'[r].step = "points" /\ req'[r].op = req[r].op
         /\ req'[r].points = req[r].points /\ req'[r].version = MaxVersion
         /\ req'[r].copied = req[r].copied /\ req'[r].day = req[r].day
         /\ req'[r].curve = req[r].curve
         /\ \A q \in Requests \ {r} : req'[q] = req[q]
         /\ req' \in [Requests -> RequestState]
  <1> DEFINE m == MaxVersion
             n == [req[r] EXCEPT !.step = "points", !.version = m]
  <1>0. TypeOK /\ req[r].step = "activeVersion"
    BY DEF IInv, ReadActiveVersion, At
  <1>1. m \in Versions \cup {0}
    BY <1>0, MaxVersionIs
  <1>2. req' = [req EXCEPT ![r] = n]
    BY <1>0, Typed DEF ReadActiveVersion
  <1> HIDE DEF m
  <1>3. /\ n \in RequestState
        /\ n.step = "points" /\ n.op = req[r].op /\ n.points = req[r].points
        /\ n.version = m /\ n.copied = req[r].copied /\ n.day = req[r].day
        /\ n.curve = req[r].curve
    BY <1>0, <1>1, Typed, StepNames DEF RequestState
  <1> HIDE DEF n
  <1>4. /\ req'[r] = n
        /\ \A q \in Requests \ {r} : req'[q] = req[q]
        /\ req' \in [Requests -> RequestState]
    BY <1>0, <1>2, <1>3, BecomesFields
  <1> QED BY <1>0, <1>3, <1>4 DEF m

LEMMA ReadPointsFields ==
  ASSUME IInv, NEW r \in Requests, ReadPoints(r)
  PROVE  /\ req[r].step = "points"
         /\ req'[r].step = "done" /\ req'[r].op = "capture" /\ req'[r].points = req[r].points
         /\ req'[r].copied = Null
         /\ req'[r].curve = {p \in baselines : p.version = req[r].version}
         /\ \A q \in Requests \ {r} : req'[q] = req[q]
         /\ req' \in [Requests -> RequestState]
  <1> DEFINE c == {p \in baselines : p.version = req[r].version}
             a == Answered(r, "done")
             n == [a EXCEPT !.curve = c]
  <1>0. TypeOK /\ req[r].step = "points" /\ c \subseteq Point
    BY DEF IInv, TypeOK, ReadPoints, At
  <1>1. req' = [req EXCEPT ![r] = n]
    BY <1>0, Typed DEF ReadPoints
  <1>2. /\ a \in RequestState /\ a.step = "done" /\ a.op = "capture"
        /\ a.points = req[r].points /\ a.copied = Null
    BY <1>0, AnsweredIs, StepNames
  <1> HIDE DEF c, a
  <1>3. /\ n \in RequestState
        /\ n.step = "done" /\ n.op = "capture" /\ n.points = req[r].points
        /\ n.copied = Null /\ n.curve = c
    BY <1>0, <1>2 DEF RequestState
  <1> HIDE DEF n
  <1>4. /\ req'[r] = n
        /\ \A q \in Requests \ {r} : req'[q] = req[q]
        /\ req' \in [Requests -> RequestState]
    BY <1>0, <1>1, <1>3, BecomesFields
  <1> QED BY <1>0, <1>3, <1>4 DEF c


-----------------------------------------------------------------------------
(* One request moves: rows are added and the other requests stay. *)

OneMoves(r) == Begin(r) \/ Advance(r) \/ CaptureRaises(r) \/ ServerError(r)

\* capture_snapshot is left by an answer, or to the dispatcher.
LEMMA CaptureEnds ==
  ASSUME IInv, NEW r \in Requests, Leave(r) \/ Raise(r)
  PROVE  \/ (Answer(r, "done") \/ Answer(r, "serverError")) /\ UNCHANGED dispatchVars
         \/ /\ Goto(r, "dispatch") \/ Goto(r, "project")
            /\ Dispatcher!PlainReturns(r) \/ Dispatcher!PlainRaises(r)
            /\ req[r].op = "author"
  BY DEF Leave, Raise

\* The ways the fields of a request change; only an author announces.
GotoTargets == {"announce", "dispatch", "project", "insertSnapshot", "announceCapture", "done"}

LEMMA Shapes ==
  ASSUME IInv, NEW r \in Requests, OneMoves(r)
  PROVE  \/ Begin(r) \/ ReadMax(r) \/ \E d \in Days : ReadProject(r, d)
         \/ (ReadActiveVersion(r) /\ baselines # {})
         \/ ReadPoints(r)
         \/ \E a \in Answers : Answer(r, a)
         \/ \E s \in GotoTargets :
               Goto(r, s) /\ (s \in {"announce", "dispatch"} => req[r].op = "author")
  <1> DEFINE Goes == \E s \in GotoTargets :
                        Goto(r, s) /\ (s \in {"announce", "dispatch"} => req[r].op = "author")
             Goal == (\E a \in Answers : Answer(r, a)) \/ Goes
  <1>0. AuthorOf(r)
    BY DEF IInv
  <1>1. "done" \in Answers /\ "serverError" \in Answers
    BY StepNames
  <1>2. CASE Leave(r) \/ Raise(r)
    BY <1>1, <1>2, CaptureEnds DEF GotoTargets
  <1>3. CASE RejectPoints(r) \/ ServerError(r)
    <2>1. Goal
      BY <1>1, <1>3 DEF RejectPoints, ServerError
    <2> QED BY <2>1
  <1>4. CASE InsertPoints(r) \/ AnnounceBaseline(r) \/ AfterHandler(r)
    <2>1. req[r].op = "author"
      BY <1>0, <1>4 DEF AuthorOf, InsertPoints, AnnounceBaseline, AfterHandler, At
    <2>2. Goal
      BY <1>1, <1>4, <2>1 DEF InsertPoints, AnnounceBaseline, AfterHandler, GotoTargets
    <2> QED BY <2>2
  <1>5. CASE FindSnapshot(r) \/ InsertSnapshot(r)
    <2>1. Goto(r, "insertSnapshot") \/ Goto(r, "announceCapture")
      BY <1>5 DEF FindSnapshot, InsertSnapshot
    <2>2. Goes
      BY <2>1 DEF GotoTargets
    <2> QED BY <2>2
  <1>6. CASE ReadActiveVersion(r) /\ baselines = {}
    BY <1>1, <1>6 DEF ReadActiveVersion
  <1>7. NothingToCapture(r) \/ RejectSnapshot(r) \/ AnnounceCapture(r) \/ CaptureRaises(r)
           => Leave(r) \/ Raise(r)
    BY DEF NothingToCapture, RejectSnapshot, AnnounceCapture, CaptureRaises
  <1> QED BY <1>2, <1>3, <1>4, <1>5, <1>6, <1>7 DEF OneMoves, Advance

LEMMA OneMovesReq ==
  ASSUME IInv, NEW r \in Requests, OneMoves(r)
  PROVE  /\ req' \in [Requests -> RequestState]
         /\ \A q \in Requests \ {r} : req'[q] = req[q]
         /\ req'[r].step # "idle"
         /\ ~ Begin(r) => req'[r].points = req[r].points
         /\ req'[r].step = "insertPoints" => ReadMax(r)
         /\ ~ ReadPoints(r) => req'[r].curve \in {{}, req[r].curve}
  <1>0. TypeOK
    BY DEF IInv
  <1>1. CASE Begin(r)
    BY <1>1, BeginFields
  <1>2. CASE ReadMax(r)
    BY <1>2, ReadMaxFields
  <1>3. CASE \E d \in Days : ReadProject(r, d)
    BY <1>3, ReadProjectFields
  <1>4. CASE ReadActiveVersion(r) /\ baselines # {}
    BY <1>4, ReadActiveVersionFields
  <1>5. CASE ReadPoints(r)
    BY <1>5, ReadPointsFields
  <1>6. CASE \E a \in Answers : Answer(r, a)
    BY <1>0, <1>6, AnswerFields, StepNames
  <1>7. CASE \E s \in GotoTargets : Goto(r, s)
    BY <1>0, <1>7, GotoFields, StepNames DEF GotoTargets
  <1> QED BY <1>1, <1>2, <1>3, <1>4, <1>5, <1>6, <1>7, Shapes

\* Points are added all at once, a snapshot where there was none.
LEMMA OneMovesRows ==
  ASSUME IInv, NEW r \in Requests, OneMoves(r)
  PROVE  /\ figures' = figures
         /\ \/ baselines' = baselines
            \/ /\ req[r].step = "insertPoints" /\ ~ Conflict(r)
               /\ baselines' = baselines \cup NewPoints(r, req[r].points)
               /\ InsertPoints(r) \/ ServerError(r)
         /\ \/ snapshots' = snapshots
            \/ /\ req[r].step = "insertSnapshot" /\ snapshots[req[r].day] = Null
               /\ snapshots' = WithSnapshot(r)
               /\ InsertSnapshot(r) \/ CaptureRaises(r)
         /\ ~ Begin(r) => alone' = alone
  <1>1. CASE Begin(r)
    BY <1>1, BeginFields DEF rows
  <1>2. CASE InsertPoints(r) \/ InsertSnapshot(r)
    BY <1>2 DEF InsertPoints, InsertSnapshot, At
  <1>3. CASE ServerError(r)
    BY <1>3 DEF ServerError, Dispatcher!InDoubt, At
  <1>4. CASE CaptureRaises(r)
    BY <1>4 DEF CaptureRaises, Dispatcher!InDoubt, At
  <1>5. CASE Advance(r) /\ ~ InsertPoints(r) /\ ~ InsertSnapshot(r)
    <2>1. UNCHANGED <<figures, rows, alone>>
      BY <1>5
         DEF Advance, ReadMax, RejectPoints, AnnounceBaseline, AfterHandler, ReadProject,
             NothingToCapture, FindSnapshot, RejectSnapshot, AnnounceCapture, ReadActiveVersion,
             ReadPoints
    <2> QED BY <2>1 DEF rows
  <1> QED BY <1>1, <1>2, <1>3, <1>4, <1>5 DEF OneMoves

\* The request that moves is at work.
LEMMA OneMovesFrom ==
  ASSUME IInv, NEW r \in Requests, OneMoves(r), ~ Begin(r)
  PROVE  Active(r)
  BY StepNames
     DEF OneMoves, Advance, ReadMax, InsertPoints, RejectPoints, AnnounceBaseline, AfterHandler,
         ReadProject, NothingToCapture, FindSnapshot, InsertSnapshot, RejectSnapshot,
         AnnounceCapture, ReadActiveVersion, ReadPoints, CaptureRaises, ServerError, Active, At

\* The publication of another request's event does not move.
LEMMA CallsOfOthers ==
  ASSUME IInv, NEW r \in Requests, OneMoves(r)
  PROVE  /\ DP!IInv'
         /\ \A q \in Requests \ {r} : call'[q] = call[q] /\ handled'[q] = handled[q]
         /\ req[r].step \in {"announce", "dispatch"}
              \/ (req[r].op = "author" /\ (Leave(r) \/ Raise(r)))
              \/ UNCHANGED dispatchVars
  <1> USE DEF IInv
  <1>1. CASE UNCHANGED dispatchVars
    BY <1>1, DispatchIdle DEF dispatchVars
  <1>2. ASSUME Dispatcher!Persist(r) \/ Dispatcher!PersistRaises(r) \/ Dispatcher!Dispatch(r)
        PROVE  /\ DP!IInv'
               /\ \A q \in Requests \ {r} : call'[q] = call[q] /\ handled'[q] = handled[q]
    BY <1>2, DispatchStep
  <1>3. CASE AnnounceBaseline(r) \/ AfterHandler(r)
    <2>1. Dispatcher!Persist(r) \/ Dispatcher!PersistRaises(r) \/ Dispatcher!Dispatch(r)
      BY <1>3, AreDispatches DEF AnnounceBaseline, AfterHandler
    <2> QED BY <1>2, <1>3, <2>1 DEF AnnounceBaseline, AfterHandler, At
  <1>4. CASE Leave(r) \/ Raise(r)
    <2>1. UNCHANGED dispatchVars \/ (Dispatcher!Dispatch(r) /\ req[r].op = "author")
      BY <1>4, CaptureEnds, AreDispatches
    <2> QED BY <1>1, <1>2, <1>4, <2>1
  <1>5. AnnounceBaseline(r) \/ AfterHandler(r) \/ Leave(r) \/ Raise(r) \/ UNCHANGED dispatchVars
    BY DEF OneMoves, Begin, BeginAuthor, BeginCapture, BeginSummary, Starts, Advance, ReadMax,
           InsertPoints, RejectPoints, ReadProject, NothingToCapture, FindSnapshot, InsertSnapshot,
           RejectSnapshot, AnnounceCapture, ReadActiveVersion, ReadPoints, CaptureRaises, ServerError
  <1> QED BY <1>1, <1>3, <1>4, <1>5


-----------------------------------------------------------------------------
(* The history: rows that are there stay. *)

LEMMA NewPointsAre ==
  ASSUME TypeOK, NEW r \in Requests
  PROVE  /\ \A p \in NewPoints(r, req[r].points) :
               p.version = req[r].version /\ p.author = r /\ p.period \in req[r].points
         /\ \A d \in req[r].points : \E p \in NewPoints(r, req[r].points) : p.period = d
         /\ \A p, q \in NewPoints(r, req[r].points) : p.period = q.period => p = q
  <1> DEFINE new == NewPoints(r, req[r].points)
             P(d) == [version |-> req[r].version, period |-> d, author |-> r]
  <1>1. new = {P(d) : d \in req[r].points}
    BY DEF NewPoints
  <1>2. \A d : P(d).version = req[r].version /\ P(d).author = r /\ P(d).period = d
    OBVIOUS
  <1> HIDE DEF new, P
  <1>3. \A p \in new : p.version = req[r].version /\ p.author = r /\ p.period \in req[r].points
    BY <1>1, <1>2
  <1>4. \A d \in req[r].points : \E p \in new : p.period = d
    BY <1>1, <1>2
  <1>5. \A p, q \in new : p.period = q.period => p = q
    BY <1>1, <1>2
  <1> QED BY <1>3, <1>4, <1>5 DEF new

\* The authors are those they were, or one more.
LEMMA AuthorsGrow ==
  ASSUME IInv, NEW r \in Requests, OneMoves(r)
  PROVE  /\ baselines \subseteq baselines'
         /\ \A q \in Requests \ {r} : PointsBy(q)' = PointsBy(q)
         /\ \A q \in Authors : PointsBy(q)' = PointsBy(q)
         /\ \/ baselines' = baselines /\ Authors' = Authors
            \/ /\ req[r].step = "insertPoints" /\ r \notin Authors /\ ~ Conflict(r)
               /\ baselines' = baselines \cup NewPoints(r, req[r].points)
               /\ PointsBy(r)' = NewPoints(r, req[r].points)
               /\ Authors' = Authors \cup {r}
  <1>0. TypeOK /\ AuthorOf(r)
    BY DEF IInv
  <1>1. CASE baselines' = baselines
    <2>1. \A q \in Requests : PointsBy(q)' = PointsBy(q)
      BY <1>1 DEF PointsBy
    <2>2. Authors' = Authors
      BY <2>1 DEF Authors
    <2> QED BY <1>1, <2>1, <2>2 DEF Authors
  <1>2. CASE /\ req[r].step = "insertPoints" /\ ~ Conflict(r)
             /\ baselines' = baselines \cup NewPoints(r, req[r].points)
    <2>1. r \notin Authors /\ req[r].points # {}
      BY <1>0, <1>2 DEF AuthorOf, At
    <2>2. \A q \in Requests \ {r} : PointsBy(q)' = PointsBy(q)
      BY <1>0, <1>2, NewPointsAre DEF PointsBy
    <2>3. PointsBy(r) = {}
      BY <2>1 DEF Authors
    <2>4. PointsBy(r)' = NewPoints(r, req[r].points)
      BY <1>0, <1>2, <2>3, NewPointsAre DEF PointsBy
    <2>5. PointsBy(r)' # {}
      BY <1>0, <2>1, <2>4, NewPointsAre
    <2>6. Authors' = Authors \cup {r}
      BY <2>2, <2>5 DEF Authors
    <2>7. \A q \in Authors : PointsBy(q)' = PointsBy(q)
      BY <2>1, <2>2 DEF Authors
    <2> QED BY <1>2, <2>1, <2>2, <2>4, <2>6, <2>7
  <1> QED BY <1>1, <1>2, OneMovesRows

\* The number of authors only grows.
LEMMA AuthorsCount ==
  ASSUME IInv, NEW r \in Requests, OneMoves(r)
  PROVE  /\ Cardinality(Authors) \in Nat /\ Cardinality(Authors') \in Nat
         /\ Cardinality(Authors) <= Cardinality(Authors')
         /\ Cardinality(Authors') <= Cardinality(Requests)
         /\ baselines' # baselines => Cardinality(Authors') = Cardinality(Authors) + 1
  <1>1. Authors \in SUBSET Requests /\ Authors' \in SUBSET Requests
    BY DEF Authors
  <1>2. CASE baselines' = baselines /\ Authors' = Authors
    BY <1>1, <1>2, SubsetCount
  <1>3. CASE r \notin Authors /\ Authors' = Authors \cup {r}
    <2>1. Cardinality(Authors \cup {r}) = Cardinality(Authors) + 1
      BY <1>1, <1>3, OneMoreCounts
    <2>2. Cardinality(Authors') = Cardinality(Authors) + 1
      BY <1>3, <2>1
    <2>3. /\ Cardinality(Authors) \in Nat /\ Cardinality(Authors') \in Nat
          /\ Cardinality(Authors') <= Cardinality(Requests)
      BY <1>1, SubsetCount
    <2> DEFINE C == Cardinality(Authors)
               D == Cardinality(Authors')
    <2>4. C \in Nat /\ D = C + 1
      BY <2>2, <2>3
    <2> HIDE DEF C, D
    <2>5. C <= D
      BY <2>4
    <2> QED BY <2>2, <2>3, <2>5 DEF C, D
  <1> QED BY <1>2, <1>3, AuthorsGrow

LEMMA AuthorsKeepPoints ==
  ASSUME IInv, NEW r \in Requests, OneMoves(r), NEW q \in Requests
  PROVE  /\ q \in Authors => req'[q].points = req[q].points
         /\ baselines' # baselines => req'[r].points = req[r].points
  <1>1. Begin(r) => r \notin Authors /\ baselines' = baselines
    BY BeginFields DEF rows
  <1> QED BY <1>1, OneMovesReq

LEMMA BaselinesStep ==
  ASSUME IInv, NEW r \in Requests, OneMoves(r)
  PROVE  BaselinesInv'
  <1>0. TypeOK /\ BaselinesInv /\ AuthorOf(r)
    BY DEF IInv
  <1>1. CASE baselines' = baselines
    <2>1. Authors' = Authors /\ \A q \in Authors : PointsBy(q)' = PointsBy(q)
      BY <1>1, AuthorsGrow DEF Authors, PointsBy
    <2>2. \A q \in Authors : req'[q].points = req[q].points
      BY AuthorsKeepPoints DEF Authors
    <2> QED BY <1>0, <1>1, <2>1, <2>2 DEF BaselinesInv
  <1>2. CASE baselines' # baselines
    <2> DEFINE new == NewPoints(r, req[r].points)
    <2>1. /\ req[r].step = "insertPoints" /\ ~ Conflict(r)
          /\ baselines' = baselines \cup new
          /\ PointsBy(r)' = new /\ Authors' = Authors \cup {r}
          /\ \A q \in Authors : PointsBy(q)' = PointsBy(q)
      BY <1>2, AuthorsGrow
    <2>2. /\ \A p \in new : p.version = req[r].version /\ p.period \in req[r].points
          /\ \A d \in req[r].points : \E p \in new : p.period = d
          /\ \A p, q \in new : p.period = q.period => p = q
      BY <1>0, NewPointsAre
    <2>3. \A p \in baselines : ~ (p.version = req[r].version /\ p.period \in req[r].points)
      BY <2>1 DEF Conflict
    <2> HIDE DEF new
    <2>4. \A p, q \in baselines' : p.version = q.version /\ p.period = q.period => p = q
      <3>1. \A p, q \in baselines : p.version = q.version /\ p.period = q.period => p = q
        BY <1>0 DEF BaselinesInv
      <3> QED BY <2>1, <2>2, <2>3, <3>1
    <2>5. ASSUME NEW q \in Authors'
          PROVE  /\ {p.period : p \in PointsBy(q)'} = req'[q].points
                 /\ \A x, y \in PointsBy(q)' : x.version = y.version
      <3>1. CASE q = r
        <4>1. req'[r].points = req[r].points
          BY <1>2, AuthorsKeepPoints
        <4>2. {p.period : p \in new} = req[r].points
          BY <2>2
        <4> QED BY <2>1, <2>2, <3>1, <4>1, <4>2
      <3>2. CASE q # r
        <4>1. q \in Authors /\ PointsBy(q)' = PointsBy(q)
          BY <2>1, <2>5, <3>2
        <4>2. req'[q].points = req[q].points
          BY <4>1, AuthorsKeepPoints DEF Authors
        <4> QED BY <1>0, <4>1, <4>2 DEF BaselinesInv
      <3> QED BY <3>1, <3>2
    <2>6. ASSUME NEW p \in baselines' PROVE p.version <= 1 + Cardinality(Authors')
      <3> DEFINE C == Cardinality(Authors)
                 D == Cardinality(Authors')
      <3>1. C \in Nat /\ D \in Nat /\ D = C + 1
        BY <1>2, AuthorsCount
      <3>2. p \in baselines => p.version \in Nat /\ p.version <= 1 + C
        BY <1>0, PointTyped, VersionRange DEF BaselinesInv
      <3>3. p \in new => p.version \in Nat /\ p.version <= 2 + C
        BY <1>0, <2>1, <2>2, Typed, VersionRange DEF AuthorOf, At
      <3> SUFFICES p.version <= 1 + D
        OBVIOUS
      <3>4. p \in baselines \/ p \in new
        BY <2>1, <2>6
      <3> HIDE DEF C, D
      <3> QED BY <3>1, <3>2, <3>3, <3>4
    <2> QED BY <2>4, <2>5, <2>6 DEF BaselinesInv
  <1> QED BY <1>1, <1>2

LEMMA AuthorStep ==
  ASSUME IInv, NEW r \in Requests, OneMoves(r), NEW q \in Requests
  PROVE  AuthorOf(q)'
  <1>0. TypeOK /\ AuthorOf(q) /\ AuthorOf(r)
    BY DEF IInv
  <1>1. CASE q # r
    <2>1. req'[q] = req[q] /\ (q \in Authors' => q \in Authors)
      BY <1>1, OneMovesReq, AuthorsGrow
    <2>2. ASSUME At(q, "insertPoints"), req[q].version <= 2 + Cardinality(Authors)
          PROVE  req[q].version <= 2 + Cardinality(Authors')
      <3> DEFINE C == Cardinality(Authors)
                 D == Cardinality(Authors')
      <3>1. C \in Nat /\ D \in Nat /\ C <= D
        BY AuthorsCount
      <3>2. req[q].version \in Nat /\ req[q].version <= 2 + C
        BY <1>0, <2>2, Typed, VersionRange
      <3> SUFFICES req[q].version <= 2 + D
        OBVIOUS
      <3> HIDE DEF C, D
      <3> QED BY <3>1, <3>2
    <2> QED BY <1>0, <2>1, <2>2 DEF AuthorOf, At, Idle
  <1>2. CASE q = r
    <2> SUFFICES AuthorOf(r)'
      BY <1>2
    <2>1. CASE Begin(r)
      BY <2>1, BeginFields, AuthorsGrow DEF AuthorOf, At
    <2>2. CASE ReadMax(r)
      <3>1. /\ req[r].step = "max" /\ req'[r].step = "insertPoints" /\ req'[r].op = req[r].op
            /\ req'[r].points = req[r].points /\ req'[r].version = MaxVersion + 1
        BY <2>2, ReadMaxFields
      <3>2. Authors' = Authors
        BY <3>1, AuthorsGrow
      <3>3. MaxVersion + 1 \in Versions /\ MaxVersion + 1 <= 2 + Cardinality(Authors)
        BY <2>2, VersionIsPossible DEF ReadMax
      <3>4. MaxVersion + 1 # 0
        BY <3>3, VersionRange
      <3> QED BY <1>0, <3>1, <3>2, <3>3, <3>4 DEF AuthorOf, At
    <2>3. CASE \E d \in Days : ReadProject(r, d)
      BY <2>3, ReadProjectFields DEF AuthorOf, At
    <2>4. CASE ReadActiveVersion(r) /\ baselines # {}
      BY <1>0, <2>4, ReadActiveVersionFields DEF AuthorOf, At
    <2>5. CASE ReadPoints(r)
      BY <2>5, ReadPointsFields DEF AuthorOf, At
    <2>6. CASE \E a \in Answers : Answer(r, a)
      BY <1>0, <2>6, AnswerFields, StepNames DEF AuthorOf, At
    <2>7. CASE \E s \in GotoTargets :
                  Goto(r, s) /\ (s \in {"announce", "dispatch"} => req[r].op = "author")
      BY <1>0, <2>7, GotoFields, StepNames DEF GotoTargets, AuthorOf, At
    <2> QED BY <2>1, <2>2, <2>3, <2>4, <2>5, <2>6, <2>7, Shapes
  <1> QED BY <1>1, <1>2

\* What was read stays all there is.
LEMMA CurveStep ==
  ASSUME IInv, NEW r \in Requests, OneMoves(r), NEW q \in Requests
  PROVE  CurveOf(q)'
  <1>0. TypeOK /\ BaselinesInv /\ CurveOf(q)
    BY DEF IInv
  <1>1. \A p \in baselines : p.author \in Requests => PointsBy(p.author)' = PointsBy(p.author)
    BY AuthorsGrow DEF Authors, PointsBy
  <1>2. baselines \subseteq baselines'
    BY AuthorsGrow
  <1>3. CASE req'[q].curve \in {{}, req[q].curve}
    BY <1>0, <1>1, <1>2, <1>3 DEF CurveOf
  <1>4. CASE q = r /\ ReadPoints(r)
    <2>1. req'[q].curve = {p \in baselines : p.version = req[r].version}
      BY <1>4, ReadPointsFields
    <2>2. ASSUME NEW p \in req'[q].curve, p.author \in Requests
          PROVE  PointsBy(p.author)' \subseteq req'[q].curve
      <3>1. p \in baselines /\ p.version = req[r].version
        BY <2>1
      <3>2. p.author \in Authors /\ p \in PointsBy(p.author)
        BY <2>2, <3>1 DEF Authors, PointsBy
      <3>3. \A x \in PointsBy(p.author) : x.version = p.version /\ x \in baselines
        BY <1>0, <3>2 DEF BaselinesInv, PointsBy
      <3> QED BY <1>1, <2>1, <2>2, <3>1, <3>3
    <2> QED BY <1>2, <2>1, <2>2 DEF CurveOf
  <1> QED BY <1>3, <1>4, OneMovesReq

\* A day that has a snapshot keeps it.
LEMMA SnapshotsGrow ==
  ASSUME IInv, NEW r \in Requests, OneMoves(r)
  PROVE  /\ snapshots' \in [Days -> Figures \cup {Null}]
         /\ \A d \in Days : snapshots[d] # Null => snapshots'[d] = snapshots[d]
         /\ snapshots' # snapshots => req[r].day \in Days /\ snapshots'[req[r].day] # Null
  <1>0. TypeOK /\ CaptureOf(r) /\ snapshots \in [Days -> Figures \cup {Null}]
    BY DEF IInv, TypeOK
  <1>1. CASE snapshots' = snapshots
    BY <1>0, <1>1
  <1>2. CASE /\ req[r].step = "insertSnapshot" /\ snapshots[req[r].day] = Null
             /\ snapshots' = WithSnapshot(r)
    <2>1. req[r].day \in Days /\ req[r].copied \in Figures /\ req[r].copied # Null
      BY <1>0, <1>2, Typed DEF CaptureOf
    <2>2. snapshots' = [snapshots EXCEPT ![req[r].day] = req[r].copied]
      BY <1>2 DEF WithSnapshot
    <2> QED BY <1>0, <1>2, <2>1, <2>2
  <1> QED BY <1>1, <1>2, OneMovesRows

-----------------------------------------------------------------------------
(* A capture and the publication around it. *)

LEMMA ReturnStep ==
  ASSUME DP!IInv, NEW r \in Requests, Dispatcher!Return(r)
  PROVE  handled' = handled
  BY DEF Dispatcher!Return

\* A day that is kept is one that has, and keeps, a snapshot.
LEMMA DayKept ==
  ASSUME IInv, NEW r \in Requests, OneMoves(r), NEW q \in Requests,
         req[q].day # Null, snapshots[req[q].day] # Null
  PROVE  snapshots'[req[q].day] # Null
  <1>1. req[q].day \in Days
    BY Typed DEF IInv
  <1> QED BY <1>1, SnapshotsGrow

LEMMA CaptureOfOthers ==
  ASSUME IInv, NEW r \in Requests, OneMoves(r), NEW q \in Requests \ {r}
  PROVE  CaptureOf(q)'
  <1>1. CaptureOf(q)
    BY DEF IInv
  <1>2. req'[q] = req[q] /\ handled'[q] = handled[q] /\ figures' = figures
    BY OneMovesReq, CallsOfOthers, OneMovesRows
  <1>3. req[q].day # Null /\ snapshots[req[q].day] # Null => snapshots'[req[q].day] # Null
    BY DayKept
  <1> QED BY <1>1, <1>2, <1>3 DEF CaptureOf, At

\* What CaptureOf says of a request that goes to a step without a capture, or
\* to one, knowing the day.
LEMMA CaptureKept ==
  ASSUME IInv, NEW r \in Requests, OneMoves(r), NEW s \in GotoTargets, Goto(r, s),
         handled'[r] = handled[r] \/ req[r].copied = Null
           \/ (req[r].day # Null /\ snapshots[req[r].day] # Null),
         s \in {"insertSnapshot", "announceCapture"} => req[r].day # Null /\ req[r].copied # Null,
         s = "announceCapture" => snapshots'[req[r].day] # Null
  PROVE  CaptureOf(r)'
  <1>0. TypeOK /\ CaptureOf(r) /\ figures' = figures
    BY OneMovesRows DEF IInv
  <1>1. /\ req'[r].step = s /\ req'[r].day = req[r].day /\ req'[r].copied = req[r].copied
        /\ s # "find"
    BY <1>0, GotoFields, StepNames DEF GotoTargets
  <1>2. req[r].day # Null /\ snapshots[req[r].day] # Null => snapshots'[req[r].day] # Null
    BY DayKept
  <1> QED BY <1>0, <1>1, <1>2 DEF CaptureOf, At

LEMMA CaptureStep ==
  ASSUME IInv, NEW r \in Requests, OneMoves(r)
  PROVE  CaptureOf(r)'
  <1>0. /\ TypeOK /\ DP!IInv /\ AuthorOf(r) /\ CaptureOf(r) /\ CallOf(r)
        /\ DOMAIN snapshots = Days
    BY DEF IInv, TypeOK
  <1>1. CASE Begin(r)
    BY <1>1, BeginFields DEF CaptureOf, At
  <1>2. CASE \E a \in Answers : Answer(r, a)
    BY <1>0, <1>2, AnswerFields, StepNames DEF CaptureOf, At
  <1>3. CASE ReadPoints(r)
    BY <1>3, ReadPointsFields DEF CaptureOf, At
  <1>4. CASE ReadMax(r) \/ (ReadActiveVersion(r) /\ baselines # {})
    <2>1. UNCHANGED <<figures, snapshots, handled>>
      BY <1>4 DEF ReadMax, ReadActiveVersion, rows, dispatchVars
    <2>2. /\ req'[r].step \in {"insertPoints", "points"}
          /\ req'[r].day = req[r].day /\ req'[r].copied = req[r].copied
      BY <1>4, ReadMaxFields, ReadActiveVersionFields
    <2> QED BY <1>0, <2>1, <2>2 DEF CaptureOf, At
  <1>5. ASSUME NEW d \in Days, ReadProject(r, d) PROVE CaptureOf(r)'
    <2>1. /\ req[r].step = "project" /\ figures # Null
          /\ req'[r].step = "find" /\ req'[r].copied = figures /\ req'[r].day = d
      BY <1>5, ReadProjectFields
    <2>2. handled[r] = {}
      BY <1>0, <2>1, StepNames DEF CallOf
    <2>3. UNCHANGED <<figures, handled>>
      BY <1>5 DEF ReadProject, dispatchVars
    <2>4. d # Null
      BY NamesAssumption
    <2> QED BY <2>1, <2>2, <2>3, <2>4 DEF CaptureOf, At
  <1>6. CASE InsertPoints(r) \/ AnnounceBaseline(r) \/ AfterHandler(r)
    <2>1. CASE InsertPoints(r)
      BY <2>1, CaptureKept DEF InsertPoints, GotoTargets, dispatchVars
    <2>2. CASE AnnounceBaseline(r) /\ Dispatcher!Persist(r) /\ Goto(r, "project")
      BY <1>0, <2>2, PersistStep, CaptureKept DEF GotoTargets
    <2>3. CASE AfterHandler(r) /\ Dispatcher!Return(r) /\ Goto(r, "done")
      BY <1>0, <2>3, ReturnStep, CaptureKept DEF GotoTargets
    <2>4. CASE AfterHandler(r) /\ Dispatcher!RecordDeadLetter(r) /\ Goto(r, "dispatch")
      BY <1>0, <2>4, DeadLetterStep, CaptureKept DEF GotoTargets
    <2>5. CASE Answer(r, "serverError")
      BY <1>2, <2>5, StepNames
    <2> QED BY <1>6, <2>1, <2>2, <2>3, <2>4, <2>5 DEF AnnounceBaseline, AfterHandler
  <1>7. CASE FindSnapshot(r)
    <2>1. /\ req[r].step = "find" /\ handled' = handled /\ snapshots' = snapshots
          /\ Goto(r, IF snapshots[req[r].day] = Null THEN "insertSnapshot" ELSE "announceCapture")
      BY <1>7 DEF FindSnapshot, rows, dispatchVars, At
    <2>2. req[r].day # Null /\ req[r].copied # Null
      BY <1>0, <2>1 DEF CaptureOf
    <2> QED BY <2>1, <2>2, CaptureKept DEF GotoTargets
  <1>8. CASE InsertSnapshot(r)
    <2>1. /\ req[r].step = "insertSnapshot" /\ handled' = handled
          /\ snapshots' = WithSnapshot(r) /\ Goto(r, "announceCapture")
      BY <1>8 DEF InsertSnapshot, dispatchVars, At
    <2>2. req[r].day # Null /\ req[r].copied # Null /\ req[r].day \in Days
      BY <1>0, <2>1, Typed DEF CaptureOf
    <2>3. snapshots'[req[r].day] # Null
      BY <1>0, <2>1, <2>2 DEF WithSnapshot
    <2> QED BY <2>1, <2>2, <2>3, CaptureKept DEF GotoTargets
  <1>9. CASE NothingToCapture(r) \/ AnnounceCapture(r)
    <2>1. \/ req[r].copied = Null
          \/ req[r].day # Null /\ snapshots[req[r].day] # Null
      BY <1>0, <1>9 DEF NothingToCapture, AnnounceCapture, CaptureOf, At
    <2>2. CASE Goto(r, "dispatch")
      BY <2>1, <2>2, CaptureKept DEF GotoTargets
    <2>3. CASE Answer(r, "done")
      BY <1>2, <2>3, StepNames
    <2> QED BY <1>9, <2>2, <2>3 DEF NothingToCapture, AnnounceCapture, Leave
  <1>10. CASE RejectSnapshot(r) \/ CaptureRaises(r)
    <2>1. Raise(r)
      BY <1>10 DEF RejectSnapshot, CaptureRaises
    <2>2. CASE Dispatcher!PlainRaises(r) /\ (Goto(r, "dispatch") \/ Goto(r, "project"))
      BY <1>0, <2>2, PlainRaisesStep, CaptureKept DEF GotoTargets
    <2>3. CASE Answer(r, "serverError")
      BY <1>2, <2>3, StepNames
    <2> QED BY <2>1, <2>2, <2>3 DEF Raise
  <1>11. CASE RejectPoints(r) \/ ServerError(r) \/ (ReadActiveVersion(r) /\ baselines = {})
    BY <1>2, <1>11, StepNames DEF RejectPoints, ServerError, ReadActiveVersion
  <1> QED BY <1>1, <1>3, <1>4, <1>5, <1>6, <1>7, <1>8, <1>9, <1>10, <1>11 DEF OneMoves, Advance

LEMMA CallOfOthers ==
  ASSUME IInv, NEW r \in Requests, OneMoves(r), NEW q \in Requests \ {r}
  PROVE  CallOf(q)'
  <1>1. CallOf(q)
    BY DEF IInv
  <1>2. req'[q] = req[q] /\ call'[q] = call[q] /\ handled'[q] = handled[q]
    BY OneMovesReq, CallsOfOthers
  <1> QED BY <1>1, <1>2 DEF CallOf, At

LEMMA CallStep ==
  ASSUME IInv, NEW r \in Requests, OneMoves(r)
  PROVE  CallOf(r)'
  <1>0. TypeOK /\ DP!IInv /\ AuthorOf(r) /\ CallOf(r)
    BY DEF IInv
  <1>1. ASSUME req'[r].step \in Answers PROVE CallOf(r)'
    BY <1>1, StepNames DEF CallOf, At
  <1>2. CASE \E a \in Answers : Answer(r, a)
    BY <1>0, <1>1, <1>2, AnswerFields
  <1>3. ASSUME UNCHANGED dispatchVars, req'[r].op = req[r].op, req'[r].step # "dispatch",
               req'[r].step \in {"idle", "max", "insertPoints", "announce"} =>
                  req[r].step \in {"idle", "max", "insertPoints", "announce"},
               req'[r].step \in Capturing => req[r].step \in Capturing,
               req[r].step \notin Answers
        PROVE  CallOf(r)'
    <2>1. call' = call /\ handled' = handled
      BY <1>3 DEF dispatchVars
    <2> QED BY <1>0, <1>3, <2>1, StepNames DEF CallOf, At
  <1>4. CASE Begin(r)
    <2>1. /\ req[r].step = "idle"
          /\ \/ req'[r].step = "max" /\ req'[r].op = "author"
             \/ req'[r].step = "project" /\ req'[r].op = "capture"
             \/ req'[r].step = "activeVersion" /\ req'[r].op = "summary"
          /\ call' = call /\ handled' = handled
      BY <1>4, BeginFields DEF dispatchVars
    <2>2. call[r].step = "new" /\ call[r].handler = 1 /\ handled[r] = {}
      BY <1>0, <2>1 DEF CallOf
    <2> QED BY <2>1, <2>2, StepNames DEF CallOf, At
  <1>5. CASE ReadMax(r)
    <2>1. req[r].step = "max" /\ req'[r].step = "insertPoints" /\ req'[r].op = req[r].op
      BY <1>5, ReadMaxFields
    <2>2. UNCHANGED dispatchVars
      BY <1>5 DEF ReadMax
    <2> QED BY <1>3, <2>1, <2>2, StepNames
  <1>6. ASSUME NEW d \in Days, ReadProject(r, d) PROVE CallOf(r)'
    BY <1>3, <1>6, ReadProjectFields, StepNames DEF ReadProject
  <1>7. CASE ReadActiveVersion(r) /\ baselines # {}
    BY <1>3, <1>7, ReadActiveVersionFields, StepNames DEF ReadActiveVersion
  <1>8. CASE ReadPoints(r)
    BY <1>1, <1>8, ReadPointsFields, StepNames
  <1>9. CASE InsertPoints(r) \/ FindSnapshot(r) \/ InsertSnapshot(r)
    <2>1. /\ "announce" \in Steps /\ "insertSnapshot" \in Steps /\ "announceCapture" \in Steps
          /\ UNCHANGED dispatchVars
      BY <1>9, StepNames DEF InsertPoints, FindSnapshot, InsertSnapshot
    <2>2. CASE InsertPoints(r)
      <3>1. req[r].step = "insertPoints" /\ req'[r].step = "announce" /\ req'[r].op = req[r].op
        BY <1>0, <2>1, <2>2, GotoFields DEF InsertPoints, At
      <3> QED BY <1>3, <2>1, <3>1, StepNames
    <2>3. CASE FindSnapshot(r) \/ InsertSnapshot(r)
      <3>1. /\ req[r].step \in {"find", "insertSnapshot"}
            /\ Goto(r, "insertSnapshot") \/ Goto(r, "announceCapture")
        BY <2>3 DEF FindSnapshot, InsertSnapshot, At
      <3>2. req'[r].step \in {"insertSnapshot", "announceCapture"} /\ req'[r].op = req[r].op
        BY <1>0, <2>1, <3>1, GotoFields
      <3> QED BY <1>3, <2>1, <3>1, <3>2, StepNames
    <2> QED BY <1>9, <2>2, <2>3
  <1>10. CASE AnnounceBaseline(r)
    <2>1. CASE Dispatcher!Persist(r) /\ Goto(r, "project")
      <3>1. /\ req[r].step = "announce" /\ req[r].op = "author" /\ "project" \in Steps
            /\ call[r].handler = 1 /\ handled[r] = {}
        BY <1>0, <1>10, StepNames DEF AnnounceBaseline, CallOf, AuthorOf, At
      <3>2. req'[r].step = "project" /\ req'[r].op = "author"
        BY <1>0, <2>1, <3>1, GotoFields
      <3>3. call'[r].step = "call" /\ call'[r].handler = 1 /\ handled'[r] = {}
        BY <1>0, <2>1, <3>1, PersistStep
      <3> QED BY <3>2, <3>3, StepNames DEF CallOf, At
    <2> QED BY <1>2, <1>10, <2>1, StepNames DEF AnnounceBaseline
  <1>11. CASE AfterHandler(r)
    <2>1. "done" \in Steps /\ "done" \in Answers /\ "dispatch" \in Steps
          /\ "serverError" \in Answers
      BY StepNames
    <2>2. CASE Goto(r, "done")
      BY <1>0, <1>1, <2>1, <2>2, GotoFields
    <2>3. CASE Dispatcher!RecordDeadLetter(r) /\ Goto(r, "dispatch")
      <3>1. req[r].op = "author"
        BY <1>0, <1>11 DEF AfterHandler, AuthorOf, At
      <3>2. req'[r].step = "dispatch" /\ req'[r].op = "author"
        BY <1>0, <2>1, <2>3, <3>1, GotoFields
      <3>3. call'[r].step = "call" /\ call'[r].handler = 2
        BY <1>0, <2>3, DeadLetterStep
      <3> QED BY <3>2, <3>3, StepNames DEF CallOf, At
    <2> QED BY <1>2, <1>11, <2>1, <2>2, <2>3 DEF AfterHandler
  <1>12. CASE /\ req[r].step \in Capturing
              /\ Leave(r) \/ Raise(r)
    <2>1. CASE req[r].op = "author"
      <3>1. call[r].step = "call" /\ call[r].handler = 1 /\ handled[r] = {}
        BY <1>0, <1>12, <2>1 DEF CallOf
      <3>2. "dispatch" \in Steps /\ "project" \in Steps
        BY StepNames
      <3>3. CASE Leave(r)
        <4>1. Dispatcher!PlainReturns(r) /\ Goto(r, "dispatch")
          BY <2>1, <3>3 DEF Leave
        <4>2. req'[r].step = "dispatch" /\ req'[r].op = "author"
          BY <1>0, <2>1, <3>2, <4>1, GotoFields
        <4>3. call'[r].step = "call" /\ call'[r].handler = 2
          BY <1>0, <3>1, <4>1, PlainReturnsStep
        <4> QED BY <4>2, <4>3, StepNames DEF CallOf, At
      <3>4. CASE Raise(r)
        <4>1. /\ Dispatcher!PlainRaises(r)
              /\ Goto(r, IF call'[r].step = "deadLetter" THEN "dispatch" ELSE "project")
          BY <2>1, <3>4 DEF Raise, Dispatcher!At
        <4>2. /\ req'[r].step = IF call'[r].step = "deadLetter" THEN "dispatch" ELSE "project"
              /\ req'[r].op = "author"
          BY <1>0, <2>1, <3>2, <4>1, GotoFields
        <4>3. /\ call'[r].step \in {"call", "deadLetter"} /\ call'[r].handler = 1
              /\ handled'[r] = {}
          BY <1>0, <3>1, <4>1, PlainRaisesStep
        <4> QED BY <4>2, <4>3, StepNames DEF CallOf, At
      <3> QED BY <1>12, <3>3, <3>4
    <2>2. CASE req[r].op # "author"
      BY <1>2, <1>12, <2>2, StepNames DEF Leave, Raise
    <2> QED BY <2>1, <2>2
  <1>13. CASE RejectPoints(r) \/ ServerError(r) \/ (ReadActiveVersion(r) /\ baselines = {})
    BY <1>2, <1>13, StepNames DEF RejectPoints, ServerError, ReadActiveVersion
  <1>14. NothingToCapture(r) \/ RejectSnapshot(r) \/ AnnounceCapture(r) \/ CaptureRaises(r) =>
            req[r].step \in Capturing /\ (Leave(r) \/ Raise(r))
    BY StepNames DEF NothingToCapture, RejectSnapshot, AnnounceCapture, CaptureRaises, At
  <1> QED BY <1>4, <1>5, <1>6, <1>7, <1>8, <1>9, <1>10, <1>11, <1>12, <1>13, <1>14
          DEF OneMoves, Advance

-----------------------------------------------------------------------------
(* Requests that run alone. *)

LEMMA SameMax ==
  ASSUME baselines' = baselines
  PROVE  MaxVersion' = MaxVersion
  BY DEF MaxVersion

LEMMA AloneStep ==
  ASSUME IInv, NEW r \in Requests, OneMoves(r)
  PROVE  alone' \subseteq Requests /\ \A q \in alone' : AloneOf(q)'
  <1>0. TypeOK /\ alone \subseteq Requests /\ \A q \in alone : AloneOf(q)
    BY DEF IInv, TypeOK
  <1>1. ASSUME NEW q \in Requests \ {r}, q \in alone, ~ Active(q) PROVE AloneOf(q)'
    <2>1. req'[q] = req[q]
      BY OneMovesReq
    <2>2. req[q].step \in Answers \cup {"idle"} /\ req[q].step # "idle"
      BY <1>0, <1>1 DEF Active, AloneOf, At
    <2> QED BY <2>1, <2>2, StepNames DEF AloneOf, Active, At
  <1>2. CASE Begin(r)
    <2>1. /\ At(r, "idle")
          /\ alone' = IF \E q \in Requests : Active(q) THEN {q \in alone : ~ Active(q)}
                      ELSE alone \cup {r}
      BY <1>2 DEF Begin, BeginAuthor, BeginCapture, BeginSummary, Starts
    <2>2. r \notin alone
      BY <1>0, <2>1 DEF AloneOf
    <2>3. CASE \E q \in Requests : Active(q)
      BY <1>0, <1>1, <2>1, <2>2, <2>3
    <2>4. CASE \A q \in Requests : ~ Active(q)
      <3>1. alone' = alone \cup {r}
        BY <2>1, <2>4
      <3>2. AloneOf(r)'
        <4>1. req'[r].step \in {"max", "project", "activeVersion"}
          BY <1>2, BeginFields
        <4>2. \A q \in Requests \ {r} : req'[q] = req[q]
          BY OneMovesReq
        <4> QED BY <2>4, <4>1, <4>2 DEF AloneOf, Active, At
      <3> QED BY <1>0, <1>1, <2>4, <3>1, <3>2
    <2> QED BY <2>3, <2>4
  <1>3. CASE ~ Begin(r)
    <2>1. alone' = alone /\ Active(r)
      BY <1>3, OneMovesRows, OneMovesFrom
    <2>2. ASSUME NEW q \in alone, q # r PROVE AloneOf(q)'
      BY <1>0, <1>1, <2>1, <2>2 DEF AloneOf
    <2>3. ASSUME r \in alone PROVE AloneOf(r)'
      <3>1. \A q \in Requests \ {r} : ~ Active(q) /\ req'[q] = req[q]
        BY <1>0, <2>1, <2>3, OneMovesReq DEF AloneOf
      <3>2. req'[r].step # "idle"
        BY OneMovesReq
      <3>3. ASSUME req'[r].step = "insertPoints" PROVE req'[r].version = MaxVersion' + 1
        <4>1. ReadMax(r)
          BY <3>3, OneMovesReq
        <4>2. req'[r].version = MaxVersion + 1
          BY <4>1, ReadMaxFields
        <4>3. baselines' = baselines
          BY <4>1 DEF ReadMax, rows
        <4> QED BY <4>2, <4>3, SameMax
      <3> QED BY <3>1, <3>2, <3>3 DEF AloneOf, Active, At
    <2> QED BY <1>0, <2>1, <2>2, <2>3
  <1> QED BY <1>2, <1>3

-----------------------------------------------------------------------------
(* Types. *)

LEMMA TypeStep ==
  ASSUME IInv, NEW r \in Requests, OneMoves(r)
  PROVE  TypeOK'
  <1>0. TypeOK
    BY DEF IInv
  <1>1. figures' \in Figures \cup {Null}
    BY <1>0, OneMovesRows DEF TypeOK
  <1>2. baselines' \subseteq Point
    <2>1. CASE baselines' = baselines
      BY <1>0, <2>1 DEF TypeOK
    <2>2. CASE /\ req[r].step = "insertPoints"
               /\ baselines' = baselines \cup NewPoints(r, req[r].points)
      <3>1. req[r].version \in Versions /\ req[r].points \subseteq Periods
        BY <1>0, <2>2, Typed DEF IInv, AuthorOf, At
      <3>2. NewPoints(r, req[r].points) \subseteq Point
        BY <3>1 DEF NewPoints, Point
      <3> QED BY <1>0, <2>2, <3>2 DEF TypeOK
    <2> QED BY <2>1, <2>2, OneMovesRows
  <1>3. snapshots' \in [Days -> Figures \cup {Null}]
    BY SnapshotsGrow
  <1>4. req' \in [Requests -> RequestState]
    BY OneMovesReq
  <1>5. alone' \subseteq Requests
    BY AloneStep
  <1>6. DP!IInv' /\ \A q \in Requests : CallOf(q)'
    BY CallsOfOthers, CallStep, CallOfOthers
  <1>7. Dispatcher!TypeOK'
    <2>1. DP!IInv'
      BY <1>6
    <2>2. DP!IInv' => Dispatcher!TypeOK'
      BY DispatchTyped, PTL
    <2> QED BY <2>1, <2>2
  <1>8. \A q \in Requests : req'[q].op = "author" =>
           /\ At(q, "dispatch")' => q \in Dispatcher!InProgress'
           /\ req'[q].step \in Capturing => Dispatcher!At(q, "call")' /\ Dispatcher!HasHandler(q)'
    <2>1. ASSUME NEW q \in Requests, req'[q].op = "author"
          PROVE  /\ At(q, "dispatch")' => q \in Dispatcher!InProgress'
                 /\ req'[q].step \in Capturing =>
                      Dispatcher!At(q, "call")' /\ Dispatcher!HasHandler(q)'
      BY <1>6, <2>1, OneHandler
         DEF CallOf, At, Dispatcher!InProgress, Dispatcher!Ended, Dispatcher!At,
             Dispatcher!HasHandler
    <2> QED BY <2>1
  <1> QED BY <1>1, <1>2, <1>3, <1>4, <1>5, <1>7, <1>8
          DEF TypeOK, Point, Versions, RequestState, Steps, Answers, Ops, Capturing

\* The step of one request, put together.
LEMMA OneMovesStep ==
  ASSUME IInv, NEW r \in Requests, OneMoves(r)
  PROVE  IInv'
  <1>1. TypeOK' /\ DP!IInv' /\ BaselinesInv'
    BY TypeStep, CallsOfOthers, BaselinesStep
  <1>2. \A q \in Requests : AuthorOf(q)' /\ CurveOf(q)' /\ CaptureOf(q)' /\ CallOf(q)'
    BY AuthorStep, CurveStep, CaptureStep, CaptureOfOthers, CallStep, CallOfOthers
  <1>3. \A q \in alone' : AloneOf(q)'
    BY AloneStep
  <1> QED BY <1>1, <1>2, <1>3 DEF IInv

-----------------------------------------------------------------------------
(* The process ends, the project gets figures, nothing happens. *)

LEMMA CrashReq ==
  ASSUME IInv, Crash
  PROVE  /\ req' \in [Requests -> RequestState]
         /\ UNCHANGED <<figures, rows, alone, handled>> /\ DP!IInv'
         /\ \A q \in Requests :
              \/ /\ Active(q) /\ req'[q].step = "lost" /\ req'[q].points = req[q].points
                 /\ req'[q].copied = Null /\ req'[q].curve = {}
              \/ ~ Active(q) /\ req'[q] = req[q]
         /\ \A q \in Requests : call[q].step = "new" => call'[q] = call[q]
  <1>0. TypeOK /\ DP!IInv
    BY DEF IInv
  <1>1. "lost" \in Answers
    BY StepNames
  <1>2. ASSUME NEW q \in Requests
        PROVE  /\ req'[q] = IF Active(q) THEN Answered(q, "lost") ELSE req[q]
               /\ req'[q] \in RequestState
               /\ \/ /\ Active(q) /\ req'[q].step = "lost" /\ req'[q].points = req[q].points
                     /\ req'[q].copied = Null /\ req'[q].curve = {}
                  \/ ~ Active(q) /\ req'[q] = req[q]
    <2>1. req'[q] = IF Active(q) THEN Answered(q, "lost") ELSE req[q]
      BY DEF Crash
    <2> QED BY <1>0, <1>1, <2>1, AnsweredIs, Typed
  <1>3. req' \in [Requests -> RequestState]
    <2>1. req' = [q \in Requests |-> IF Active(q) THEN Answered(q, "lost") ELSE req[q]]
      BY DEF Crash
    <2>2. \A q \in Requests : (IF Active(q) THEN Answered(q, "lost") ELSE req[q]) \in RequestState
      BY <1>2
    <2> QED BY <2>1, <2>2
  <1>4. UNCHANGED <<figures, rows, alone>>
    BY DEF Crash
  <1>5. CASE Dispatcher!Crash
    BY <1>0, <1>2, <1>3, <1>4, <1>5, DispatchCrash
  <1>6. CASE UNCHANGED dispatchVars
    BY <1>0, <1>2, <1>3, <1>4, <1>6, DispatchIdle DEF dispatchVars
  <1> QED BY <1>5, <1>6 DEF Crash

LEMMA CrashStep ==
  ASSUME IInv, Crash
  PROVE  IInv'
  <1>0. TypeOK /\ BaselinesInv /\ alone \subseteq Requests
    BY DEF IInv, TypeOK
  <1>1. /\ req' \in [Requests -> RequestState] /\ DP!IInv'
        /\ figures' = figures /\ baselines' = baselines /\ snapshots' = snapshots
        /\ alone' = alone /\ handled' = handled
    BY CrashReq DEF rows
  <1>2. Authors' = Authors /\ \A q \in Requests : PointsBy(q)' = PointsBy(q)
    BY <1>1 DEF Authors, PointsBy
  <1>3. BaselinesInv'
    <2>1. \A q \in Authors : PointsBy(q)' = PointsBy(q) /\ req'[q].points = req[q].points
      BY <1>2, CrashReq DEF Authors
    <2> QED BY <1>0, <1>1, <1>2, <2>1 DEF BaselinesInv
  <1>4. ASSUME NEW q \in Requests
        PROVE  AuthorOf(q)' /\ CurveOf(q)' /\ CaptureOf(q)' /\ CallOf(q)'
    <2>0. AuthorOf(q) /\ CurveOf(q) /\ CaptureOf(q) /\ CallOf(q)
      BY DEF IInv
    <2>1. CASE req'[q].step = "lost" /\ req'[q].copied = Null /\ req'[q].curve = {}
      BY <2>1, StepNames DEF AuthorOf, CurveOf, CaptureOf, CallOf, At
    <2>2. CASE ~ Active(q) /\ req'[q] = req[q]
      <3>1. AuthorOf(q)' /\ CurveOf(q)'
        BY <1>1, <1>2, <2>0, <2>2 DEF AuthorOf, CurveOf, At, Idle
      <3>2. CaptureOf(q)'
        BY <1>1, <2>0, <2>2 DEF CaptureOf, At
      <3>3. CallOf(q)'
        <4>1. req[q].step = "idle" \/ req[q].step \in Answers
          BY <2>2 DEF Active
        <4>2. CASE req[q].step = "idle"
          <5>1. call[q].step = "new" /\ call[q].handler = 1 /\ handled[q] = {}
            BY <2>0, <4>2 DEF CallOf
          <5>2. call'[q] = call[q]
            BY <5>1, CrashReq
          <5> QED BY <1>1, <2>2, <4>2, <5>1, <5>2, StepNames DEF CallOf, At
        <4>3. CASE req[q].step \in Answers
          BY <2>2, <4>3, StepNames DEF CallOf, At
        <4> QED BY <4>1, <4>2, <4>3
      <3> QED BY <3>1, <3>2, <3>3
    <2> QED BY <2>1, <2>2, CrashReq
  <1>5. ASSUME NEW q \in alone PROVE AloneOf(q)'
    <2>1. q \in Requests /\ AloneOf(q)
      BY <1>0 DEF IInv
    <2>2. \A p \in Requests : ~ Active(p)' /\ req'[p].step # "insertPoints" /\
             (req'[p].step = "idle" => req[p].step = "idle")
      BY CrashReq, StepNames DEF Active
    <2> QED BY <2>1, <2>2 DEF AloneOf, At
  <1>6. TypeOK'
    <2>1. DP!IInv' => Dispatcher!TypeOK'
      BY DispatchTyped, PTL
    <2>2. Dispatcher!TypeOK'
      BY <1>1, <2>1
    <2>3. \A q \in Requests : req'[q].step # "dispatch" /\ req'[q].step \notin Capturing
      BY CrashReq, StepNames DEF Active
    <2> QED BY <1>0, <1>1, <2>2, <2>3
            DEF TypeOK, Point, Versions, RequestState, Steps, Answers, Ops, Capturing, At
  <1> QED BY <1>1, <1>3, <1>4, <1>5, <1>6 DEF IInv

\* Steps that leave the requests and their publications alone.
LEMMA AttachStep ==
  ASSUME IInv, (\E f \in Figures : Attach(f)) \/ UNCHANGED vars
  PROVE  IInv'
  <1>0. TypeOK /\ BaselinesInv /\ DP!IInv /\ alone \subseteq Requests
    BY DEF IInv, TypeOK
  <1>1. /\ baselines' = baselines /\ snapshots' = snapshots /\ req' = req /\ alone' = alone
        /\ call' = call /\ handled' = handled /\ DP!IInv'
        /\ figures' \in Figures \cup {Null} /\ (figures # Null => figures' # Null)
    <2>1. /\ UNCHANGED <<rows, req, alone, dispatchVars>>
          /\ figures' = figures \/ figures' \in Figures
      BY DEF Attach, vars
    <2>2. Null \notin Figures
      BY NamesAssumption
    <2>3. figures \in Figures \cup {Null}
      BY <1>0 DEF TypeOK
    <2> QED BY <1>0, <2>1, <2>2, <2>3, DispatchIdle DEF rows, dispatchVars
  <1>2. Authors' = Authors /\ \A q \in Requests : PointsBy(q)' = PointsBy(q)
    BY <1>1 DEF Authors, PointsBy
  <1>3. BaselinesInv'
    <2>1. \A q \in Authors : PointsBy(q)' = PointsBy(q) /\ req'[q].points = req[q].points
      BY <1>1, <1>2 DEF Authors
    <2> QED BY <1>0, <1>1, <1>2, <2>1 DEF BaselinesInv
  <1>4. ASSUME NEW q \in Requests
        PROVE  AuthorOf(q)' /\ CurveOf(q)' /\ CaptureOf(q)' /\ CallOf(q)'
    <2>0. AuthorOf(q) /\ CurveOf(q) /\ CaptureOf(q) /\ CallOf(q)
      BY DEF IInv
    <2> QED BY <1>1, <1>2, <2>0 DEF AuthorOf, CurveOf, CaptureOf, CallOf, At, Idle, Answers, Capturing
  <1>5. ASSUME NEW q \in alone PROVE AloneOf(q)'
    <2>1. AloneOf(q)
      BY DEF IInv
    <2> QED BY <1>1, <2>1, SameMax DEF AloneOf, Active, At, Answers
  <1>6. TypeOK'
    <2>1. DP!IInv' => Dispatcher!TypeOK'
      BY DispatchTyped, PTL
    <2>2. Dispatcher!TypeOK'
      BY <1>1, <2>1
    <2>3. \A q \in Requests : req[q].op = "author" =>
             /\ At(q, "dispatch")' => q \in Dispatcher!InProgress'
             /\ req[q].step \in Capturing =>
                  Dispatcher!At(q, "call")' /\ Dispatcher!HasHandler(q)'
      BY <1>0, <1>1 DEF TypeOK, At, Dispatcher!InProgress, Dispatcher!Ended, Dispatcher!At,
                        Dispatcher!HasHandler
    <2> QED BY <1>0, <1>1, <2>2, <2>3
            DEF TypeOK, Point, Versions, RequestState, Steps, Answers, Ops, Capturing, At
  <1> QED BY <1>1, <1>3, <1>4, <1>5, <1>6 DEF IInv

LEMMA Inductive == IInv /\ [Next]_vars => IInv'
  <1> SUFFICES ASSUME IInv, [Next]_vars PROVE IInv'
    OBVIOUS
  <1>1. ASSUME NEW r \in Requests, OneMoves(r) PROVE IInv'
    BY <1>1, OneMovesStep
  <1>2. CASE Crash
    BY <1>2, CrashStep
  <1>3. CASE \E f \in Figures : Attach(f)
    BY <1>3, AttachStep
  <1>4. CASE UNCHANGED vars
    BY <1>4, AttachStep
  <1> QED BY <1>1, <1>2, <1>3, <1>4 DEF Next, OneMoves

LEMMA Initial == Init => IInv
  <1> SUFFICES ASSUME Init PROVE IInv
    OBVIOUS
  <1>1. DP!IInv /\ Dispatcher!TypeOK
    BY DispatchInitial, DispatchTyped DEF Init
  <1>2. \A r \in Requests : req[r] = Idle
    BY DEF Init
  <1>3. /\ Idle.step = "idle" /\ Idle.op = "capture" /\ Idle.copied = Null /\ Idle.curve = {}
        /\ Idle \in RequestState
    BY StepNames DEF Idle, RequestState
  <1>4. PICK periods \in {{}, Periods} :
           baselines = {[version |-> 1, period |-> d, author |-> Earlier] : d \in periods}
    BY DEF Init
  <1> DEFINE P(d) == [version |-> 1, period |-> d, author |-> Earlier]
  <1>5. /\ baselines = {P(d) : d \in periods}
        /\ \A d : P(d).version = 1 /\ P(d).period = d /\ P(d).author = Earlier
        /\ \A d \in Periods : P(d) \in Point
    BY <1>4, VersionRange DEF Point
  <1> HIDE DEF P
  <1>6. /\ \A p \in baselines : p.version = 1 /\ p.author = Earlier
        /\ \A p, q \in baselines : p.period = q.period => p = q
        /\ baselines \subseteq Point
    BY <1>4, <1>5
  <1>7. Authors = {}
    BY <1>6, NamesAssumption DEF Authors, PointsBy
  <1>8. TypeOK
    <2>1. req \in [Requests -> RequestState]
      BY <1>3 DEF Init
    <2>2. /\ figures \in Figures \cup {Null} /\ snapshots \in [Days -> Figures \cup {Null}]
          /\ alone \subseteq Requests
      BY DEF Init
    <2>3. \A r \in Requests : req[r].op # "author"
      BY <1>2, <1>3
    <2> QED BY <1>1, <1>6, <2>1, <2>2, <2>3 DEF TypeOK
  <1>9. BaselinesInv
    <2>1. Cardinality(Authors) \in Nat
      BY <1>7, FS_EmptySet
    <2>2. \A p \in baselines : p.version <= 1 + Cardinality(Authors)
      BY <1>6, <2>1
    <2> QED BY <1>6, <1>7, <2>2 DEF BaselinesInv
  <1>10. ASSUME NEW r \in Requests
         PROVE  AuthorOf(r) /\ CurveOf(r) /\ CaptureOf(r) /\ CallOf(r)
    <2>1. call[r].step = "new" /\ call[r].handler = 1 /\ handled[r] = {}
      BY DEF Init, Dispatcher!Init
    <2>2. AuthorOf(r) /\ CurveOf(r)
      BY <1>2, <1>3, <1>7 DEF AuthorOf, CurveOf, At
    <2>3. CaptureOf(r) /\ CallOf(r)
      BY <1>2, <1>3, <2>1, StepNames DEF CaptureOf, CallOf, At
    <2> QED BY <2>2, <2>3
  <1>11. \A r \in alone : AloneOf(r)
    BY DEF Init
  <1> QED BY <1>1, <1>8, <1>9, <1>10, <1>11 DEF IInv

-----------------------------------------------------------------------------
(* The theorems. *)

\* The history, the requests and their publications stay consistent in every
\* behaviour: the inductive invariant.
THEOREM Invariance == Spec => []IInv
  BY Initial, Inductive, PTL DEF Spec

\* Versions stay within one more than the authors, and a baseline's capture
\* runs as the handler of its event and in no other way.
THEOREM TypeCorrect == Spec => []TypeOK
  <1>1. IInv => TypeOK
    BY DEF IInv
  <1> QED BY Invariance, <1>1, PTL

\* A summary computes with one value per date, and with all the points of
\* each author it meets, whoever writes a baseline between its two statements.
THEOREM SummariesRead == Spec => []SummariesReadCurves
  <1>1. ASSUME IInv, NEW r \in Requests, NEW p \in req[r].curve
        PROVE  /\ \A q \in req[r].curve : p.period = q.period => p = q
               /\ p.author \in Requests =>
                    {q.period : q \in {c \in req[r].curve : c.author = p.author}}
                       = req[p.author].points
    <2>1. CurveOf(r) /\ BaselinesInv
      BY <1>1 DEF IInv
    <2>2. \A q \in req[r].curve : q \in baselines /\ q.version = p.version
      BY <2>1 DEF CurveOf
    <2>3. \A q \in req[r].curve : p.period = q.period => p = q
      BY <2>1, <2>2 DEF BaselinesInv
    <2>4. ASSUME p.author \in Requests
          PROVE  {q.period : q \in {c \in req[r].curve : c.author = p.author}}
                    = req[p.author].points
      <3>1. PointsBy(p.author) \subseteq req[r].curve
        BY <2>1, <2>4 DEF CurveOf
      <3>2. {c \in req[r].curve : c.author = p.author} = PointsBy(p.author)
        BY <2>2, <3>1 DEF PointsBy
      <3>3. p.author \in Authors
        BY <2>2, <2>4 DEF Authors, PointsBy
      <3>4. {q.period : q \in PointsBy(p.author)} = req[p.author].points
        BY <2>1, <3>3 DEF BaselinesInv
      <3> QED BY <3>2, <3>4
    <2> QED BY <2>3, <2>4
  <1>2. IInv => SummariesReadCurves
    BY <1>1 DEF SummariesReadCurves
  <1> QED BY Invariance, <1>2, PTL

\* A baseline whose handler counts as handled has its anchor, whoever
\* inserted the snapshot and however often the capture was tried.
THEOREM HandledAreAnchored == Spec => []HandledBaselinesAreAnchored
  <1>1. IInv => HandledBaselinesAreAnchored
    BY DEF IInv, CaptureOf, HandledBaselinesAreAnchored
  <1> QED BY Invariance, <1>1, PTL

\* No step takes a row of the history back or changes it.
THEOREM AppendOnly == Spec => HistoryIsAppendOnly
  <1>1. ASSUME IInv, [Next]_vars
        PROVE  /\ baselines \subseteq baselines'
               /\ \A d \in Days : snapshots[d] # Null => snapshots'[d] = snapshots[d]
    <2>1. ASSUME NEW r \in Requests, OneMoves(r)
          PROVE  /\ baselines \subseteq baselines'
                 /\ \A d \in Days : snapshots[d] # Null => snapshots'[d] = snapshots[d]
      BY <1>1, <2>1, AuthorsGrow, SnapshotsGrow
    <2>2. CASE Crash \/ (\E f \in Figures : Attach(f)) \/ UNCHANGED vars
      BY <2>2 DEF Crash, Attach, vars, rows
    <2> QED BY <1>1, <2>1, <2>2 DEF Next, OneMoves
  <1>2. IInv /\ [Next]_vars =>
          /\ baselines \subseteq baselines'
          /\ \A d \in Days : snapshots[d] # Null => snapshots'[d] = snapshots[d]
    BY <1>1
  <1> QED BY <1>2, Invariance, PTL DEF Spec, HistoryIsAppendOnly

\* The highest version, as a fact of any typed state.
MaxFacts ==
    /\ MaxVersion \in Versions \cup {0}
    /\ MaxVersion # 0 => \E p \in baselines : p.version = MaxVersion
    /\ \A p \in baselines : p.version <= MaxVersion

LEMMA MaxIs == TypeOK => MaxFacts
  BY MaxVersionIs DEF MaxFacts

\* The points of an author that ran alone are the baseline of the highest
\* version, and nothing else is.
LEMMA OwnVersion ==
  ASSUME IInv, [Next]_vars, NEW r \in alone, At(r, "insertPoints"), At(r, "announce")'
  PROVE  {p \in baselines' : p.version = MaxVersion'} = baselines' \ baselines
  <1> DEFINE new == NewPoints(r, req[r].points)
  <1>0. TypeOK /\ AloneOf(r) /\ r \in Requests
    BY DEF IInv, TypeOK
  <1>1. OneMoves(r)
    <2>1. req'[r].step = "announce" /\ req[r].step = "insertPoints"
      BY DEF At
    <2>2. CASE Crash
      BY <1>0, <2>1, <2>2, CrashReq
    <2>3. CASE (\E f \in Figures : Attach(f)) \/ UNCHANGED vars
      BY <2>1, <2>3 DEF Attach, vars
    <2>4. ASSUME NEW q \in Requests, OneMoves(q) PROVE q = r
      BY <1>0, <2>1, <2>4, OneMovesReq
    <2> QED BY <2>2, <2>3, <2>4 DEF Next, OneMoves
  <1>2. baselines' = baselines \cup new /\ ~ Conflict(r)
    <2>1. req[r].step = "insertPoints" /\ req'[r].step = "announce"
      BY DEF At
    <2>2. ~ Begin(r) /\ ~ ServerError(r)
      <3>1. ~ Begin(r)
        BY <1>0, <2>1, BeginFields
      <3>2. "serverError" \in Answers
        BY StepNames
      <3>3. ASSUME ServerError(r) PROVE FALSE
        BY <1>0, <2>1, <3>2, <3>3, AnswerFields DEF ServerError
      <3> QED BY <3>1, <3>3
    <2>3. InsertPoints(r)
      <3>1. InsertPoints(r) \/ RejectPoints(r) \/ ServerError(r) \/ Begin(r)
        BY <1>1, <2>1, StepNames
           DEF OneMoves, Advance, ReadMax, InsertPoints, RejectPoints, AnnounceBaseline,
               AfterHandler, ReadProject, NothingToCapture, FindSnapshot, InsertSnapshot,
               RejectSnapshot, AnnounceCapture, ReadActiveVersion, ReadPoints, CaptureRaises, At
      <3>2. "serverError" \in Answers
        BY StepNames
      <3>3. ~ RejectPoints(r)
        BY <1>0, <2>1, <3>2, AnswerFields DEF RejectPoints
      <3> QED BY <2>2, <3>1, <3>3
    <2> QED BY <2>3 DEF InsertPoints
  <1>3. req[r].version = MaxVersion + 1 /\ MaxVersion \in Nat
    BY <1>0, MaxVersionIs, VersionRange DEF AloneOf
  <1>4. \A p \in baselines : p.version \in Nat /\ p.version <= MaxVersion
    BY <1>0, MaxVersionIs, PointTyped, VersionRange
  <1>5. /\ \A p \in new : p.version = MaxVersion + 1
        /\ \E p \in new : TRUE
    <2>1. req[r].points # {}
      BY <1>0 DEF IInv, AuthorOf, At
    <2> QED BY <1>0, <1>3, <2>1, NewPointsAre
  <1>6. /\ MaxVersion' \in Nat
        /\ MaxVersion' # 0 => \E p \in baselines' : p.version = MaxVersion'
        /\ \A p \in baselines' : p.version <= MaxVersion'
    <2>1. MaxFacts'
      <3>1. TypeOK'
        BY <1>0, <1>1, TypeStep
      <3>2. TypeOK' => MaxFacts'
        BY MaxIs, PTL
      <3> QED BY <3>1, <3>2
    <2>2. Versions' = Versions
      BY DEF Versions
    <2> QED BY <2>1, <2>2, VersionRange DEF MaxFacts
  <1> DEFINE m == MaxVersion
             n == MaxVersion'
  <1>7. /\ m \in Nat /\ n \in Nat
        /\ baselines' = baselines \cup new
        /\ \A p \in baselines : p.version \in Nat /\ p.version <= m
        /\ \A p \in new : p.version = m + 1
        /\ \E p \in new : TRUE
        /\ n # 0 => \E p \in baselines' : p.version = n
        /\ \A p \in baselines' : p.version <= n
    BY <1>2, <1>3, <1>4, <1>5, <1>6
  <1> SUFFICES {p \in baselines' : p.version = n} = baselines' \ baselines
    OBVIOUS
  <1> HIDE DEF m, n, new
  <1>8. m + 1 <= n
    BY <1>7
  <1>9. n = m + 1
    <2>1. PICK p \in baselines' : p.version = n
      BY <1>7, <1>8
    <2> QED BY <1>7, <1>8, <2>1
  <1>10. \A p \in baselines : p.version # n
    BY <1>7, <1>9
  <1> QED BY <1>7, <1>9, <1>10

\* An author that overlaps no other request gets a version of its own, and it
\* is the active one.
THEOREM SerialAuthors == Spec => SerialAuthorsOwnTheirVersion
  <1>1. IInv /\ [Next]_vars =>
          \A r \in alone :
             At(r, "insertPoints") /\ At(r, "announce")' =>
                {p \in baselines' : p.version = MaxVersion'} = baselines' \ baselines
    BY OwnVersion
  <1> QED BY <1>1, Invariance, PTL DEF Spec, SerialAuthorsOwnTheirVersion

=============================================================================
