------------------------- MODULE PerformanceHistory -------------------------
(***************************************************************************)
(* The planned and the actual history of one project:                      *)
(* ProjectPerformanceService over PerformanceRepository.  A baseline is a  *)
(* set of points under a version number that is read (max) before it is    *)
(* used; a snapshot is looked for and then inserted, one per day.  A new   *)
(* baseline publishes an event whose handler captures a snapshot in the    *)
(* same thread (module EventDispatch), every read of the project captures  *)
(* one too.  Requests run concurrently, each one a chain of transactions.  *)
(***************************************************************************)
EXTENDS Integers, FiniteSets, FiniteSetsExt

CONSTANTS
    Requests,
    Periods,        \* dates of a planned-value curve
    Days,           \* dates a snapshot is captured on
    Figures,        \* values of (actual_cost, progress_percentage)
    Null,           \* a project without figures, a day without snapshot
    Earlier,        \* the author of a baseline that was there before
    MaxAttempts     \* of EventDispatch

ASSUME RequestsAssumption == IsFiniteSet(Requests)
ASSUME NamesAssumption ==
    Null \notin Figures \cup Days /\ Earlier \notin Requests
ASSUME AttemptsAssumption == MaxAttempts \in Nat \ {0}

VARIABLES
    figures,        \* the project's current figures
    baselines,      \* project_performance_baselines rows
    snapshots,      \* project_performance_snapshots, by date
    req,            \* what each request is doing
    alone,          \* history: requests no other request has overlapped so far
    log, executions, deadLetters, call, handled, faulted    \* of EventDispatch

rows == <<baselines, snapshots>>
dispatchVars == <<log, executions, deadLetters, call, handled, faulted>>
vars == <<figures, rows, req, alone, dispatchVars>>

\* project_performance_baseline.created has one handler, and it is plain.
Dispatcher == INSTANCE EventDispatch WITH
    Events <- Requests, Handlers <- {"capture"}, Workflows <- {},
    Registered <- [r \in Requests |-> <<"capture">>]

Versions == 1 .. 1 + Cardinality(Requests)
Point == [version: Versions, period: Periods, author: Requests \cup {Earlier}]

Answers == {"done", "serverError", "lost"}

Steps == {"idle",
          "max", "insertPoints", "announce", "dispatch",            \* baseline
          "project", "find", "insertSnapshot", "announceCapture",   \* capture
          "activeVersion", "points"}                                \* summary
         \cup Answers

\* The steps of capture_snapshot.
Capturing == {"project", "find", "insertSnapshot", "announceCapture"}

Ops == {"author", "capture", "summary"}

RequestState ==
    [step: Steps, op: Ops,
     points: SUBSET Periods,        \* period dates of the baseline it authors
     version: Versions \cup {0},    \* the version it writes or reads
     day: Days \cup {Null},         \* the day it captures
     copied: Figures \cup {Null},   \* the figures it captures
     curve: SUBSET Point]           \* the points it has read

Idle ==
    [step |-> "idle", op |-> "capture", points |-> {}, version |-> 0,
     day |-> Null, copied |-> Null, curve |-> {}]

At(r, step) == req[r].step = step

\* Types; the publication waits for the request that is its handler.
TypeOK ==
    /\ figures \in Figures \cup {Null}
    /\ baselines \subseteq Point
    /\ snapshots \in [Days -> Figures \cup {Null}]
    /\ req \in [Requests -> RequestState]
    /\ alone \subseteq Requests
    /\ Dispatcher!TypeOK
    /\ \A r \in Requests : req[r].op = "author" =>
         /\ At(r, "dispatch") => r \in Dispatcher!InProgress
         /\ req[r].step \in Capturing => Dispatcher!At(r, "call") /\ Dispatcher!HasHandler(r)

Init ==
    /\ figures = Null
    /\ \E periods \in {{}, Periods} :
         baselines = {[version |-> 1, period |-> d, author |-> Earlier] : d \in periods}
    /\ snapshots = [d \in Days |-> Null]
    /\ req = [r \in Requests |-> Idle]
    /\ alone = {}
    /\ Dispatcher!Init

-----------------------------------------------------------------------------

Goto(r, step) == req' = [req EXCEPT ![r].step = step]

\* The request is answered: of what it knew, its points are remembered.
Answered(r, answer) == [Idle EXCEPT !.step = answer, !.points = req[r].points]

Answer(r, answer) == req' = [req EXCEPT ![r] = Answered(r, answer)]

Active(r) == req[r].step \notin Answers \cup {"idle"}

\* A request starts: it overlaps the active ones.
Starts(r, state) ==
    /\ At(r, "idle")
    /\ req' = [req EXCEPT ![r] = state]
    /\ alone' = IF \E q \in Requests : Active(q) THEN {q \in alone : ~ Active(q)}
                ELSE alone \cup {r}
    /\ UNCHANGED <<figures, rows, dispatchVars>>

\* POST performance-baselines, with a point at least (dates given twice are
\* refused like a Conflict).
BeginAuthor(r, periods) ==
    Starts(r, [req[r] EXCEPT !.step = "max", !.op = "author", !.points = periods])

\* POST performance-snapshots, or GET projects-delivery, which captures first.
BeginCapture(r) == Starts(r, [req[r] EXCEPT !.step = "project"])

\* GET performance-summary.
BeginSummary(r) == Starts(r, [req[r] EXCEPT !.step = "activeVersion", !.op = "summary"])

\* The highest version, 0 when there is no baseline.
MaxVersion == Max({0} \cup {p.version : p \in baselines})

NewPoints(r, periods) ==
    {[version |-> req[r].version, period |-> d, author |-> r] : d \in periods}

ReusesMax(r) ==   \* variant of ReadMax: the version is not incremented
    /\ At(r, "max")
    /\ req' = [req EXCEPT ![r].step = "insertPoints", ![r].version = Max({1, MaxVersion})]
    /\ UNCHANGED <<figures, rows, alone, dispatchVars>>

CountsRows(r) ==   \* variant of ReadMax: the rows are counted instead
    /\ At(r, "max")
    /\ req' = [req EXCEPT ![r].step = "insertPoints", ![r].version = Cardinality(baselines) + 1]
    /\ UNCHANGED <<figures, rows, alone, dispatchVars>>

ReadMax(r) ==
    /\ At(r, "max")
    /\ req' = [req EXCEPT ![r].step = "insertPoints", ![r].version = MaxVersion + 1]
    /\ UNCHANGED <<figures, rows, alone, dispatchVars>>

\* The unique constraint on project, version and date.
Conflict(r) ==
    \E p \in baselines : p.version = req[r].version /\ p.period \in req[r].points

PointByPoint(r) ==   \* variant of InsertPoints: the loop commits each point
    /\ At(r, "insertPoints") /\ ~ Conflict(r)
    /\ \E d \in req[r].points :
         /\ baselines' = baselines \cup NewPoints(r, {d})
         /\ req' = [req EXCEPT ![r].points = @ \ {d},
                               ![r].step = IF req[r].points = {d} THEN "announce" ELSE @]
    /\ UNCHANGED <<figures, snapshots, alone, dispatchVars>>

\* All points in one transaction.
InsertPoints(r) ==
    /\ At(r, "insertPoints") /\ ~ Conflict(r)
    /\ baselines' = baselines \cup NewPoints(r, req[r].points)
    /\ Goto(r, "announce")
    /\ UNCHANGED <<figures, snapshots, alone, dispatchVars>>

\* Nothing maps this IntegrityError: 500.
RejectPoints(r) ==
    /\ At(r, "insertPoints") /\ Conflict(r)
    /\ Answer(r, "serverError")
    /\ UNCHANGED <<figures, rows, alone, dispatchVars>>

\* The audit entry and the event; the dispatcher calls the handler at once.
AnnounceBaseline(r) ==
    /\ At(r, "announce")
    /\ \/ Dispatcher!Persist(r) /\ Goto(r, "project")
       \/ Dispatcher!PersistRaises(r) /\ Answer(r, "serverError")
    /\ UNCHANGED <<figures, rows, alone>>

\* After the handler: a dead letter, and publish returns or raises.
AfterHandler(r) ==
    /\ At(r, "dispatch")
    /\ \/ Dispatcher!Return(r) /\ Goto(r, "done")
       \/ Dispatcher!RecordDeadLetter(r) /\ Goto(r, "dispatch")
       \/ Dispatcher!DeadLetterRaises(r) /\ Answer(r, "serverError")
    /\ UNCHANGED <<figures, rows, alone>>

-----------------------------------------------------------------------------
(* capture_snapshot: called by a route, or by the handler. *)

\* It returns: to the dispatcher, or to the route, which answers.
Leave(r) ==
    IF req[r].op = "author"
    THEN Dispatcher!PlainReturns(r) /\ Goto(r, "dispatch")
    ELSE Answer(r, "done") /\ UNCHANGED dispatchVars

\* It raises: the dispatcher tries again, a route answers 500.
Raise(r) ==
    IF req[r].op = "author"
    THEN /\ Dispatcher!PlainRaises(r)
         /\ Goto(r, IF Dispatcher!At(r, "deadLetter")' THEN "dispatch" ELSE "project")
    ELSE Answer(r, "serverError") /\ UNCHANGED dispatchVars

\* The project's figures; the day is the clock's, or any date the caller of
\* the POST names.
ReadProject(r, d) ==
    /\ At(r, "project") /\ figures # Null
    /\ req' = [req EXCEPT ![r].step = "find", ![r].copied = figures, ![r].day = d]
    /\ UNCHANGED <<figures, rows, alone, dispatchVars>>

\* ValueError: the handler and the reads ignore it, the POST answers 422.
NothingToCapture(r) ==
    /\ At(r, "project") /\ figures = Null
    /\ Leave(r)
    /\ UNCHANGED <<figures, rows, alone>>

FindSnapshot(r) ==
    /\ At(r, "find")
    /\ Goto(r, IF snapshots[req[r].day] = Null THEN "insertSnapshot" ELSE "announceCapture")
    /\ UNCHANGED <<figures, rows, alone, dispatchVars>>

WithSnapshot(r) == [snapshots EXCEPT ![req[r].day] = req[r].copied]

Overwrite(r) ==   \* variant of InsertSnapshot: ON CONFLICT DO UPDATE
    /\ At(r, "insertSnapshot")
    /\ snapshots' = WithSnapshot(r)
    /\ Goto(r, "announceCapture")
    /\ UNCHANGED <<figures, baselines, alone, dispatchVars>>

InsertSnapshot(r) ==
    /\ At(r, "insertSnapshot") /\ snapshots[req[r].day] = Null
    /\ snapshots' = WithSnapshot(r)
    /\ Goto(r, "announceCapture")
    /\ UNCHANGED <<figures, baselines, alone, dispatchVars>>

InsertAgain(r) ==   \* variant of RejectSnapshot: the insert is repeated
    /\ At(r, "insertSnapshot") /\ snapshots[req[r].day] # Null
    /\ UNCHANGED vars

\* The unique constraint: another request has captured the day meanwhile.
RejectSnapshot(r) ==
    /\ At(r, "insertSnapshot") /\ snapshots[req[r].day] # Null
    /\ Raise(r)
    /\ UNCHANGED <<figures, rows, alone>>

\* The audit entry and project_performance_snapshot.captured, which has no
\* handler: one more row each.
AnnounceCapture(r) ==
    /\ At(r, "announceCapture")
    /\ Leave(r)
    /\ UNCHANGED <<figures, rows, alone>>

-----------------------------------------------------------------------------
(* get_active_baseline: two statements. *)

ReadActiveVersion(r) ==
    /\ At(r, "activeVersion")
    /\ IF baselines = {} THEN Answer(r, "done")
       ELSE req' = [req EXCEPT ![r].step = "points", ![r].version = MaxVersion]
    /\ UNCHANGED <<figures, rows, alone, dispatchVars>>

ReadPoints(r) ==
    /\ At(r, "points")
    /\ req' = [req EXCEPT ![r] = [Answered(r, "done") EXCEPT
                                    !.curve = {p \in baselines : p.version = req[r].version}]]
    /\ UNCHANGED <<figures, rows, alone, dispatchVars>>

-----------------------------------------------------------------------------
(* Failures, and the world around the requests. *)

IgnoreErrors(r) ==   \* variant of CaptureRaises: every exception is taken for "nothing to capture"
    /\ \/ req[r].step \in Capturing \ {"insertSnapshot"} /\ UNCHANGED snapshots
       \/ At(r, "insertSnapshot") /\ snapshots[req[r].day] = Null
            /\ Dispatcher!InDoubt(snapshots, WithSnapshot(r), snapshots')
    /\ Leave(r)
    /\ UNCHANGED <<figures, baselines, alone>>

\* A statement of a capture raises; a commit that does may have been made.
CaptureRaises(r) ==
    /\ \/ req[r].step \in Capturing \ {"insertSnapshot"} /\ UNCHANGED snapshots
       \/ At(r, "insertSnapshot") /\ snapshots[req[r].day] = Null
            /\ Dispatcher!InDoubt(snapshots, WithSnapshot(r), snapshots')
    /\ Raise(r)
    /\ UNCHANGED <<figures, baselines, alone>>

\* A statement of the other operations raises: 500.
ServerError(r) ==
    /\ \/ req[r].step \in {"max", "announce", "activeVersion", "points"} /\ UNCHANGED baselines
       \/ At(r, "insertPoints") /\ ~ Conflict(r)
            /\ Dispatcher!InDoubt(baselines, baselines \cup NewPoints(r, req[r].points), baselines')
    /\ Answer(r, "serverError")
    /\ UNCHANGED <<figures, snapshots, alone, dispatchVars>>

\* The process ends under all active requests.
Crash ==
    /\ \E r \in Requests : Active(r)
    /\ req' = [r \in Requests |-> IF Active(r) THEN Answered(r, "lost") ELSE req[r]]
    /\ \/ Dispatcher!Crash
       \/ Dispatcher!InProgress = {} /\ UNCHANGED dispatchVars
    /\ UNCHANGED <<figures, rows, alone>>

\* attach_project_to_program gives the project its figures, outside the API.
Attach(f) ==
    /\ figures' = f
    /\ UNCHANGED <<rows, req, alone, dispatchVars>>

Advance(r) ==
    \/ ReadMax(r) \/ InsertPoints(r) \/ RejectPoints(r)
    \/ AnnounceBaseline(r) \/ AfterHandler(r)
    \/ (\E d \in Days : ReadProject(r, d)) \/ NothingToCapture(r) \/ FindSnapshot(r)
    \/ InsertSnapshot(r) \/ RejectSnapshot(r) \/ AnnounceCapture(r)
    \/ ReadActiveVersion(r) \/ ReadPoints(r)

Begin(r) ==
    \/ \E periods \in (SUBSET Periods) \ {{}} : BeginAuthor(r, periods)
    \/ BeginCapture(r)
    \/ BeginSummary(r)

Next ==
    \/ \E r \in Requests : Begin(r) \/ Advance(r) \/ CaptureRaises(r) \/ ServerError(r)
    \/ Crash
    \/ \E f \in Figures : Attach(f)

Spec == Init /\ [][Next]_vars

\* The thread of a request keeps running; nothing makes a client send one.
FairSpec == Spec /\ \A r \in Requests : WF_vars(Advance(r))

-----------------------------------------------------------------------------
(* Properties. *)

\* What a summary computes with is a curve: one value per date, and of each
\* author it meets all the points, although it is read in two statements
\* while baselines are being written.
SummariesReadCurves ==
    \A r \in Requests : \A p \in req[r].curve :
        /\ \A q \in req[r].curve : p.period = q.period => p = q
        /\ p.author \in Requests =>
             {q.period : q \in {c \in req[r].curve : c.author = p.author}} = req[p.author].points

\* Nothing takes a row of the history back or changes it: no rebaseline, no
\* second capture, no retry of the handler.
HistoryIsAppendOnly ==
    [][ /\ baselines \subseteq baselines'
        /\ \A d \in Days : snapshots[d] # Null => snapshots'[d] = snapshots[d] ]_vars

\* An author that overlaps no other request gets a version of its own, and it
\* is the active one.
SerialAuthorsOwnTheirVersion ==
    [][ \A r \in alone :
          At(r, "insertPoints") /\ At(r, "announce")' =>
            {p \in baselines' : p.version = MaxVersion'} = baselines' \ baselines ]_vars

\* A baseline whose handler counts as handled is anchored: the day it was
\* to capture has a snapshot, whoever inserted it and however often the
\* handler was retried.
HandledBaselinesAreAnchored ==
    \A r \in Requests :
        At(r, "done") /\ 1 \in handled[r] /\ req[r].copied # Null =>
            snapshots[req[r].day] # Null

\* Every request is answered.
RequestsTerminate == \A r \in Requests : ~ At(r, "idle") ~> req[r].step \in Answers

\* capture_snapshot's docstring: "a second capture on the same snapshot_date
\* returns the existing row unchanged" (it does not raise).
SecondCaptureReturnsTheRow ==
    [][ \A r \in Requests :
          At(r, "insertSnapshot") /\ snapshots[req[r].day] # Null /\ ~ At(r, "insertSnapshot")' =>
            At(r, "announceCapture")' \/ At(r, "lost")' ]_vars

=============================================================================
