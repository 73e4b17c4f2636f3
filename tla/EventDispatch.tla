--------------------------- MODULE EventDispatch ---------------------------
(***************************************************************************)
(* Publication of domain events: InProcessEventPublisher writes the event  *)
(* to the events table and hands it to EventDispatcher, which calls the    *)
(* registered handlers one after the other in the publishing thread, each  *)
(* up to MAX_ATTEMPTS times, and records a dead letter for a handler that  *)
(* failed every time.  A handler is plain, or it is a workflow, which      *)
(* WorkflowRuntime runs while ExecutionTracker keeps its row in            *)
(* workflow_executions.                                                    *)
(*                                                                         *)
(* Every table write is a transaction of its own.  A write that raises has *)
(* either been rolled back or been committed with the acknowledgement      *)
(* lost; the process may end between any two of them.                      *)
(***************************************************************************)
EXTENDS Naturals, Sequences, FiniteSets

CONSTANTS
    Events,         \* event ids, one per call of publish
    Handlers,
    Workflows,      \* the handlers that go through WorkflowRuntime
    Registered,     \* handlers registered for the type of each event, in order
    MaxAttempts     \* MAX_ATTEMPTS

ASSUME HandlersAssumption ==
    /\ Workflows \subseteq Handlers
    /\ Registered \in [Events -> Seq(Handlers)]
ASSUME RegisteredOnce ==
    \A e \in Events : \A j, k \in DOMAIN Registered[e] :
        Registered[e][j] = Registered[e][k] => j = k
ASSUME AttemptsAssumption == MaxAttempts \in Nat \ {0}

VARIABLES
    log,            \* events rows
    executions,     \* status of the workflow_executions row (event, workflow)
    deadLetters,    \* number of dead_letter_events rows of an event
    call,           \* where the publishing thread of an event stands
    handled,        \* history: positions of the handlers that returned
    faulted         \* history: events for which a table write raised

vars == <<log, executions, deadLetters, call, handled, faulted>>

Ended == {"returned", "raised", "lost"}

Steps == {"new",                            \* publish was not called yet
          "call",                           \* about to call the current handler
          "steps", "complete", "fail",      \* inside WorkflowRuntime.run
          "deadLetter"} \cup Ended

Statuses == {"none", "running", "completed", "failed"}

\* The current handler is call[e].handler, a position in Registered[e].
CallState(e) ==
    [step: Steps, handler: 1 .. Len(Registered[e]) + 1, attempt: 1 .. MaxAttempts]

\* Types; past the last handler there is nothing left but to return.
TypeOK ==
    /\ log \subseteq Events
    /\ executions \in [Events \X Workflows -> Statuses]
    /\ deadLetters \in [Events -> Nat]
    /\ DOMAIN call = Events
    /\ \A e \in Events : call[e] \in CallState(e)
    /\ \A e \in Events : call[e].step \in {"steps", "complete", "fail", "deadLetter"} =>
                             call[e].handler <= Len(Registered[e])
    /\ \A e \in Events : call[e].step \in {"steps", "complete", "fail"} =>
                             Registered[e][call[e].handler] \in Workflows
    /\ DOMAIN handled = Events
    /\ \A e \in Events : handled[e] \subseteq 1 .. call[e].handler - 1
    /\ faulted \subseteq Events

Init ==
    /\ log = {}
    /\ executions = [x \in Events \X Workflows |-> "none"]
    /\ deadLetters = [e \in Events |-> 0]
    /\ call = [e \in Events |-> [step |-> "new", handler |-> 1, attempt |-> 1]]
    /\ handled = [e \in Events |-> {}]
    /\ faulted = {}

-----------------------------------------------------------------------------
(* EventDispatcher. *)

At(e, step) == call[e].step = step

Goto(e, step) == call' = [call EXCEPT ![e].step = step]

HasHandler(e) == call[e].handler <= Len(Registered[e])

Current(e) == Registered[e][call[e].handler]

\* A write that raises: rolled back, or committed without acknowledgement.
InDoubt(before, after, value) == value \in {before, after}

NextHandler(e) ==
    call' = [call EXCEPT ![e] = [step |-> "call", handler |-> @.handler + 1, attempt |-> 1]]

HandlerReturned(e) ==
    /\ handled' = [handled EXCEPT ![e] = @ \cup {call[e].handler}]
    /\ NextHandler(e)

ErrorPropagates(e) ==   \* variant of HandlerRaised: the last error is raised again
    /\ IF call[e].attempt < MaxAttempts
       THEN call' = [call EXCEPT ![e].step = "call", ![e].attempt = @ + 1]
       ELSE Goto(e, "raised")
    /\ UNCHANGED handled

OneTooMany(e) ==   \* variant of HandlerRaised: the last attempt is retried as well
    /\ IF call[e].attempt <= MaxAttempts
       THEN call' = [call EXCEPT ![e].step = "call", ![e].attempt = @ + 1]
       ELSE Goto(e, "deadLetter")
    /\ UNCHANGED handled

AgainAndAgain(e) ==   \* variant of HandlerRaised: attempts are not counted
    /\ Goto(e, "call")
    /\ UNCHANGED handled

\* Any exception of the handler: try again at once, or give up.
HandlerRaised(e) ==
    /\ IF call[e].attempt < MaxAttempts
       THEN call' = [call EXCEPT ![e].step = "call", ![e].attempt = @ + 1]
       ELSE Goto(e, "deadLetter")
    /\ UNCHANGED handled

NotPersisted(e) ==   \* variant of Persist: dispatch without the write
    /\ At(e, "new")
    /\ Goto(e, "call")
    /\ UNCHANGED <<log, executions, deadLetters, handled, faulted>>

\* publish: the event is durable before any handler sees it.
Persist(e) ==
    /\ At(e, "new")
    /\ log' = log \cup {e}
    /\ Goto(e, "call")
    /\ UNCHANGED <<executions, deadLetters, handled, faulted>>

PersistRaises(e) ==
    /\ At(e, "new")
    /\ InDoubt(log, log \cup {e}, log')
    /\ faulted' = faulted \cup {e}
    /\ Goto(e, "raised")
    /\ UNCHANGED <<executions, deadLetters, handled>>

\* A handler that is not a workflow does its work (modelled where it belongs).
PlainReturns(e) ==
    /\ At(e, "call") /\ HasHandler(e) /\ Current(e) \notin Workflows
    /\ HandlerReturned(e)
    /\ UNCHANGED <<log, executions, deadLetters, faulted>>

PlainRaises(e) ==
    /\ At(e, "call") /\ HasHandler(e) /\ Current(e) \notin Workflows
    /\ HandlerRaised(e)
    /\ UNCHANGED <<log, executions, deadLetters, faulted>>

NotRecorded(e) ==   \* variant of RecordDeadLetter: the failure is only logged
    /\ At(e, "deadLetter")
    /\ NextHandler(e)
    /\ UNCHANGED <<log, executions, deadLetters, handled, faulted>>

\* MAX_ATTEMPTS is exhausted: one row, and on to the next handler.
RecordDeadLetter(e) ==
    /\ At(e, "deadLetter")
    /\ deadLetters' = [deadLetters EXCEPT ![e] = @ + 1]
    /\ NextHandler(e)
    /\ UNCHANGED <<log, executions, handled, faulted>>

\* Nothing catches this exception: it leaves dispatch and publish.
DeadLetterRaises(e) ==
    /\ At(e, "deadLetter")
    /\ InDoubt(deadLetters, [deadLetters EXCEPT ![e] = @ + 1], deadLetters')
    /\ faulted' = faulted \cup {e}
    /\ Goto(e, "raised")
    /\ UNCHANGED <<log, executions, handled>>

\* publish returns the event to its caller.
Return(e) ==
    /\ At(e, "call") /\ ~ HasHandler(e)
    /\ Goto(e, "returned")
    /\ UNCHANGED <<log, executions, deadLetters, handled, faulted>>

-----------------------------------------------------------------------------
(* WorkflowRuntime.run, with ExecutionTracker's three writes. *)

WithStatus(e, status) == [executions EXCEPT ![<<e, Current(e)>>] = status]

\* ExecutionTracker.start: insert the row, or reset the one of an earlier attempt.
Start(e) ==
    /\ At(e, "call") /\ HasHandler(e) /\ Current(e) \in Workflows
    /\ executions' = WithStatus(e, "running")
    /\ Goto(e, "steps")
    /\ UNCHANGED <<log, deadLetters, handled, faulted>>

StartRaises(e) ==
    /\ At(e, "call") /\ HasHandler(e) /\ Current(e) \in Workflows
    /\ InDoubt(executions, WithStatus(e, "running"), executions')
    /\ faulted' = faulted \cup {e}
    /\ HandlerRaised(e)
    /\ UNCHANGED <<log, deadLetters>>

StepsReturn(e) ==
    /\ At(e, "steps")
    /\ Goto(e, "complete")
    /\ UNCHANGED <<log, executions, deadLetters, handled, faulted>>

StepRaises(e) ==
    /\ At(e, "steps")
    /\ Goto(e, "fail")
    /\ UNCHANGED <<log, executions, deadLetters, handled, faulted>>

\* ExecutionTracker.complete, outside the try block of run.
Complete(e) ==
    /\ At(e, "complete")
    /\ executions' = WithStatus(e, "completed")
    /\ HandlerReturned(e)
    /\ UNCHANGED <<log, deadLetters, faulted>>

CompleteRaises(e) ==
    /\ At(e, "complete")
    /\ InDoubt(executions, WithStatus(e, "completed"), executions')
    /\ faulted' = faulted \cup {e}
    /\ HandlerRaised(e)
    /\ UNCHANGED <<log, deadLetters>>

Swallowed(e) ==   \* variant of RecordFailure: the original exception is not raised again
    /\ At(e, "fail")
    /\ executions' = WithStatus(e, "failed")
    /\ HandlerReturned(e)
    /\ UNCHANGED <<log, deadLetters, faulted>>

Unrecorded(e) ==   \* variant of RecordFailure: the tracker is not told
    /\ At(e, "fail")
    /\ HandlerRaised(e)
    /\ UNCHANGED <<log, executions, deadLetters, faulted>>

\* ExecutionTracker.fail, and the original exception goes on.
RecordFailure(e) ==
    /\ At(e, "fail")
    /\ executions' = WithStatus(e, "failed")
    /\ HandlerRaised(e)
    /\ UNCHANGED <<log, deadLetters, faulted>>

RecordFailureRaises(e) ==
    /\ At(e, "fail")
    /\ InDoubt(executions, WithStatus(e, "failed"), executions')
    /\ faulted' = faulted \cup {e}
    /\ HandlerRaised(e)
    /\ UNCHANGED <<log, deadLetters>>

-----------------------------------------------------------------------------

InProgress == {e \in Events : call[e].step \notin Ended \cup {"new"}}

\* The process ends.  Nothing reads the events table again when it restarts.
Crash ==
    /\ InProgress # {}
    /\ call' = [e \in Events |-> IF e \in InProgress THEN [call[e] EXCEPT !.step = "lost"]
                                 ELSE call[e]]
    /\ UNCHANGED <<log, executions, deadLetters, handled, faulted>>

\* What the publishing thread does once publish was called.
Dispatch(e) ==
    \/ PlainReturns(e) \/ PlainRaises(e)
    \/ RecordDeadLetter(e) \/ DeadLetterRaises(e)
    \/ Return(e)
    \/ Start(e) \/ StartRaises(e)
    \/ StepsReturn(e) \/ StepRaises(e)
    \/ Complete(e) \/ CompleteRaises(e)
    \/ RecordFailure(e) \/ RecordFailureRaises(e)

Next ==
    \/ \E e \in Events : Persist(e) \/ PersistRaises(e) \/ Dispatch(e)
    \/ Crash

Spec == Init /\ [][Next]_vars

\* A thread that was called keeps running (handlers do return or raise);
\* nothing makes a producer publish.
FairSpec == Spec /\ \A e \in Events : WF_vars(Dispatch(e))

-----------------------------------------------------------------------------
(* Properties. *)

\* publish returns only when every handler has returned once or left exactly
\* one dead letter, whatever failed underneath.
ReturnedMeansSettled ==
    \A e \in Events : At(e, "returned") =>
        /\ handled[e] \subseteq DOMAIN Registered[e]
        /\ deadLetters[e] = Len(Registered[e]) - Cardinality(handled[e])

\* A workflow that counts as handled has a row that says completed, for good:
\* no retry of its own or of another handler takes it back.
HandledWorkflowsAreCompleted ==
    \A e \in Events : \A k \in handled[e] :
        Registered[e][k] \in Workflows => executions[<<e, Registered[e][k]>>] = "completed"

\* While the database answers, an exhausted workflow leaves two records of two
\* owners: the dead letter and a row that says failed.
ExhaustionIsRecordedTwice ==
    \A e \in Events \ faulted : \A k \in 1 .. call[e].handler - 1 :
        Registered[e][k] \in Workflows /\ k \notin handled[e] =>
            executions[<<e, Registered[e][k]>>] = "failed"

\* A handler's own failure never reaches the producer: publish raises only
\* when a table write of the event machinery raised.
OnlyTableWritesRaise == \A e \in Events : At(e, "raised") => e \in faulted

phase ==
    [e \in Events |->
       CASE At(e, "new") -> "unpublished"
         [] At(e, "returned") -> "delivered"
         [] At(e, "raised") \/ At(e, "lost") -> "abandoned"
         [] OTHER -> "delivering"]

outcome ==
    [e \in Events |->
       [k \in 1 .. call[e].handler - 1 |-> IF k \in handled[e] THEN "handled" ELSE "dead"]]

Delivery == INSTANCE EventDelivery

\* Retries, dead letters and crashes together implement the abstract delivery.
ImplementsDelivery == Delivery!DeliverySpec

\* Every publication comes to an end: no handler is retried for ever.
PublicationsEnd ==
    \A e \in Events : ~ At(e, "new") ~> call[e].step \in Ended

\* dispatch's docstring: "A dispatch failure never propagates to the caller".
DispatchNeverRaises ==
    [][ \A e \in InProgress : call'[e].step # "raised" ]_vars

=============================================================================
