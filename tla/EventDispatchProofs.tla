------------------------ MODULE EventDispatchProofs ------------------------
(***************************************************************************)
(* Proofs about EventDispatch, for any events, any lists of handlers and   *)
(* any number of attempts.                                                 *)
(*                                                                         *)
(* The argument is per event: the thread of an event touches the rows and  *)
(* counters of that event only (Others), and what EventInv says of an      *)
(* event is kept by every step of its own thread (the lemmas Own...) and   *)
(* by the end of the process, which moves every thread to "lost".          *)
(***************************************************************************)
EXTENDS EventDispatch, TLAPS, FiniteSetTheorems

\* The row of the workflow at position k says status.
Row(e, k, status) == executions[<<e, Registered[e][k]>>] = status

\* Types of what belongs to one event.
EventType(e) ==
    /\ call[e] \in CallState(e)
    /\ deadLetters[e] \in Nat
    /\ call[e].step \in {"steps", "complete", "fail", "deadLetter"} =>
          call[e].handler <= Len(Registered[e])
    /\ call[e].step \in {"steps", "complete", "fail"} =>
          Registered[e][call[e].handler] \in Workflows
    /\ handled[e] \subseteq 1 .. call[e].handler - 1

\* Counters and flags of one event.
EventCount(e) ==
    /\ call[e].step # "raised" =>
          deadLetters[e] + Cardinality(handled[e]) = call[e].handler - 1
    /\ call[e].step = "returned" => call[e].handler = Len(Registered[e]) + 1
    /\ call[e].step = "raised" => e \in faulted
    /\ call[e].step \notin {"new", "raised"} => e \in log

\* The workflow_executions rows of one event.
EventRows(e) ==
    /\ \A k \in handled[e] : Registered[e][k] \in Workflows => Row(e, k, "completed")
    /\ e \notin faulted =>
          \A k \in 1 .. call[e].handler - 1 :
             Registered[e][k] \in Workflows /\ k \notin handled[e] => Row(e, k, "failed")
    /\ e \notin faulted /\ call[e].step = "deadLetter" =>
          (Registered[e][call[e].handler] \in Workflows => Row(e, call[e].handler, "failed"))

TablesType ==
    /\ log \subseteq Events
    /\ executions \in [Events \X Workflows -> Statuses]
    /\ DOMAIN deadLetters = Events /\ deadLetters \in [Events -> Nat]
    /\ DOMAIN call = Events /\ call = [e \in Events |-> call[e]]
    /\ DOMAIN handled = Events /\ handled = [e \in Events |-> handled[e]]
    /\ faulted \subseteq Events

IInv ==
    /\ TablesType
    /\ \A e \in Events : EventType(e) /\ EventCount(e) /\ EventRows(e)

LEMMA RegisteredType ==
  ASSUME NEW e \in Events
  PROVE  /\ Registered[e] \in Seq(Handlers)
         /\ Len(Registered[e]) \in Nat
         /\ DOMAIN Registered[e] = 1 .. Len(Registered[e])
  BY HandlersAssumption

\* The thread of e leaves everything that belongs to other events alone.
LEMMA Others ==
  ASSUME IInv, NEW e \in Events, Persist(e) \/ PersistRaises(e) \/ Dispatch(e),
         NEW f \in Events, f # e
  PROVE  /\ call'[f] = call[f] /\ handled'[f] = handled[f]
         /\ deadLetters'[f] = deadLetters[f]
         /\ f \in faulted' <=> f \in faulted
         /\ f \in log' <=> f \in log
         /\ \A w \in Workflows : executions'[<<f, w>>] = executions[<<f, w>>]
  <1> USE DEF IInv, TablesType
  <1>1. call'[f] = call[f] /\ handled'[f] = handled[f]
    BY DEF Persist, PersistRaises, Dispatch, PlainReturns, PlainRaises, RecordDeadLetter,
           DeadLetterRaises, Return, Start, StartRaises, StepsReturn, StepRaises, Complete,
           CompleteRaises, RecordFailure, RecordFailureRaises, Goto, HandlerReturned,
           HandlerRaised, NextHandler
  <1>2. deadLetters'[f] = deadLetters[f]
    BY DEF Persist, PersistRaises, Dispatch, PlainReturns, PlainRaises, RecordDeadLetter,
           DeadLetterRaises, Return, Start, StartRaises, StepsReturn, StepRaises, Complete,
           CompleteRaises, RecordFailure, RecordFailureRaises, InDoubt
  <1>3. (f \in faulted' <=> f \in faulted) /\ (f \in log' <=> f \in log)
    BY DEF Persist, PersistRaises, Dispatch, PlainReturns, PlainRaises, RecordDeadLetter,
           DeadLetterRaises, Return, Start, StartRaises, StepsReturn, StepRaises, Complete,
           CompleteRaises, RecordFailure, RecordFailureRaises, InDoubt
  <1>4. \A w \in Workflows : executions'[<<f, w>>] = executions[<<f, w>>]
    BY DEF Persist, PersistRaises, Dispatch, PlainReturns, PlainRaises, RecordDeadLetter,
           DeadLetterRaises, Return, Start, StartRaises, StepsReturn, StepRaises, Complete,
           CompleteRaises, RecordFailure, RecordFailureRaises, InDoubt, WithStatus
  <1> QED BY <1>1, <1>2, <1>3, <1>4

\* So what is known of the other events stays true.
LEMMA OthersKeep ==
  ASSUME IInv, NEW f \in Events,
         call'[f] = call[f], handled'[f] = handled[f], deadLetters'[f] = deadLetters[f],
         f \in faulted' <=> f \in faulted, f \in log' <=> f \in log,
         \A w \in Workflows : executions'[<<f, w>>] = executions[<<f, w>>]
  PROVE  EventType(f)' /\ EventCount(f)' /\ EventRows(f)'
  <1>0. EventType(f) /\ EventCount(f) /\ EventRows(f)
    BY DEF IInv
  <1>1. EventType(f)'
    BY <1>0 DEF EventType, CallState
  <1>2. EventCount(f)'
    BY <1>0 DEF EventCount
  <1>3. EventRows(f)'
    BY <1>0 DEF EventRows, Row
  <1> QED BY <1>1, <1>2, <1>3

-----------------------------------------------------------------------------
(* The tables keep their types. *)

LEMMA TablesKept ==
  ASSUME IInv, NEW e \in Events, Persist(e) \/ PersistRaises(e) \/ Dispatch(e)
  PROVE  TablesType'
  <1> USE DEF IInv, TablesType
  <1>1. log' \subseteq Events /\ faulted' \subseteq Events
    BY DEF Persist, PersistRaises, Dispatch, PlainReturns, PlainRaises, RecordDeadLetter,
           DeadLetterRaises, Return, Start, StartRaises, StepsReturn, StepRaises, Complete,
           CompleteRaises, RecordFailure, RecordFailureRaises, InDoubt
  <1>2. executions' \in [Events \X Workflows -> Statuses]
    BY DEF Persist, PersistRaises, Dispatch, PlainReturns, PlainRaises, RecordDeadLetter,
           DeadLetterRaises, Return, Start, StartRaises, StepsReturn, StepRaises, Complete,
           CompleteRaises, RecordFailure, RecordFailureRaises, InDoubt, WithStatus, Statuses
  <1>3. deadLetters' \in [Events -> Nat]
    BY DEF Persist, PersistRaises, Dispatch, PlainReturns, PlainRaises, RecordDeadLetter,
           DeadLetterRaises, Return, Start, StartRaises, StepsReturn, StepRaises, Complete,
           CompleteRaises, RecordFailure, RecordFailureRaises, InDoubt
  <1>4. /\ DOMAIN call' = Events /\ call' = [f \in Events |-> call'[f]]
        /\ DOMAIN handled' = Events /\ handled' = [f \in Events |-> handled'[f]]
    BY DEF Persist, PersistRaises, Dispatch, PlainReturns, PlainRaises, RecordDeadLetter,
           DeadLetterRaises, Return, Start, StartRaises, StepsReturn, StepRaises, Complete,
           CompleteRaises, RecordFailure, RecordFailureRaises, Goto, HandlerReturned,
           HandlerRaised, NextHandler
  <1> QED BY <1>1, <1>2, <1>3, <1>4

-----------------------------------------------------------------------------
(* The thread's own event.  A step either stays at the current position or *)
(* settles it.                                                             *)

\* Writing the row of the current handler leaves the rows of earlier ones alone.
LEMMA RowsBefore ==
  ASSUME IInv, NEW e \in Events, HasHandler(e), NEW status \in Statuses,
         executions' = executions \/ executions' = WithStatus(e, status),
         NEW k \in 1 .. call[e].handler - 1, Registered[e][k] \in Workflows
  PROVE  executions'[<<e, Registered[e][k]>>] = executions[<<e, Registered[e][k]>>]
  <1>1. /\ call[e].handler \in 1 .. Len(Registered[e]) + 1
        /\ executions \in [Events \X Workflows -> Statuses]
    BY DEF IInv, TablesType, EventType, CallState
  <1>2. k \in DOMAIN Registered[e] /\ call[e].handler \in DOMAIN Registered[e]
        /\ k # call[e].handler
    BY <1>1, RegisteredType DEF HasHandler
  <1>3. Registered[e][k] # Current(e)
    BY <1>2, RegisteredOnce DEF Current
  <1> QED BY <1>1, <1>3 DEF WithStatus

\* A written row holds what was written.
LEMMA RowWritten ==
  ASSUME IInv, NEW e \in Events, Current(e) \in Workflows, NEW status \in Statuses,
         executions' = WithStatus(e, status)
  PROVE  executions'[<<e, Current(e)>>] = status
  BY DEF IInv, TablesType, WithStatus

\* Steps that stay at the position.
LEMMA StayType ==
  ASSUME IInv, NEW e \in Events,
         NEW step \in Steps, NEW attempt \in 1 .. MaxAttempts,
         call'[e] = [step |-> step, handler |-> call[e].handler, attempt |-> attempt],
         handled'[e] = handled[e], deadLetters'[e] \in Nat,
         step \in {"steps", "complete", "fail", "deadLetter"} => HasHandler(e),
         step \in {"steps", "complete", "fail"} => Current(e) \in Workflows
  PROVE  EventType(e)'
  BY DEF IInv, EventType, CallState, HasHandler, Current

LEMMA StayCount ==
  ASSUME IInv, NEW e \in Events,
         call'[e].handler = call[e].handler, handled'[e] = handled[e],
         call[e].step # "raised",
         call'[e].step # "raised" => deadLetters'[e] = deadLetters[e],
         call'[e].step = "raised" => e \in faulted',
         call'[e].step = "returned" => ~ HasHandler(e),
         call'[e].step \notin {"new", "raised"} => e \in log'
  PROVE  EventCount(e)'
  <1>1. EventType(e) /\ EventCount(e)
    BY DEF IInv
  <1>2. call[e].handler \in 1 .. Len(Registered[e]) + 1
    BY <1>1 DEF EventType, CallState
  <1> QED BY <1>1, <1>2, RegisteredType DEF EventCount, HasHandler

LEMMA StayRows ==
  ASSUME IInv, NEW e \in Events,
         call'[e].handler = call[e].handler, handled'[e] = handled[e],
         faulted \subseteq faulted',
         \A k \in 1 .. call[e].handler - 1 : Registered[e][k] \in Workflows =>
             executions'[<<e, Registered[e][k]>>] = executions[<<e, Registered[e][k]>>],
         e \notin faulted' /\ call'[e].step = "deadLetter" /\ Current(e) \in Workflows =>
             executions'[<<e, Current(e)>>] = "failed"
  PROVE  EventRows(e)'
  <1>1. EventType(e) /\ EventRows(e)
    BY DEF IInv
  <1> QED BY <1>1 DEF EventType, EventRows, Row, Current

\* Steps that settle the position.
LEMMA SettleType ==
  ASSUME IInv, NEW e \in Events, HasHandler(e),
         call'[e] = [step |-> "call", handler |-> call[e].handler + 1, attempt |-> 1],
         handled'[e] \subseteq handled[e] \cup {call[e].handler}, deadLetters'[e] \in Nat
  PROVE  EventType(e)'
  <1>1. EventType(e)
    BY DEF IInv
  <1>2. call[e].handler \in 1 .. Len(Registered[e])
    BY <1>1, RegisteredType DEF EventType, CallState, HasHandler
  <1>3. call'[e] \in CallState(e)
    BY <1>2, RegisteredType, AttemptsAssumption DEF CallState, Steps
  <1>4. handled'[e] \subseteq 1 .. call'[e].handler - 1
    BY <1>1, <1>2 DEF EventType
  <1> QED BY <1>3, <1>4 DEF EventType, CallState

LEMMA SettleCount ==
  ASSUME IInv, NEW e \in Events, HasHandler(e), call[e].step # "raised",
         call'[e] = [step |-> "call", handler |-> call[e].handler + 1, attempt |-> 1],
         \/ /\ handled'[e] = handled[e] \cup {call[e].handler}
            /\ deadLetters'[e] = deadLetters[e]
         \/ /\ handled'[e] = handled[e]
            /\ deadLetters'[e] = deadLetters[e] + 1,
         e \in log'
  PROVE  EventCount(e)'
  <1>1. EventType(e) /\ EventCount(e)
    BY DEF IInv
  <1>2. /\ call[e].handler \in 1 .. Len(Registered[e]) + 1
        /\ handled[e] \subseteq 1 .. call[e].handler - 1
        /\ deadLetters[e] \in Nat
    BY <1>1 DEF EventType, CallState
  <1>3. IsFiniteSet(handled[e]) /\ Cardinality(handled[e]) \in Nat
    <2>1. 1 \in Int /\ call[e].handler - 1 \in Int
      BY <1>2
    <2>2. IsFiniteSet(1 .. call[e].handler - 1)
      BY <2>1, FS_Interval
    <2>3. IsFiniteSet(handled[e])
      BY <1>2, <2>2, FS_Subset
    <2> QED BY <2>3, FS_CardinalityType
  <1>4. call[e].handler \notin handled[e]
    BY <1>2
  <1>5. Cardinality(handled[e] \cup {call[e].handler}) = Cardinality(handled[e]) + 1
    BY <1>3, <1>4, FS_AddElement
  <1>6. deadLetters'[e] + Cardinality(handled'[e]) = call[e].handler
    <2>1. deadLetters[e] + Cardinality(handled[e]) = call[e].handler - 1
      BY <1>1 DEF EventCount
    <2>2. \/ /\ Cardinality(handled'[e]) = Cardinality(handled[e]) + 1
             /\ deadLetters'[e] = deadLetters[e]
          \/ /\ Cardinality(handled'[e]) = Cardinality(handled[e])
             /\ deadLetters'[e] = deadLetters[e] + 1
      BY <1>5
    <2> QED BY <1>2, <1>3, <2>1, <2>2
  <1> QED BY <1>2, <1>6 DEF EventCount

LEMMA SettleRows ==
  ASSUME IInv, NEW e \in Events,
         call'[e] = [step |-> "call", handler |-> call[e].handler + 1, attempt |-> 1],
         handled'[e] \in {handled[e], handled[e] \cup {call[e].handler}},
         faulted \subseteq faulted',
         \A k \in 1 .. call[e].handler - 1 : Registered[e][k] \in Workflows =>
             executions'[<<e, Registered[e][k]>>] = executions[<<e, Registered[e][k]>>],
         call[e].handler \in handled'[e] /\ Current(e) \in Workflows =>
             executions'[<<e, Current(e)>>] = "completed",
         e \notin faulted' /\ call[e].handler \notin handled'[e] /\ Current(e) \in Workflows =>
             executions'[<<e, Current(e)>>] = "failed"
  PROVE  EventRows(e)'
  <1>1. EventType(e) /\ EventRows(e)
    BY DEF IInv
  <1>2. /\ call[e].handler \in 1 .. Len(Registered[e]) + 1
        /\ handled[e] \subseteq 1 .. call[e].handler - 1
    BY <1>1 DEF EventType, CallState
  <1>3. \A k \in handled'[e] : Registered[e][k] \in Workflows =>
            executions'[<<e, Registered[e][k]>>] = "completed"
    BY <1>1, <1>2 DEF EventRows, Row, Current
  <1>4. ASSUME e \notin faulted', NEW k \in 1 .. call'[e].handler - 1,
               Registered[e][k] \in Workflows, k \notin handled'[e]
        PROVE  executions'[<<e, Registered[e][k]>>] = "failed"
    <2>1. CASE k = call[e].handler
      BY <1>4, <2>1 DEF Current
    <2>2. CASE k # call[e].handler
      <3>1. k \in 1 .. call[e].handler - 1
        BY <1>2, <1>4, <2>2
      <3> QED BY <1>1, <1>4, <3>1 DEF EventRows, Row
    <2> QED BY <2>1, <2>2
  <1> QED BY <1>3, <1>4 DEF EventRows, Row

-----------------------------------------------------------------------------
(* One lemma per group of actions. *)

\* What the event's own thread may rely on.
LEMMA Own ==
  ASSUME IInv, NEW e \in Events
  PROVE  /\ call[e].step \in Steps /\ call[e].attempt \in 1 .. MaxAttempts
         /\ call[e].handler \in 1 .. Len(Registered[e]) + 1
         /\ call[e] = [step |-> call[e].step, handler |-> call[e].handler,
                       attempt |-> call[e].attempt]
         /\ deadLetters[e] \in Nat
         /\ handled[e] \subseteq 1 .. call[e].handler - 1
         /\ call[e].handler \notin handled[e]
         /\ call[e].step \in {"steps", "complete", "fail", "deadLetter"} => HasHandler(e)
         /\ call[e].step \in {"steps", "complete", "fail"} => Current(e) \in Workflows
         /\ call[e].step \notin {"new", "raised"} => e \in log
         /\ e \in DOMAIN call /\ e \in DOMAIN handled /\ e \in DOMAIN deadLetters
  <1>1. EventType(e) /\ EventCount(e) /\ TablesType
    BY DEF IInv
  <1>2. call[e] \in CallState(e)
    BY <1>1 DEF EventType
  <1>3. /\ call[e].step \in Steps /\ call[e].attempt \in 1 .. MaxAttempts
        /\ call[e].handler \in 1 .. Len(Registered[e]) + 1
        /\ call[e] = [step |-> call[e].step, handler |-> call[e].handler,
                      attempt |-> call[e].attempt]
    BY <1>2 DEF CallState
  <1>4. call[e].handler \notin handled[e]
    BY <1>1, <1>3 DEF EventType
  <1> QED BY <1>1, <1>3, <1>4 DEF TablesType, EventType, EventCount, HasHandler, Current

LEMMA GotoStep ==
  ASSUME IInv, NEW e \in Events, NEW step \in Steps, Goto(e, step)
  PROVE  call'[e] = [step |-> step, handler |-> call[e].handler, attempt |-> call[e].attempt]
  <1>1. call'[e] = [call[e] EXCEPT !.step = step]
    BY Own DEF Goto
  <1>2. call[e] = [step |-> call[e].step, handler |-> call[e].handler,
                   attempt |-> call[e].attempt]
    BY Own
  <1> QED BY <1>1, <1>2

LEMMA NextStep ==
  ASSUME IInv, NEW e \in Events, NextHandler(e)
  PROVE  call'[e] = [step |-> "call", handler |-> call[e].handler + 1, attempt |-> 1]
  BY Own DEF NextHandler

\* After a failure: the same position again, or on to the dead letter.
LEMMA RaisedStep ==
  ASSUME IInv, NEW e \in Events, HandlerRaised(e)
  PROVE  /\ handled' = handled
         /\ \E step \in {"call", "deadLetter"}, attempt \in 1 .. MaxAttempts :
              call'[e] = [step |-> step, handler |-> call[e].handler, attempt |-> attempt]
  <1>1. CASE call[e].attempt < MaxAttempts
    <2>1. call' = [call EXCEPT ![e].step = "call", ![e].attempt = @ + 1]
      BY <1>1 DEF HandlerRaised
    <2>2. call'[e] = [step |-> "call", handler |-> call[e].handler,
                      attempt |-> call[e].attempt + 1]
      <3>1. call'[e] = [call[e] EXCEPT !.step = "call", !.attempt = @ + 1]
        BY <2>1, Own
      <3> QED BY <3>1, Own
    <2>3. call[e].attempt + 1 \in 1 .. MaxAttempts
      <3>1. call[e].attempt \in 1 .. MaxAttempts /\ MaxAttempts \in Nat
        BY Own, AttemptsAssumption
      <3> QED BY <1>1, <3>1
    <2> QED BY <2>2, <2>3 DEF HandlerRaised
  <1>2. CASE ~ (call[e].attempt < MaxAttempts)
    <2>1. Goto(e, "deadLetter")
      BY <1>2 DEF HandlerRaised
    <2>2. call'[e] = [step |-> "deadLetter", handler |-> call[e].handler,
                      attempt |-> call[e].attempt]
      BY <2>1, GotoStep DEF Steps
    <2> QED BY <2>2, Own DEF HandlerRaised
  <1> QED BY <1>1, <1>2

\* Anything that keeps the position, however the tables changed around it.
LEMMA Stay ==
  ASSUME IInv, NEW e \in Events,
         NEW step \in Steps, NEW attempt \in 1 .. MaxAttempts,
         call'[e] = [step |-> step, handler |-> call[e].handler, attempt |-> attempt],
         handled' = handled, deadLetters'[e] \in Nat,
         call[e].step # "raised",
         step \in {"steps", "complete", "fail", "deadLetter"} => HasHandler(e),
         step \in {"steps", "complete", "fail"} => Current(e) \in Workflows,
         step # "raised" => deadLetters'[e] = deadLetters[e],
         step = "raised" => e \in faulted',
         step = "returned" => ~ HasHandler(e),
         step \notin {"new", "raised"} => e \in log',
         faulted \subseteq faulted',
         \/ executions' = executions
         \/ /\ HasHandler(e)
            /\ \E status \in Statuses : executions' = WithStatus(e, status),
         e \notin faulted' /\ step = "deadLetter" /\ Current(e) \in Workflows =>
             executions'[<<e, Current(e)>>] = "failed"
  PROVE  EventType(e)' /\ EventCount(e)' /\ EventRows(e)'
  <1>1. \A k \in 1 .. call[e].handler - 1 : Registered[e][k] \in Workflows =>
            executions'[<<e, Registered[e][k]>>] = executions[<<e, Registered[e][k]>>]
    BY RowsBefore
  <1>2. /\ call'[e].step = step /\ call'[e].handler = call[e].handler
        /\ handled'[e] = handled[e]
    OBVIOUS
  <1>3. EventType(e)'
    BY <1>2, StayType
  <1>4. EventCount(e)'
    BY <1>2, StayCount
  <1>5. EventRows(e)'
    BY <1>1, <1>2, StayRows
  <1> QED BY <1>3, <1>4, <1>5

\* Anything that settles the position.
LEMMA Settle ==
  ASSUME IInv, NEW e \in Events, HasHandler(e), call[e].step \notin {"new", "raised"},
         NextHandler(e),
         \/ /\ handled' = [handled EXCEPT ![e] = @ \cup {call[e].handler}]
            /\ deadLetters' = deadLetters
            /\ Current(e) \in Workflows => executions'[<<e, Current(e)>>] = "completed"
         \/ /\ handled' = handled
            /\ deadLetters' = [deadLetters EXCEPT ![e] = @ + 1]
            /\ e \notin faulted' /\ Current(e) \in Workflows =>
                  executions'[<<e, Current(e)>>] = "failed",
         \/ executions' = executions
         \/ \E status \in Statuses : executions' = WithStatus(e, status),
         faulted' = faulted, log' = log
  PROVE  EventType(e)' /\ EventCount(e)' /\ EventRows(e)'
  <1>1. \A k \in 1 .. call[e].handler - 1 : Registered[e][k] \in Workflows =>
            executions'[<<e, Registered[e][k]>>] = executions[<<e, Registered[e][k]>>]
    BY RowsBefore
  <1>2. call'[e] = [step |-> "call", handler |-> call[e].handler + 1, attempt |-> 1]
    BY NextStep
  <1>3. \/ /\ handled'[e] = handled[e] \cup {call[e].handler}
           /\ deadLetters'[e] = deadLetters[e]
           /\ Current(e) \in Workflows => executions'[<<e, Current(e)>>] = "completed"
        \/ /\ handled'[e] = handled[e]
           /\ deadLetters'[e] = deadLetters[e] + 1
           /\ e \notin faulted' /\ Current(e) \in Workflows =>
                 executions'[<<e, Current(e)>>] = "failed"
    BY Own
  <1>4. EventType(e)'
    <2>1. /\ handled'[e] \subseteq handled[e] \cup {call[e].handler}
          /\ deadLetters'[e] \in Nat
      <3>1. deadLetters[e] \in Nat
        BY Own
      <3> QED BY <1>3, <3>1
    <2> QED BY <1>2, <2>1, SettleType
  <1>5. EventCount(e)'
    BY <1>2, <1>3, Own, SettleCount
  <1>6. EventRows(e)'
    BY <1>1, <1>2, <1>3, Own, SettleRows
  <1> QED BY <1>4, <1>5, <1>6

\* The names the actions use.
LEMMA StepNames ==
  /\ "call" \in Steps /\ "steps" \in Steps /\ "complete" \in Steps /\ "fail" \in Steps
  /\ "deadLetter" \in Steps /\ "returned" \in Steps /\ "raised" \in Steps
  /\ "lost" \in Steps
  /\ "running" \in Statuses /\ "completed" \in Statuses /\ "failed" \in Statuses
  BY DEF Steps, Statuses, Ended

\* Steps that only move on within the position.
LEMMA GotoSteps ==
  ASSUME IInv, NEW e \in Events,
         \/ Persist(e) \/ PersistRaises(e) \/ DeadLetterRaises(e) \/ Return(e)
         \/ Start(e) \/ StepsReturn(e) \/ StepRaises(e)
  PROVE  EventType(e)' /\ EventCount(e)' /\ EventRows(e)'
  <1> DEFINE Moved(step) ==
        call'[e] = [step |-> step, handler |-> call[e].handler, attempt |-> call[e].attempt]
  <1>0. call[e].attempt \in 1 .. MaxAttempts /\ deadLetters[e] \in Nat
        /\ (call[e].step \notin {"new", "raised"} => e \in log)
    BY Own
  <1> USE StepNames
  <1>1. CASE Persist(e)
    <2>1. Moved("call")
      BY <1>1, GotoStep DEF Persist, Steps
    <2>2. call[e].step # "raised"
      BY <1>1 DEF Persist, At
    <2> QED BY <1>0, <1>1, <2>1, <2>2, Stay DEF Persist, At
  <1>2. CASE PersistRaises(e)
    <2>1. Moved("raised")
      BY <1>2, GotoStep DEF PersistRaises, Steps, Ended
    <2>2. call[e].step # "raised"
      BY <1>2 DEF PersistRaises, At
    <2> QED BY <1>0, <1>2, <2>1, <2>2, Stay DEF PersistRaises, At
  <1>3. CASE DeadLetterRaises(e)
    <2>1. Moved("raised")
      BY <1>3, GotoStep DEF DeadLetterRaises, Steps, Ended
    <2>2. deadLetters'[e] \in Nat
      <3>1. deadLetters[e] + 1 \in Nat
        BY <1>0
      <3>2. deadLetters \in [Events -> Nat]
        BY DEF IInv, TablesType
      <3> QED BY <1>0, <1>3, <3>1, <3>2 DEF DeadLetterRaises, InDoubt
    <2>3. call[e].step # "raised"
      BY <1>3 DEF DeadLetterRaises, At
    <2> QED BY <1>0, <1>3, <2>1, <2>2, <2>3, Stay DEF DeadLetterRaises
  <1>4. CASE Return(e)
    <2>1. Moved("returned")
      BY <1>4, GotoStep DEF Return, Steps, Ended
    <2>2. call[e].step # "raised"
      BY <1>4 DEF Return, At
    <2> QED BY <1>0, <1>4, <2>1, <2>2, Stay DEF Return, At
  <1>5. CASE Start(e)
    <2>1. Moved("steps")
      BY <1>5, GotoStep DEF Start, Steps
    <2>2. HasHandler(e) /\ Current(e) \in Workflows /\ executions' = WithStatus(e, "running")
          /\ call[e].step = "call"
      BY <1>5 DEF Start, At
    <2> QED BY <1>0, <1>5, <2>1, <2>2, Stay DEF Start
  <1>6. ASSUME StepsReturn(e) \/ StepRaises(e)
        PROVE  EventType(e)' /\ EventCount(e)' /\ EventRows(e)'
    <2>1. \E step \in {"complete", "fail"} : Moved(step)
      BY <1>6, GotoStep DEF StepsReturn, StepRaises, Steps
    <2>2. HasHandler(e) /\ Current(e) \in Workflows
      BY <1>6, Own DEF StepsReturn, StepRaises, At
    <2> QED BY <1>0, <1>6, <2>1, <2>2, Stay DEF StepsReturn, StepRaises, At, Steps
  <1> QED BY <1>1, <1>2, <1>3, <1>4, <1>5, <1>6

\* The handler's attempt failed.
LEMMA RaisedSteps ==
  ASSUME IInv, NEW e \in Events,
         \/ PlainRaises(e) \/ StartRaises(e) \/ CompleteRaises(e)
         \/ RecordFailure(e) \/ RecordFailureRaises(e)
  PROVE  EventType(e)' /\ EventCount(e)' /\ EventRows(e)'
  <1>1. HandlerRaised(e) /\ log' = log /\ deadLetters' = deadLetters
    BY DEF PlainRaises, StartRaises, CompleteRaises, RecordFailure, RecordFailureRaises
  <1>2. PICK step \in {"call", "deadLetter"}, attempt \in 1 .. MaxAttempts :
           call'[e] = [step |-> step, handler |-> call[e].handler, attempt |-> attempt]
    BY <1>1, RaisedStep
  <1>3. handled' = handled
    BY <1>1, RaisedStep
  <1>4. /\ HasHandler(e) /\ e \in log /\ deadLetters[e] \in Nat
        /\ call[e].step # "raised"
    BY Own DEF PlainRaises, StartRaises, CompleteRaises, RecordFailure, RecordFailureRaises, At
  <1>5. \/ executions' = executions
        \/ \E status \in Statuses : executions' = WithStatus(e, status)
    BY DEF PlainRaises, StartRaises, CompleteRaises, RecordFailure, RecordFailureRaises,
           InDoubt, Statuses
  <1>6. faulted \subseteq faulted'
    BY DEF PlainRaises, StartRaises, CompleteRaises, RecordFailure, RecordFailureRaises
  <1>7. e \notin faulted' /\ Current(e) \in Workflows =>
            executions'[<<e, Current(e)>>] = "failed"
    <2>1. CASE RecordFailure(e)
      BY <2>1, Own, RowWritten DEF RecordFailure, At, Statuses
    <2>2. CASE ~ RecordFailure(e)
      BY <2>2 DEF PlainRaises, StartRaises, CompleteRaises, RecordFailureRaises
    <2> QED BY <2>1, <2>2
  <1> QED BY <1>1, <1>2, <1>3, <1>4, <1>5, <1>6, <1>7, Stay DEF Steps

\* The handler returned, or its dead letter is written.
LEMMA SettlingSteps ==
  ASSUME IInv, NEW e \in Events, PlainReturns(e) \/ Complete(e) \/ RecordDeadLetter(e)
  PROVE  EventType(e)' /\ EventCount(e)' /\ EventRows(e)'
  <1>1. NextHandler(e) /\ log' = log /\ faulted' = faulted
    BY DEF PlainReturns, Complete, RecordDeadLetter, HandlerReturned
  <1>2. HasHandler(e) /\ call[e].step \notin {"new", "raised"}
    BY Own DEF PlainReturns, Complete, RecordDeadLetter, At
  <1>3. CASE PlainReturns(e)
    BY <1>1, <1>2, <1>3, Settle DEF PlainReturns, HandlerReturned
  <1>4. CASE Complete(e)
    <2>1. executions'[<<e, Current(e)>>] = "completed"
      BY <1>4, Own, RowWritten DEF Complete, At, Statuses
    <2> QED BY <1>1, <1>2, <1>4, <2>1, Settle DEF Complete, HandlerReturned, Statuses
  <1>5. CASE RecordDeadLetter(e)
    <2>1. e \notin faulted' /\ Current(e) \in Workflows =>
              executions'[<<e, Current(e)>>] = "failed"
      BY <1>5 DEF RecordDeadLetter, At, IInv, EventRows, Row, Current
    <2> QED BY <1>1, <1>2, <1>5, <2>1, Settle DEF RecordDeadLetter
  <1> QED BY <1>3, <1>4, <1>5

\* The end of the process moves threads to "lost" and changes nothing else.
LEMMA CrashKeeps ==
  ASSUME IInv, Crash
  PROVE  IInv'
  <1>1. TablesType'
    BY DEF Crash, IInv, TablesType
  <1>2. ASSUME NEW e \in Events
        PROVE  EventType(e)' /\ EventCount(e)' /\ EventRows(e)'
    <2>1. /\ handled' = handled /\ deadLetters' = deadLetters
          /\ executions' = executions /\ log' = log /\ faulted' = faulted
      BY DEF Crash
    <2>2. CASE e \notin InProgress
      <3>1. call'[e] = call[e]
        BY <2>2 DEF Crash
      <3> QED BY <2>1, <3>1, OthersKeep
    <2>3. CASE e \in InProgress
      <3>1. call'[e] = [step |-> "lost", handler |-> call[e].handler,
                        attempt |-> call[e].attempt]
        <4>1. call'[e] = [call[e] EXCEPT !.step = "lost"]
          BY <2>3 DEF Crash
        <4> QED BY <4>1, Own
      <3>2. call[e].step \notin {"new", "raised"}
        BY <2>3 DEF InProgress, Ended
      <3>3. /\ call[e].attempt \in 1 .. MaxAttempts /\ deadLetters[e] \in Nat
            /\ e \in log
        BY <3>2, Own
      <3> QED BY <2>1, <3>1, <3>2, <3>3, StepNames, Stay
    <2> QED BY <2>2, <2>3
  <1> QED BY <1>1, <1>2 DEF IInv

-----------------------------------------------------------------------------
(* The invariant. *)

LEMMA Initial == Init => IInv
  <1> SUFFICES ASSUME Init PROVE IInv
    OBVIOUS
  <1>1. TablesType
    BY DEF Init, TablesType, Statuses
  <1>2. ASSUME NEW e \in Events
        PROVE  EventType(e) /\ EventCount(e) /\ EventRows(e)
    <2>1. /\ call[e] = [step |-> "new", handler |-> 1, attempt |-> 1]
          /\ handled[e] = {} /\ deadLetters[e] = 0
      BY DEF Init
    <2>2. EventType(e)
      BY <2>1, RegisteredType, AttemptsAssumption DEF EventType, CallState, Steps
    <2>3. EventCount(e)
      BY <2>1, FS_EmptySet DEF EventCount
    <2>4. EventRows(e)
      BY <2>1 DEF EventRows
    <2> QED BY <2>2, <2>3, <2>4
  <1> QED BY <1>1, <1>2 DEF IInv

LEMMA Inductive == IInv /\ [Next]_vars => IInv'
  <1> SUFFICES ASSUME IInv, [Next]_vars PROVE IInv'
    OBVIOUS
  <1>1. ASSUME NEW e \in Events, Persist(e) \/ PersistRaises(e) \/ Dispatch(e)
        PROVE  IInv'
    <2>1. TablesType'
      BY <1>1, TablesKept
    <2>2. EventType(e)' /\ EventCount(e)' /\ EventRows(e)'
      BY <1>1, GotoSteps, RaisedSteps, SettlingSteps DEF Dispatch
    <2>3. ASSUME NEW f \in Events, f # e
          PROVE  EventType(f)' /\ EventCount(f)' /\ EventRows(f)'
      BY <1>1, <2>3, Others, OthersKeep
    <2> QED BY <2>1, <2>2, <2>3 DEF IInv
  <1>2. CASE Crash
    BY <1>2, CrashKeeps
  <1>3. CASE UNCHANGED vars
    <2>1. TablesType'
      BY <1>3 DEF IInv, TablesType, vars
    <2>2. ASSUME NEW f \in Events
          PROVE  EventType(f)' /\ EventCount(f)' /\ EventRows(f)'
      BY <1>3, OthersKeep DEF vars
    <2> QED BY <2>1, <2>2 DEF IInv
  <1> QED BY <1>1, <1>2, <1>3 DEF Next

-----------------------------------------------------------------------------
(* The theorems. *)

\* The tables, the threads and the history stay consistent in every behaviour.
THEOREM Invariance == Spec => []IInv
  BY Initial, Inductive, PTL DEF Spec

\* A thread is always at one of its handlers, within its attempts, and inside
\* WorkflowRuntime.run only for a workflow.
THEOREM TypeCorrect == Spec => []TypeOK
  <1>1. IInv => TypeOK
    BY DEF IInv, TablesType, EventType, TypeOK
  <1> QED BY Invariance, <1>1, PTL

\* publish returns only after each handler returned once or left exactly one
\* dead letter: dispatch skips none and settles none twice.
THEOREM ReturnSettles == Spec => []ReturnedMeansSettled
  <1>1. ASSUME IInv PROVE ReturnedMeansSettled
    <2>1. SUFFICES ASSUME NEW e \in Events, At(e, "returned")
                   PROVE  /\ handled[e] \subseteq DOMAIN Registered[e]
                          /\ deadLetters[e] = Len(Registered[e]) - Cardinality(handled[e])
      BY DEF ReturnedMeansSettled
    <2>2. EventCount(e)
      BY <1>1 DEF IInv
    <2>3. /\ call[e].handler = Len(Registered[e]) + 1
          /\ deadLetters[e] + Cardinality(handled[e]) = call[e].handler - 1
      BY <2>1, <2>2 DEF EventCount, At
    <2>4. /\ handled[e] \subseteq 1 .. call[e].handler - 1
          /\ deadLetters[e] \in Nat
      BY <1>1, Own
    <2>5. Len(Registered[e]) \in Nat /\ DOMAIN Registered[e] = 1 .. Len(Registered[e])
      BY RegisteredType
    <2>6. Cardinality(handled[e]) \in Nat
      <3>1. IsFiniteSet(1 .. call[e].handler - 1)
        BY <2>3, <2>5, FS_Interval
      <3> QED BY <2>4, <3>1, FS_Subset, FS_CardinalityType
    <2> QED BY <2>3, <2>4, <2>5, <2>6
  <1> QED BY Invariance, <1>1, PTL

\* Once a workflow counts as handled its row says completed, whatever is
\* retried, dead-lettered or lost afterwards.
THEOREM HandledStaysCompleted == Spec => []HandledWorkflowsAreCompleted
  <1>1. IInv => HandledWorkflowsAreCompleted
    BY DEF IInv, EventRows, Row, HandledWorkflowsAreCompleted
  <1> QED BY Invariance, <1>1, PTL

\* As long as no table write raised for the event, the dead letter of a
\* workflow goes with a row that says failed.
THEOREM ExhaustionRecorded == Spec => []ExhaustionIsRecordedTwice
  <1>1. IInv => ExhaustionIsRecordedTwice
    BY DEF IInv, EventRows, Row, ExhaustionIsRecordedTwice
  <1> QED BY Invariance, <1>1, PTL

\* publish raises only when a write to one of the tables raised, however
\* often the handlers do.
THEOREM HandlersNeverRaise == Spec => []OnlyTableWritesRaise
  <1>1. IInv => OnlyTableWritesRaise
    BY DEF IInv, EventCount, OnlyTableWritesRaise, At
  <1> QED BY Invariance, <1>1, PTL

-----------------------------------------------------------------------------
(* The dispatcher implements the abstract delivery. *)

\* What of a thread's move the abstract specification sees.
LEMMA Position ==
  ASSUME IInv, NEW e \in Events
  PROVE  /\ call[e].handler \in Nat \ {0} /\ Len(Registered[e]) \in Nat
         /\ call[e].handler <= Len(Registered[e]) + 1
         /\ call[e].handler \notin handled[e]
  <1>1. call[e].handler \in 1 .. Len(Registered[e]) + 1 /\ call[e].handler \notin handled[e]
    BY Own
  <1>2. Len(Registered[e]) \in Nat
    BY RegisteredType
  <1> QED BY <1>1, <1>2

LEMMA GotoMoves ==
  ASSUME IInv, NEW e \in Events, NEW step \in Steps, Goto(e, step)
  PROVE  call'[e].step = step /\ call'[e].handler = call[e].handler
  <1>1. call'[e] = [step |-> step, handler |-> call[e].handler, attempt |-> call[e].attempt]
    BY GotoStep
  <1> QED BY <1>1

LEMMA NextMoves ==
  ASSUME IInv, NEW e \in Events, NextHandler(e)
  PROVE  call'[e].step = "call" /\ call'[e].handler = call[e].handler + 1
  <1>1. call'[e] = [step |-> "call", handler |-> call[e].handler + 1, attempt |-> 1]
    BY NextStep
  <1> QED BY <1>1

LEMMA RaisedMoves ==
  ASSUME IInv, NEW e \in Events, HandlerRaised(e)
  PROVE  /\ call'[e].step \in {"call", "deadLetter"} /\ call'[e].handler = call[e].handler
         /\ handled' = handled
  <1>1. PICK step \in {"call", "deadLetter"}, attempt \in 1 .. MaxAttempts :
           call'[e] = [step |-> step, handler |-> call[e].handler, attempt |-> attempt]
    BY RaisedStep
  <1>2. handled' = handled
    BY RaisedStep
  <1> QED BY <1>1, <1>2

\* The abstract phase, read from the thread's step.
LEMMA PhaseOf ==
  ASSUME NEW e \in Events
  PROVE  /\ call[e].step = "new" => phase[e] = "unpublished"
         /\ call[e].step = "returned" => phase[e] = "delivered"
         /\ call[e].step \in {"raised", "lost"} => phase[e] = "abandoned"
         /\ call[e].step \notin Ended \cup {"new"} => phase[e] = "delivering"
  BY DEF phase, At, Ended

LEMMA NextPhaseOf ==
  ASSUME NEW e \in Events
  PROVE  /\ call'[e].step = "new" => phase'[e] = "unpublished"
         /\ call'[e].step = "returned" => phase'[e] = "delivered"
         /\ call'[e].step \in {"raised", "lost"} => phase'[e] = "abandoned"
         /\ call'[e].step \notin Ended \cup {"new"} => phase'[e] = "delivering"
  BY DEF phase, At, Ended

LEMMA SamePhase ==
  ASSUME NEW f \in Events, call'[f] = call[f]
  PROVE  phase'[f] = phase[f]
  BY DEF phase, At

LEMMA SameOutcome ==
  ASSUME NEW f \in Events, call'[f].handler = call[f].handler, handled'[f] = handled[f]
  PROVE  outcome'[f] = outcome[f]
  BY DEF outcome

\* One entry per settled position.
LEMMA OutcomeLength ==
  ASSUME IInv, NEW e \in Events
  PROVE  /\ outcome[e] \in Seq({"handled", "dead"})
         /\ Len(outcome[e]) = call[e].handler - 1
  <1>1. call[e].handler - 1 \in Nat
    BY Position
  <1>2. outcome[e] = [k \in 1 .. call[e].handler - 1 |->
                        IF k \in handled[e] THEN "handled" ELSE "dead"]
    BY DEF outcome
  <1> QED BY <1>1, <1>2

\* Settling a position appends its entry.
LEMMA OutcomeAppended ==
  ASSUME IInv, NEW e \in Events,
         call'[e].handler = call[e].handler + 1,
         handled'[e] \in {handled[e], handled[e] \cup {call[e].handler}}
  PROVE  \E result \in {"handled", "dead"} : outcome'[e] = Append(outcome[e], result)
  <1> DEFINE n == call[e].handler - 1
             result == IF n + 1 \in handled'[e] THEN "handled" ELSE "dead"
  <1>1. n \in Nat /\ call[e].handler = n + 1 /\ n + 1 \notin handled[e]
    BY Position
  <1>2. outcome[e] = [k \in 1 .. n |-> IF k \in handled[e] THEN "handled" ELSE "dead"]
    BY DEF outcome
  <1>3. outcome'[e] = [k \in 1 .. n + 1 |-> IF k \in handled'[e] THEN "handled" ELSE "dead"]
    BY <1>1 DEF outcome
  <1>4. outcome[e] \in Seq({"handled", "dead"}) /\ Len(outcome[e]) = n
    BY OutcomeLength
  <1>5. Append(outcome[e], result) = [k \in 1 .. n + 1 |-> IF k <= n THEN outcome[e][k] ELSE result]
    <2> HIDE DEF n, result
    <2> QED BY <1>1, <1>4
  <1>6. ASSUME NEW k \in 1 .. n + 1
        PROVE  (IF k \in handled'[e] THEN "handled" ELSE "dead")
                  = (IF k <= n THEN outcome[e][k] ELSE result)
    <2>1. CASE k = n + 1
      BY <1>1, <2>1
    <2>2. CASE k \in 1 .. n
      <3>1. k \in handled'[e] <=> k \in handled[e]
        BY <1>1, <2>2
      <3> QED BY <1>1, <1>2, <2>2, <3>1
    <2> QED BY <1>1, <2>1, <2>2
  <1>7. outcome'[e] = Append(outcome[e], result)
    <2> HIDE DEF n, result
    <2> QED BY <1>3, <1>5, <1>6
  <1>8. result \in {"handled", "dead"}
    OBVIOUS
  <1> QED BY <1>7, <1>8

\* A step of one thread changes one entry of each abstract variable.
LEMMA OneEntry ==
  ASSUME IInv, NEW e \in Events, Persist(e) \/ PersistRaises(e) \/ Dispatch(e)
  PROVE  /\ phase' = [phase EXCEPT ![e] = phase'[e]]
         /\ outcome' = [outcome EXCEPT ![e] = outcome'[e]]
  <1>1. ASSUME NEW f \in Events, f # e
        PROVE  phase'[f] = phase[f] /\ outcome'[f] = outcome[f]
    BY <1>1, Others, SamePhase, SameOutcome
  <1>2. /\ phase' = [f \in Events |-> phase'[f]] /\ phase = [f \in Events |-> phase[f]]
        /\ outcome' = [f \in Events |-> outcome'[f]]
        /\ outcome = [f \in Events |-> outcome[f]]
    BY DEF phase, outcome
  <1> QED BY <1>1, <1>2

\* Steps within a position end the publication or are not seen at all.
LEMMA GotoImplements ==
  ASSUME IInv, NEW e \in Events,
         \/ Persist(e) \/ PersistRaises(e) \/ DeadLetterRaises(e) \/ Return(e)
         \/ Start(e) \/ StepsReturn(e) \/ StepRaises(e)
         \/ PlainRaises(e) \/ StartRaises(e) \/ CompleteRaises(e)
         \/ RecordFailure(e) \/ RecordFailureRaises(e)
  PROVE  Delivery!DeliveryNext \/ UNCHANGED Delivery!deliveryVars
  <1>0. /\ phase' = [phase EXCEPT ![e] = phase'[e]]
        /\ outcome' = [outcome EXCEPT ![e] = outcome'[e]]
        /\ phase = [phase EXCEPT ![e] = phase[e]]
        /\ outcome = [outcome EXCEPT ![e] = outcome[e]]
    <2>1. phase = [f \in Events |-> phase[f]] /\ outcome = [f \in Events |-> outcome[f]]
      BY DEF phase, outcome
    <2> QED BY <2>1, OneEntry DEF Dispatch
  <1>1. call'[e].handler = call[e].handler /\ handled' = handled
    <2>1. ASSUME NEW step \in Steps, Goto(e, step), handled' = handled
          PROVE  call'[e].handler = call[e].handler /\ handled' = handled
      BY <2>1, GotoMoves
    <2>2. CASE HandlerRaised(e)
      BY <2>2, RaisedMoves
    <2> QED BY <2>1, <2>2, StepNames
            DEF Persist, PersistRaises, DeadLetterRaises, Return, Start, StepsReturn,
                StepRaises, PlainRaises, StartRaises, CompleteRaises, RecordFailure,
                RecordFailureRaises
  <1>2. outcome' = outcome
    BY <1>0, <1>1, SameOutcome
  <1>3. CASE Persist(e)
    <2>1. call[e].step = "new" /\ call'[e].step = "call" /\ log' = log \cup {e}
      BY <1>3, GotoMoves, StepNames DEF Persist, At
    <2>2. phase[e] = "unpublished" /\ phase'[e] = "delivering"
      BY <2>1, PhaseOf, NextPhaseOf DEF Ended
    <2> QED BY <1>0, <1>2, <2>1, <2>2 DEF Delivery!DeliveryNext, Delivery!Publish
  <1>4. CASE PersistRaises(e)
    <2>1. /\ call[e].step = "new" /\ call'[e].step = "raised"
          /\ log' \in {log, log \cup {e}}
      BY <1>4, GotoMoves, StepNames DEF PersistRaises, At, InDoubt
    <2>2. phase[e] = "unpublished" /\ phase'[e] = "abandoned"
      BY <2>1, PhaseOf, NextPhaseOf DEF Ended
    <2> QED BY <1>0, <1>2, <2>1, <2>2 DEF Delivery!DeliveryNext, Delivery!PublishInDoubt
  <1>5. CASE DeadLetterRaises(e)
    <2>1. call[e].step = "deadLetter" /\ call'[e].step = "raised" /\ log' = log
      BY <1>5, GotoMoves, StepNames DEF DeadLetterRaises, At
    <2>2. phase[e] = "delivering" /\ phase'[e] = "abandoned"
      BY <2>1, PhaseOf, NextPhaseOf DEF Ended
    <2>3. phase' = [f \in Events |-> IF f \in {e} THEN "abandoned" ELSE phase[f]]
      BY <1>0, <2>2 DEF phase
    <2>4. Delivery!Abandon({e})
      BY <1>2, <2>1, <2>2, <2>3 DEF Delivery!Abandon
    <2> QED BY <2>4 DEF Delivery!DeliveryNext
  <1>6. CASE Return(e)
    <2>1. /\ call[e].step = "call" /\ call'[e].step = "returned" /\ log' = log
          /\ ~ HasHandler(e)
      BY <1>6, GotoMoves, StepNames DEF Return, At
    <2>2. phase[e] = "delivering" /\ phase'[e] = "delivered"
      BY <2>1, PhaseOf, NextPhaseOf DEF Ended
    <2>3. Len(outcome[e]) = Len(Registered[e])
      BY <2>1, Position, OutcomeLength DEF HasHandler
    <2> QED BY <1>0, <1>2, <2>1, <2>2, <2>3 DEF Delivery!DeliveryNext, Delivery!Finish
  <1>7. ASSUME \/ Start(e) \/ StepsReturn(e) \/ StepRaises(e)
               \/ PlainRaises(e) \/ StartRaises(e) \/ CompleteRaises(e)
               \/ RecordFailure(e) \/ RecordFailureRaises(e)
        PROVE  UNCHANGED Delivery!deliveryVars
    <2>1. log' = log /\ call[e].step \in {"call", "steps", "complete", "fail"}
      BY <1>7 DEF Start, StepsReturn, StepRaises, PlainRaises, StartRaises, CompleteRaises,
             RecordFailure, RecordFailureRaises, At
    <2>2. call'[e].step \in {"call", "steps", "complete", "fail", "deadLetter"}
      BY <1>7, GotoMoves, RaisedMoves, StepNames
         DEF Start, StepsReturn, StepRaises, PlainRaises, StartRaises, CompleteRaises,
             RecordFailure, RecordFailureRaises
    <2>3. phase'[e] = "delivering" /\ phase[e] = "delivering"
      BY <2>1, <2>2, PhaseOf, NextPhaseOf DEF Ended
    <2> QED BY <1>0, <1>2, <2>1, <2>3 DEF Delivery!deliveryVars
  <1> QED BY <1>3, <1>4, <1>5, <1>6, <1>7

\* A settled position is a Settle step.
LEMMA SettlingImplements ==
  ASSUME IInv, NEW e \in Events, PlainReturns(e) \/ Complete(e) \/ RecordDeadLetter(e)
  PROVE  Delivery!DeliveryNext
  <1>1. /\ NextHandler(e) /\ log' = log
        /\ \/ handled' = [handled EXCEPT ![e] = @ \cup {call[e].handler}]
           \/ handled' = handled
    BY DEF PlainReturns, Complete, RecordDeadLetter, HandlerReturned
  <1>2. HasHandler(e) /\ call[e].step \in {"call", "complete", "deadLetter"}
    BY Own DEF PlainReturns, Complete, RecordDeadLetter, At
  <1>3. call'[e].handler = call[e].handler + 1 /\ call'[e].step = "call"
    BY <1>1, NextMoves
  <1>4. handled'[e] \in {handled[e], handled[e] \cup {call[e].handler}}
    BY <1>1, Own
  <1>5. PICK result \in {"handled", "dead"} : outcome'[e] = Append(outcome[e], result)
    BY <1>3, <1>4, OutcomeAppended
  <1>6. phase[e] = "delivering" /\ phase'[e] = "delivering" /\ e \in log
    BY <1>2, <1>3, Own, PhaseOf, NextPhaseOf DEF Ended
  <1>7. /\ phase' = [phase EXCEPT ![e] = phase'[e]]
        /\ outcome' = [outcome EXCEPT ![e] = outcome'[e]]
        /\ phase = [phase EXCEPT ![e] = phase[e]]
    <2>1. phase = [f \in Events |-> phase[f]]
      BY DEF phase
    <2> QED BY <2>1, OneEntry DEF Dispatch
  <1>8. Len(outcome[e]) < Len(Registered[e])
    BY <1>2, Position, OutcomeLength DEF HasHandler
  <1>9. Delivery!Settle(e, result)
    BY <1>1, <1>5, <1>6, <1>7, <1>8 DEF Delivery!Settle
  <1> QED BY <1>9 DEF Delivery!DeliveryNext

\* The end of the process abandons what is in progress.
LEMMA CrashImplements ==
  ASSUME IInv, Crash
  PROVE  Delivery!DeliveryNext
  <1>1. ASSUME NEW f \in Events
        PROVE  /\ f \in InProgress => phase[f] = "delivering" /\ phase'[f] = "abandoned"
               /\ f \notin InProgress => phase'[f] = phase[f]
               /\ outcome'[f] = outcome[f]
    <2>1. CASE f \in InProgress
      <3>1. call'[f] = [call[f] EXCEPT !.step = "lost"]
        BY <2>1 DEF Crash
      <3>2. call'[f].step = "lost" /\ call'[f].handler = call[f].handler
        BY <3>1, Own
      <3> QED BY <2>1, <3>2, PhaseOf, NextPhaseOf, SameOutcome DEF InProgress, Crash
    <2>2. CASE f \notin InProgress
      <3>1. call'[f] = call[f]
        BY <2>2 DEF Crash
      <3> QED BY <2>2, <3>1, SamePhase, SameOutcome DEF Crash
    <2> QED BY <2>1, <2>2
  <1>2. phase' = [f \in Events |-> IF f \in InProgress THEN "abandoned" ELSE phase[f]]
    <2>1. phase' = [f \in Events |-> phase'[f]]
      BY DEF phase
    <2> QED BY <1>1, <2>1
  <1>3. outcome' = outcome
    <2>1. outcome' = [f \in Events |-> outcome'[f]] /\ outcome = [f \in Events |-> outcome[f]]
      BY DEF outcome
    <2> QED BY <1>1, <2>1
  <1>4. InProgress \in SUBSET Events /\ \A f \in InProgress : phase[f] = "delivering"
    BY <1>1 DEF InProgress
  <1>5. Delivery!Abandon(InProgress)
    BY <1>2, <1>3, <1>4 DEF Delivery!Abandon, Crash
  <1> QED BY <1>4, <1>5 DEF Delivery!DeliveryNext

LEMMA DeliveryStep ==
  IInv /\ [Next]_vars => [Delivery!DeliveryNext]_(Delivery!deliveryVars)
  <1> SUFFICES ASSUME IInv, [Next]_vars
               PROVE  Delivery!DeliveryNext \/ UNCHANGED Delivery!deliveryVars
    BY DEF Delivery!deliveryVars
  <1>1. ASSUME NEW e \in Events, Persist(e) \/ PersistRaises(e) \/ Dispatch(e)
        PROVE  Delivery!DeliveryNext \/ UNCHANGED Delivery!deliveryVars
    BY <1>1, GotoImplements, SettlingImplements DEF Dispatch
  <1>2. CASE UNCHANGED vars
    BY <1>2 DEF vars, phase, outcome, At, Delivery!deliveryVars
  <1> QED BY <1>1, <1>2, CrashImplements DEF Next

LEMMA DeliveryInitial == Init => Delivery!DeliveryInit
  <1> SUFFICES ASSUME Init PROVE Delivery!DeliveryInit
    OBVIOUS
  <1>1. phase = [e \in Events |-> "unpublished"]
    BY DEF Init, phase, At
  <1>2. outcome = [e \in Events |-> <<>>]
    BY DEF Init, outcome
  <1> QED BY <1>1, <1>2 DEF Init, Delivery!DeliveryInit

\* Attempts, workflow rows, dead letters and the end of the process together
\* implement the abstract delivery: each handler is settled once, in order.
THEOREM RefinesDelivery == Spec => ImplementsDelivery
  <1>1. Spec => []IInv
    BY Invariance
  <1> QED BY <1>1, DeliveryInitial, DeliveryStep, PTL
          DEF Spec, ImplementsDelivery, Delivery!DeliverySpec

=============================================================================
