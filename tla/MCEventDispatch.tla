-------------------------- MODULE MCEventDispatch --------------------------
(* Model-checking instance of EventDispatch: one event whose type has a     *)
(* workflow and a plain handler, one with a workflow only.                  *)
EXTENDS EventDispatch, TLC

CONSTANTS e1, e2, workflow, plain

MCRegistered == (e1 :> <<workflow, plain>>) @@ (e2 :> <<workflow>>)

=============================================================================
