---------------------------- MODULE MCAdminRoles ----------------------------
(* Model-checking instance of AdminRoles. *)
EXTENDS AdminRoles, TLC

\* Users and request slots are interchangeable (used by the safety-only run).
Interchangeable == Permutations(Users) \cup Permutations(Requests)

=============================================================================
