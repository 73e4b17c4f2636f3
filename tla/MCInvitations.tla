--------------------------- MODULE MCInvitations ---------------------------
(* Model-checking instance of Invitations. *)
EXTENDS Invitations, TLC

\* Request slots, invitations and addresses are interchangeable (safety runs).
Interchangeable ==
    Permutations(Requests) \cup Permutations(InvitationIds) \cup Permutations(Emails)

=============================================================================
