------------------------ MODULE InvitationLifecycle ------------------------
(***************************************************************************)
(* What an invitation promises: it is issued once, then accepted or        *)
(* cancelled at most once and never both, and the one step that accepts it *)
(* also creates its account, under its own address if that address is      *)
(* free.  No clock, no locks, no requests: module Invitations implements   *)
(* this.                                                                   *)
(***************************************************************************)
CONSTANTS
    Invitations,
    Emails,
    NoEmail,    \* the address of an invitation that was not issued
    Direct      \* the origin of an account no invitation created

VARIABLES
    state,      \* "absent", "pending", "accepted" or "cancelled"
    address,    \* the e-mail address an invitation was issued to
    accounts    \* the organization's accounts: e-mail address and origin

lifecycleVars == <<state, address, accounts>>

Account == [email: Emails, origin: Invitations \cup {Direct}]

Free(e) == \A u \in accounts : u.email # e

LifecycleInit ==
    /\ state = [i \in Invitations |-> "absent"]
    /\ address = [i \in Invitations |-> NoEmail]
    /\ accounts = {}

Issue(i, e) ==
    /\ state[i] = "absent"
    /\ state' = [state EXCEPT ![i] = "pending"]
    /\ address' = [address EXCEPT ![i] = e]
    /\ UNCHANGED accounts

Accept(i) ==
    /\ state[i] = "pending"
    /\ Free(address[i])
    /\ state' = [state EXCEPT ![i] = "accepted"]
    /\ accounts' = accounts \cup {[email |-> address[i], origin |-> i]}
    /\ UNCHANGED address

Cancel(i) ==
    /\ state[i] = "pending"
    /\ state' = [state EXCEPT ![i] = "cancelled"]
    /\ UNCHANGED <<address, accounts>>

AddAccount(e) ==
    /\ Free(e)
    /\ accounts' = accounts \cup {[email |-> e, origin |-> Direct]}
    /\ UNCHANGED <<state, address>>

ChangeEmail(u, e) ==
    /\ Free(e)
    /\ accounts' = (accounts \ {u}) \cup {[u EXCEPT !.email = e]}
    /\ UNCHANGED <<state, address>>

LifecycleNext ==
    \/ \E i \in Invitations : Accept(i) \/ Cancel(i) \/ \E e \in Emails : Issue(i, e)
    \/ \E e \in Emails : AddAccount(e) \/ \E u \in accounts : ChangeEmail(u, e)

LifecycleSpec == LifecycleInit /\ [][LifecycleNext]_lifecycleVars

=============================================================================
