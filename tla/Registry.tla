------------------------------- MODULE Registry -------------------------------
(***************************************************************************)
(* What registration promises: every request is decided at one instant, as  *)
(* if requests came one after the other.  It is refused exactly when its    *)
(* login or its email belongs to a user at that instant; otherwise it makes *)
(* its user, or comes to nothing.                                           *)
(***************************************************************************)
CONSTANTS
    Registrations,      \* the requests
    LoginOf, EmailOf    \* what each of them asks for

VARIABLES
    users,      \* the requests that have made their user
    outcome     \* what has become of each request

vars == <<users, outcome>>

Init ==
    /\ users = {}
    /\ outcome = [r \in Registrations |-> "undecided"]

Taken(r) == \E u \in users : LoginOf[u] = LoginOf[r] \/ EmailOf[u] = EmailOf[r]

Register(r) ==
    /\ outcome[r] = "undecided"
    /\ ~Taken(r)
    /\ users' = users \cup {r}
    /\ outcome' = [outcome EXCEPT ![r] = "registered"]

Refuse(r) ==
    /\ outcome[r] = "undecided"
    /\ Taken(r)
    /\ outcome' = [outcome EXCEPT ![r] = "refused"]
    /\ UNCHANGED users

\* An error ends one request, a restart several.
GiveUp(some) ==
    /\ \A r \in some : outcome[r] = "undecided"
    /\ outcome' = [r \in Registrations |-> IF r \in some THEN "failed" ELSE outcome[r]]
    /\ UNCHANGED users

Next ==
    \/ \E r \in Registrations : Register(r) \/ Refuse(r)
    \/ \E some \in SUBSET Registrations : GiveUp(some)

Spec == Init /\ [][Next]_vars
=============================================================================
