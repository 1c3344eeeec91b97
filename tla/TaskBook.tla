------------------------------- MODULE TaskBook -------------------------------
(***************************************************************************)
(* What creating tasks promises: every request is decided at one instant.   *)
(* It makes its task, as it was asked for, for a user and in a project that *)
(* exist at that instant; it is refused for its priority; or it comes to    *)
(* nothing.  A task is announced when it is there.  Nothing is promised of  *)
(* the status of a request that asks for none of the four.                  *)
(***************************************************************************)
EXTENDS Integers

CONSTANTS
    Creators,       \* the users there may be
    Projects,       \* the projects there may be
    Requests,       \* the requests for a task
    ProjectOf, StatusOf, PriorityOf,  \* what each of them asks for
    Statuses                          \* those a task may have

VARIABLES
    users, projects,    \* those there are
    tasks,              \* the tasks there are
    outcome,            \* what has become of each request
    announced           \* the tasks that have been announced

vars == <<users, projects, tasks, outcome, announced>>

Outcomes == {"undecided", "created", "refused", "failed"}

Init ==
    /\ users = {}
    /\ projects = {}
    /\ tasks = {}
    /\ outcome = [q \in Requests |-> "undecided"]
    /\ announced = {}

InRange(q) == PriorityOf[q] \in 1 .. 5

Task(q, u, s) ==
    [request |-> q, project |-> ProjectOf[q], creator |-> u, status |-> s,
     priority |-> PriorityOf[q]]

Create(q, u, s) ==
    /\ outcome[q] = "undecided"
    /\ u \in users /\ ProjectOf[q] \in projects /\ InRange(q)
    /\ StatusOf[q] \in Statuses => s = StatusOf[q]
    /\ tasks' = tasks \cup {Task(q, u, s)}
    /\ outcome' = [outcome EXCEPT ![q] = "created"]
    /\ UNCHANGED <<users, projects, announced>>

Refuse(q) ==
    /\ outcome[q] = "undecided"
    /\ ~InRange(q)
    /\ outcome' = [outcome EXCEPT ![q] = "refused"]
    /\ UNCHANGED <<users, projects, tasks, announced>>

\* An error ends one request, a restart several.
GiveUp ==
    /\ UNCHANGED <<users, projects, tasks, announced>>
    /\ outcome' \in [Requests -> Outcomes]
    /\ \A q \in Requests :
        outcome'[q] # outcome[q] => outcome[q] = "undecided" /\ outcome'[q] = "failed"

Announce(t) ==
    /\ announced' = announced \cup {t}
    /\ UNCHANGED <<users, projects, tasks, outcome>>

AddUser(u) ==
    /\ users' = users \cup {u}
    /\ UNCHANGED <<projects, tasks, outcome, announced>>

AddProject(p) ==
    /\ projects' = projects \cup {p}
    /\ UNCHANGED <<users, tasks, outcome, announced>>

Next ==
    \/ \E q \in Requests :
        Refuse(q) \/ \E u \in Creators, s \in Statuses : Create(q, u, s)
    \/ GiveUp
    \/ \E t \in tasks : Announce(t)
    \/ \E u \in Creators : AddUser(u)
    \/ \E p \in Projects : AddProject(p)

Spec == Init /\ [][Next]_vars
=============================================================================
