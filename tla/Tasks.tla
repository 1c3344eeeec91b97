-------------------------------- MODULE Tasks --------------------------------
(***************************************************************************)
(* POST /api/projects/{id}/tasks: CreateTaskHandler over the tables tasks,  *)
(* projects and users, behind JwtChecker.                                   *)
(*                                                                          *)
(* Users, logins and tokens are those of Accounts, which goes on in         *)
(* parallel and restarts together with the requests of this module.  A      *)
(* request takes its creator from the token, looks the project up on any    *)
(* host and inserts on the master, where tasks refer to projects and users. *)
(* Nothing deletes a project, and nothing changes a task.                   *)
(***************************************************************************)
EXTENDS Integers, Sequences

CONSTANTS
    Registrations, LoginOf, EmailOf, PasswordOf, Clients,   \* see Accounts
    Lifetime, MaxTime, HasStandby, NoUser,
    Projects,       \* the projects that may be created
    Requests,       \* requests for a task
    ProjectOf,      \* the project in the path of each request
    StatusOf,       \* its status, "TODO" when the client gave none
    PriorityOf      \* its priority, 3 when the client gave none

ASSUME UsersConstants ==   \* AccountsConstants
    /\ {DOMAIN LoginOf, DOMAIN EmailOf, DOMAIN PasswordOf} = {Registrations}
    /\ Lifetime \in Nat
    /\ MaxTime \in Nat
    /\ HasStandby \in BOOLEAN
    /\ NoUser \notin Registrations

ASSUME TasksConstants ==
    /\ ProjectOf \in [Requests -> Projects]
    /\ DOMAIN StatusOf = Requests
    /\ PriorityOf \in [Requests -> Int]

VARIABLES
    now, commits, applied, rpc, lpc, made, token, events, typed,   \* see Accounts
    projects,          \* rows of projects in the order in which the master committed them
    appliedProjects,   \* how many of them every standby has applied
    tpc,               \* where each request is, or how it ended: "created" is 201,
                       \* "refused" a constraint, "failed" any other end
    creator,           \* the user a request under way was authorized for
    tasks,             \* rows of tasks
    announced          \* what the TaskCreated events that reached the broker say

Users == INSTANCE Accounts

accounts == <<now, commits, applied, rpc, lpc, made, token, events, typed>>
requests == <<tpc, creator>>
taskVars == <<projects, appliedProjects, tpc, creator, tasks, announced>>
vars == <<accounts, taskVars>>

RowsUpTo(n) == {projects[i] : i \in 1 .. n}
ProjectRows == RowsUpTo(Len(projects))

\* How far each host may be from which a query is answered.  That a host applies users
\* and projects in the order of one log is left open: more may happen here.
Positions == IF HasStandby THEN appliedProjects .. Len(projects) ELSE {Len(projects)}

Init ==
    /\ Users!Init
    /\ projects = <<>>
    /\ appliedProjects = 0
    /\ tpc = [q \in Requests |-> "new"]
    /\ creator = [q \in Requests |-> NoUser]
    /\ tasks = {}
    /\ announced = {}

-----------------------------------------------------------------------------
(* The status of a task *)

\* The words that openapi.yaml and the table allow.
Statuses == {"TODO", "IN_PROGRESS", "REVIEW", "DONE"}

\* Mutant: an unknown name becomes a value of its own.
TaskStatusFromStringStrict(s) ==
    CASE s = "TODO"        -> "ToDo"
      [] s = "IN_PROGRESS" -> "InProgress"
      [] s = "REVIEW"      -> "Review"
      [] s = "DONE"        -> "Done"
      [] OTHER             -> "Unknown"

TaskStatusFromString(s) ==
    CASE s = "IN_PROGRESS" -> "InProgress"
      [] s = "REVIEW"      -> "Review"
      [] s = "DONE"        -> "Done"
      [] OTHER             -> "ToDo"

TaskStatusToString(status) ==
    CASE status = "ToDo"       -> "TODO"
      [] status = "InProgress" -> "IN_PROGRESS"
      [] status = "Review"     -> "REVIEW"
      [] status = "Done"       -> "DONE"
      [] OTHER                 -> "UNKNOWN"

-----------------------------------------------------------------------------
(* CreateTaskHandler *)

\* CheckAuth, before the handler.  It answers 401 or 403, or leaves the user in the
\* request's context.
Authorize(q, c, header) ==
    LET said == Users!CheckAuth(header, token[c]) IN
    /\ tpc[q] = "new"
    /\ header = "bearer" => token[c] # Users!NoToken
    /\ tpc' = [tpc EXCEPT ![q] =
                IF said.status = "kOk" THEN "authorized" ELSE "failed"]
    /\ creator' = [creator EXCEPT ![q] = said.user]
    /\ UNCHANGED <<projects, appliedProjects, tasks, announced>>

\* GetProjectById on a host that has these rows, as the set of those it finds.
GetProjectById(rows, p) == {p} \cap rows

\* The request is over: its context is gone.
End(q, how) ==
    /\ tpc' = [tpc EXCEPT ![q] = how]
    /\ creator' = [creator EXCEPT ![q] = NoUser]

LookupProject(q) ==
    /\ tpc[q] = "authorized"
    /\ \E n \in Positions :
         IF GetProjectById(RowsUpTo(n), ProjectOf[q]) = {} THEN End(q, "failed")
         ELSE tpc' = [tpc EXCEPT ![q] = "found"] /\ UNCHANGED creator
    /\ UNCHANGED <<projects, appliedProjects, tasks, announced>>

\* The row that the statement of CreateTask inserts for q.
Row(q) ==
    [request |-> q, project |-> ProjectOf[q], creator |-> creator[q],
     status |-> TaskStatusToString(TaskStatusFromString(StatusOf[q])),
     priority |-> PriorityOf[q]]

\* What RETURNING gives, read into a Task and written out again.
Returned(t) ==
    [t EXCEPT !.status = TaskStatusToString(TaskStatusFromString(t.status))]

\* The foreign keys and CHECK constraints of the table.
DanglingReference(t) == t.project \notin ProjectRows \/ t.creator \notin Users!Rows
InvalidStatus(t) == t.status \notin Statuses
InvalidPriority(t) == t.priority \notin 1 .. 5

\* Mutant: the table has no valid_priority.
ViolatesOther(t) == DanglingReference(t) \/ InvalidStatus(t)

Violates(t) == DanglingReference(t) \/ InvalidStatus(t) \/ InvalidPriority(t)

Commit(q) == tasks' = tasks \cup {Row(q)}

\* Mutant: a violated constraint is taken for success.
CreateTaskAnyway(q) ==
    /\ tpc[q] = "found"
    /\ IF Violates(Row(q)) THEN UNCHANGED tasks ELSE Commit(q)
    /\ tpc' = [tpc EXCEPT ![q] = "inserted"]
    /\ UNCHANGED <<projects, appliedProjects, creator, announced>>

CreateTask(q) ==
    /\ tpc[q] = "found"
    /\ ~Violates(Row(q))
    /\ Commit(q)
    /\ tpc' = [tpc EXCEPT ![q] = "inserted"]
    /\ UNCHANGED <<projects, appliedProjects, creator, announced>>

\* A constraint: the exception leaves the handler, which ends in a 500.
CreateTaskViolates(q) ==
    /\ tpc[q] = "found"
    /\ Violates(Row(q))
    /\ End(q, "refused")
    /\ UNCHANGED <<projects, appliedProjects, tasks, announced>>

\* Either query throws; an insert that was sent may be committed all the same.
TaskFails(q) ==
    /\ \/ tpc[q] \in {"authorized", "found"} /\ UNCHANGED tasks
       \/ tpc[q] = "found" /\ ~Violates(Row(q)) /\ Commit(q)
    /\ End(q, "failed")
    /\ UNCHANGED <<projects, appliedProjects, announced>>

\* PublishTaskCreated with the task that CreateTask returned; it swallows what Send
\* throws.  Then 201.
PublishTaskCreated(q) ==
    /\ tpc[q] = "inserted"
    /\ \/ announced' = announced \cup {Returned(t) : t \in {t \in tasks : t.request = q}}
       \/ UNCHANGED announced
    /\ End(q, "created")
    /\ UNCHANGED <<projects, appliedProjects, tasks>>

-----------------------------------------------------------------------------
(* The environment *)

\* CreateProjectHandler commits a project; see ProjectCache for the whole of it.
CommitProject(p) ==
    /\ p \notin ProjectRows
    /\ projects' = Append(projects, p)
    /\ UNCHANGED <<appliedProjects, tasks, announced>> /\ UNCHANGED requests

ReplicateProjects ==
    /\ appliedProjects < Len(projects)
    /\ appliedProjects' = appliedProjects + 1
    /\ UNCHANGED <<projects, tasks, announced>> /\ UNCHANGED requests

\* The process stops and starts again.
Restart ==
    /\ Users!Restart
    /\ tpc' = [q \in Requests |->
                IF tpc[q] \in {"authorized", "found", "inserted"} THEN "failed" ELSE tpc[q]]
    /\ creator' = [q \in Requests |-> NoUser]
    /\ UNCHANGED <<projects, appliedProjects, tasks, announced>>

RequestStep(q) ==
    \/ \E c \in Clients, header \in Users!Headers : Authorize(q, c, header)
    \/ LookupProject(q)
    \/ CreateTask(q)
    \/ CreateTaskViolates(q)
    \/ TaskFails(q)
    \/ PublishTaskCreated(q)

TaskStep ==
    /\ \/ \E q \in Requests : RequestStep(q)
       \/ \E p \in Projects : CommitProject(p)
       \/ ReplicateProjects
    /\ UNCHANGED accounts

Next ==
    \/ Users!Step /\ UNCHANGED taskVars
    \/ TaskStep
    \/ Restart

Spec == Init /\ [][Next]_vars

-----------------------------------------------------------------------------
(* Properties *)

TaskRows ==
    [request : Requests, project : Projects, creator : Registrations,
     status : Statuses, priority : 1 .. 5]

\* The types of the variables of this module; a request makes one task at most.
TypeOK ==
    /\ projects \in Seq(Projects)
    /\ appliedProjects \in 0 .. Len(projects)
    /\ tpc \in [Requests -> {"new", "authorized", "found", "inserted", "created",
                             "refused", "failed"}]
    /\ creator \in [Requests -> Registrations \cup {NoUser}]
    /\ tasks \subseteq TaskRows
    /\ \A s, t \in tasks : s.request = t.request => s = t
    /\ announced \subseteq TaskRows

\* The handler checks neither the creator nor the status against the tables, and the
\* project only on a standby.  All the same no insert meets a foreign key or the
\* check of the status: only a priority out of range does.
OnlyPriorityIsRefused ==
    \A q \in Requests : tpc[q] = "refused" => PriorityOf[q] \notin 1 .. 5

\* After 201, and after the event, the task is in the table as it was asked for; the
\* event says what the row says, though the status is converted four times between
\* the request and the event.  This is about a status that openapi.yaml allows; the
\* code does not refuse another word, and what becomes of it is not "as asked for".
AnnouncedTaskIsStored ==
    /\ \A q \in Requests : tpc[q] \in {"inserted", "created"} =>
        \E t \in tasks :
            /\ t.request = q /\ t.project = ProjectOf[q]
            /\ StatusOf[q] \in Statuses => t.status = StatusOf[q]
            /\ t.priority = PriorityOf[q]
    /\ announced \subseteq tasks

\* Whoever a task names as its creator: some client once gave the login and the
\* password of that very user, whatever registrations raced and restarts came since.
CreatorGavePassword ==
    \A t \in tasks :
        \E c \in Clients, r \in Registrations :
            /\ LoginOf[r] = LoginOf[t.creator]
            /\ PasswordOf[r] = PasswordOf[t.creator]
            /\ typed[c][r] # Users!Never

\* Each request as TaskBook sees it: decided by the insert of its row, by the refusal of
\* it, or by whatever ends the request without a row.
Inserted == {t.request : t \in tasks}
Outcome ==
    [q \in Requests |->
        CASE q \in Inserted                         -> "created"
          [] q \notin Inserted /\ tpc[q] = "refused" -> "refused"
          [] q \notin Inserted /\ tpc[q] = "failed"  -> "failed"
          [] OTHER                                  -> "undecided"]

Book == INSTANCE TaskBook
    WITH Creators <- Registrations, users <- Users!Rows, projects <- ProjectRows,
         outcome <- Outcome

\* Although the token, the project and the row are looked at on several hosts and at
\* three times, while users register and the clock goes on, each request comes out as if it was
\* decided at one instant.
RefinesTaskBook == Book!Spec
=============================================================================
