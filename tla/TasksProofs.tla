----------------------------- MODULE TasksProofs -----------------------------
(***************************************************************************)
(* Proofs about Tasks: the types, why only the priority is ever refused,    *)
(* that a task is stored as it was asked for and announced, and who its     *)
(* creator is.                                                              *)
(*                                                                          *)
(* What AccountsProofs proves of users and tokens is used for the copy of   *)
(* Accounts that Tasks composes with.                                       *)
(***************************************************************************)
EXTENDS Tasks, SequenceTheorems, TLAPS

Proven == INSTANCE AccountsProofs

-----------------------------------------------------------------------------
(* The two copies of Accounts are one *)

LEMMA SameDefinitions ==
    /\ Users!Rows = Proven!Rows
    /\ Users!NoToken = Proven!NoToken
    /\ Users!Never = Proven!Never
    /\ Users!Headers = Proven!Headers
    /\ \A header, t : Users!CheckAuth(header, t) = Proven!CheckAuth(header, t)
<1>1. Users!Rows = Proven!Rows
  BY DEF Users!Rows, Proven!Rows, Users!RowsUpTo, Proven!RowsUpTo
<1>2. Users!NoToken = Proven!NoToken /\ Users!Never = Proven!Never
  BY DEF Users!NoToken, Proven!NoToken, Users!Never, Proven!Never
<1>3. Users!Headers = Proven!Headers
  BY DEF Users!Headers, Proven!Headers
<1>4. ASSUME NEW header, NEW t PROVE Users!CheckAuth(header, t) = Proven!CheckAuth(header, t)
  BY DEF Users!CheckAuth, Proven!CheckAuth, Users!Valid, Proven!Valid
<1>5. QED
  BY <1>1, <1>2, <1>3, <1>4

LEMMA SameInit == Users!Init <=> Proven!Init
BY DEF Users!Init, Proven!Init, Users!NoToken, Proven!NoToken, Users!Never, Proven!Never

LEMMA SameRestart == Users!Restart <=> Proven!Restart
BY DEF Users!Restart, Proven!Restart, Users!NoToken, Proven!NoToken, Users!table, Proven!table

LEMMA SameRegister ==
    ASSUME NEW r \in Registrations
    PROVE  Users!RegisterStep(r) <=> Proven!RegisterStep(r)
<1>1. Users!Rows = Proven!Rows
  BY SameDefinitions
<1>2. Users!Lookup(r) <=> Proven!Lookup(r)
  <2>1. Users!Positions = Proven!Positions
    BY DEF Users!Positions, Proven!Positions
  <2>2. ASSUME NEW n
        PROVE  Users!GetUserByLogin(Users!RowsUpTo(n), LoginOf[r])
                 = Proven!GetUserByLogin(Proven!RowsUpTo(n), LoginOf[r])
    BY DEF Users!GetUserByLogin, Proven!GetUserByLogin, Users!RowsUpTo, Proven!RowsUpTo
  <2>3. QED
    BY <2>1, <2>2 DEF Users!Lookup, Proven!Lookup, Users!table, Proven!table,
       Users!clients, Proven!clients
<1>3. /\ Users!Violates(r) <=> Proven!Violates(r)
      /\ Users!LoginTaken(r) <=> Proven!LoginTaken(r)
      /\ Users!Commit(r) <=> Proven!Commit(r)
  BY <1>1 DEF Users!Violates, Proven!Violates, Users!LoginTaken, Proven!LoginTaken,
     Users!EmailTaken, Proven!EmailTaken, Users!Commit, Proven!Commit
<1>4. Users!CreateUser(r) <=> Proven!CreateUser(r)
  BY <1>3 DEF Users!CreateUser, Proven!CreateUser, Users!clients, Proven!clients
<1>5. Users!CreateUserViolates(r) <=> Proven!CreateUserViolates(r)
  BY <1>3 DEF Users!CreateUserViolates, Proven!CreateUserViolates, Users!table, Proven!table,
     Users!clients, Proven!clients
<1>6. Users!RegisterFails(r) <=> Proven!RegisterFails(r)
  BY <1>3 DEF Users!RegisterFails, Proven!RegisterFails, Users!clients, Proven!clients
<1>7. Users!PublishUserRegistered(r) <=> Proven!PublishUserRegistered(r)
  BY DEF Users!PublishUserRegistered, Proven!PublishUserRegistered, Users!table, Proven!table,
     Users!clients, Proven!clients
<1>8. QED
  BY <1>2, <1>4, <1>5, <1>6, <1>7 DEF Users!RegisterStep, Proven!RegisterStep

LEMMA SameStep == Users!Step <=> Proven!Step
<1>1. Users!Tick <=> Proven!Tick
  BY DEF Users!Tick, Proven!Tick, Users!table, Proven!table, Users!clients, Proven!clients
<1>2. Users!Replicate <=> Proven!Replicate
  BY DEF Users!Replicate, Proven!Replicate, Users!clients, Proven!clients
<1>3. ASSUME NEW c \in Clients PROVE Users!ClientStep(c) <=> Proven!ClientStep(c)
  <2>0. Users!Positions = Proven!Positions
    BY DEF Users!Positions, Proven!Positions
  <2>1. ASSUME NEW r \in Registrations, NEW n
        PROVE  Users!Found(Users!RowsUpTo(n), r) = Proven!Found(Proven!RowsUpTo(n), r)
    BY DEF Users!Found, Proven!Found, Users!GetUserByLogin,
       Proven!GetUserByLogin, Users!RowsUpTo, Proven!RowsUpTo
  <2>2. \A r \in Registrations : Users!Login(c, r) <=> Proven!Login(c, r)
    BY <2>0, <2>1 DEF Users!Login, Proven!Login, Users!GenerateToken, Proven!GenerateToken,
       Users!table, Proven!table
  <2>3. Users!PublishUserLoggedIn(c) <=> Proven!PublishUserLoggedIn(c)
    BY SameDefinitions DEF Users!PublishUserLoggedIn, Proven!PublishUserLoggedIn,
       Users!table, Proven!table
  <2>4. QED
    BY <2>2, <2>3 DEF Users!ClientStep, Proven!ClientStep
<1>4. QED
  BY <1>1, <1>2, <1>3, SameRegister DEF Users!Step, Proven!Step

\* A step here is a step of Accounts, or none.
LEMMA StepOfAccounts == [Next]_vars => [Proven!Next]_(Proven!vars)
<1>1. accounts = Proven!vars
  BY DEF accounts, Proven!vars
<1>2. QED
  BY <1>1, SameStep, SameRestart DEF Next, TaskStep, Restart, vars, accounts, Proven!Next, Proven!vars
-----------------------------------------------------------------------------
(* The inductive invariant *)

\* Some client once gave the login and the password of u.
GavePassword(u) ==
    \E c \in Clients, r \in Registrations :
        /\ LoginOf[r] = LoginOf[u] /\ PasswordOf[r] = PasswordOf[u]
        /\ typed[c][r] # Proven!Never

UnderWay == {"authorized", "found", "inserted"}

\* Whoever a request acts for is a committed user who logged in, and a project that
\* was found exists; so no reference of the row to be inserted dangles.
RequestsReferToRows ==
    \A q \in Requests :
        /\ tpc[q] \in UnderWay => creator[q] \in Proven!Rows /\ GavePassword(creator[q])
        /\ tpc[q] \in {"found", "inserted"} => ProjectOf[q] \in ProjectRows

\* A row comes from a request that is past its insert.
RowsComeFromInserts ==
    \A t \in tasks : tpc[t.request] \in {"inserted", "created", "failed"}

TaskInv ==
    /\ TypeOK
    /\ RequestsReferToRows
    /\ RowsComeFromInserts
    /\ OnlyPriorityIsRefused
    /\ AnnouncedTaskIsStored
    /\ CreatorGavePassword

-----------------------------------------------------------------------------
(* What goes on in Accounts *)

\* Users, and the fact that somebody gave a password, stay.
LEMMA AccountsOnlyGrow ==
    ASSUME Proven!AccountsInv, Proven!AccountsInv', [Proven!Next]_(Proven!vars)
    PROVE  /\ Proven!Rows \subseteq Proven!Rows'
           /\ \A u : GavePassword(u) => GavePassword(u)'
<1>0. Proven!TypeOK /\ Proven!TokensAreBacked /\ Proven!TypeOK'
  BY DEF Proven!AccountsInv
<1>1. Proven!Rows \subseteq Proven!Rows'
  BY <1>0, UsersConstants, Proven!RowsGrow
<1>2. \A c \in Clients, r \in Registrations : typed[c][r] <= typed'[c][r]
  BY <1>0, UsersConstants, Proven!TypedStep
<1>3. ASSUME NEW c \in Clients, NEW r \in Registrations, typed[c][r] # Proven!Never
      PROVE  typed'[c][r] # Proven!Never
  <2>1. typed[c][r] \in Int /\ typed'[c][r] \in Int /\ typed[c][r] >= 0
    BY <1>0, <1>3, UsersConstants DEF Proven!TypeOK, Proven!Time, Proven!Never
  <2>2. QED
    BY <1>2, <2>1 DEF Proven!Never
<1>4. \A u : GavePassword(u) => GavePassword(u)'
  BY <1>3 DEF GavePassword
<1>5. QED
  BY <1>1, <1>4

\* Whom CheckAuth lets a request act for.
LEMMA AuthorizedIsUser ==
    ASSUME Proven!AccountsInv, NEW c \in Clients, NEW header \in Users!Headers,
           header = "bearer" => token[c] # Users!NoToken
    PROVE  LET said == Users!CheckAuth(header, token[c]) IN
           /\ said.user \in Registrations \cup {NoUser}
           /\ said.status = "kOk" =>
                said.user \in Proven!Rows /\ GavePassword(said.user)
<1>1. CASE header = "bearer"
  <2>1. /\ Proven!Backed(c, token[c])
    BY <1>1, SameDefinitions DEF Proven!AccountsInv, Proven!TokensAreBacked
  <2>2. token[c].user \in Proven!Rows /\ GavePassword(token[c].user)
    BY <2>1 DEF Proven!Backed, GavePassword
  <2>3. token[c].user \in Registrations
    BY <2>2, UsersConstants, Proven!RowsAreRegistrations DEF Proven!AccountsInv
  <2>4. QED
    BY <1>1, <2>2, <2>3 DEF Users!CheckAuth
<1>2. CASE header # "bearer"
  BY <1>2 DEF Users!CheckAuth, Users!Headers
<1>3. QED
  BY <1>1, <1>2

\* A step of Accounts disturbs nothing here.
LEMMA AccountsStepKeeps ==
    ASSUME TaskInv, UNCHANGED taskVars, Proven!Rows \subseteq Proven!Rows',
           \A u : GavePassword(u) => GavePassword(u)'
    PROVE  TaskInv'
<1> USE DEF taskVars
<1>1. TypeOK' /\ RowsComeFromInserts' /\ OnlyPriorityIsRefused' /\ AnnouncedTaskIsStored'
  BY DEF TaskInv, TypeOK, RowsComeFromInserts, OnlyPriorityIsRefused, AnnouncedTaskIsStored
<1>2. RequestsReferToRows'
  <2>1. ASSUME NEW q \in Requests, tpc[q] \in UnderWay
        PROVE  creator[q] \in Proven!Rows' /\ GavePassword(creator[q])'
    <3>1. PICK u : u = creator[q] /\ u \in Proven!Rows /\ GavePassword(u)
      BY <2>1 DEF TaskInv, RequestsReferToRows
    <3>2. u \in Proven!Rows' /\ GavePassword(u)'
      BY <3>1
    <3>3. QED
      BY <3>1, <3>2 DEF GavePassword
  <2>2. QED
    BY <2>1 DEF TaskInv, RequestsReferToRows, ProjectRows, RowsUpTo
<1>3. CreatorGavePassword'
  <2>1. ASSUME NEW t \in tasks PROVE GavePassword(t.creator)'
    BY SameDefinitions DEF TaskInv, CreatorGavePassword, GavePassword
  <2>2. QED
    BY <2>1, SameDefinitions DEF CreatorGavePassword, GavePassword, Users!Never, Proven!Never
<1>4. QED
  BY <1>1, <1>2, <1>3 DEF TaskInv

-----------------------------------------------------------------------------
(* The row of a request *)

\* The conversions between the request and the table: one of the four words survives
\* them, and whatever the word, one of the four comes out.
LEMMA StatusSurvives ==
    ASSUME NEW q \in Requests
    PROVE  /\ Row(q).status \in Statuses
           /\ StatusOf[q] \in Statuses => Row(q).status = StatusOf[q]
           /\ ~InvalidStatus(Row(q))
<1>1. CASE StatusOf[q] \in {"IN_PROGRESS", "REVIEW", "DONE"}
  BY <1>1 DEF Row, TaskStatusToString, TaskStatusFromString, Statuses, InvalidStatus
<1>2. CASE StatusOf[q] \notin {"IN_PROGRESS", "REVIEW", "DONE"}
  <2>1. Row(q).status = "TODO"
    BY <1>2 DEF Row, TaskStatusToString, TaskStatusFromString
  <2>2. QED
    BY <1>2, <2>1 DEF Statuses, InvalidStatus
<1>3. QED
  BY <1>1, <1>2

LEMMA ReturnedIsRow ==
    ASSUME NEW t \in TaskRows
    PROVE  Returned(t) = t
<1>1. t.status \in {"TODO", "IN_PROGRESS", "REVIEW", "DONE"}
  BY DEF TaskRows, Statuses
<1>2. TaskStatusToString(TaskStatusFromString(t.status)) = t.status
  BY <1>1 DEF TaskStatusToString, TaskStatusFromString
<1>3. QED
  BY <1>2 DEF Returned, TaskRows

\* Of the constraints only the one on the priority can refuse the row.
LEMMA OnlyPriorityViolates ==
    ASSUME TaskInv, NEW q \in Requests, tpc[q] = "found"
    PROVE  Violates(Row(q)) <=> PriorityOf[q] \notin 1 .. 5
<1>1. ~DanglingReference(Row(q))
  BY SameDefinitions
     DEF TaskInv, RequestsReferToRows, UnderWay, DanglingReference, Row
<1>2. InvalidPriority(Row(q)) <=> PriorityOf[q] \notin 1 .. 5
  BY DEF InvalidPriority, Row
<1>3. QED
  BY <1>1, <1>2, StatusSurvives DEF Violates

LEMMA RowType ==
    ASSUME TaskInv, Proven!AccountsInv, NEW q \in Requests, tpc[q] = "found", ~Violates(Row(q))
    PROVE  /\ Row(q) \in TaskRows
           /\ Row(q).request = q /\ Row(q).project = ProjectOf[q]
           /\ StatusOf[q] \in Statuses => Row(q).status = StatusOf[q]
           /\ Row(q).priority = PriorityOf[q]
           /\ Row(q).creator = creator[q]
<1>1. ProjectOf[q] \in Projects
  BY TasksConstants
<1>2. creator[q] \in Registrations
  BY UsersConstants, Proven!RowsAreRegistrations
     DEF TaskInv, RequestsReferToRows, UnderWay, Proven!AccountsInv
<1>3. PriorityOf[q] \in 1 .. 5
  BY OnlyPriorityViolates
<1>4. Row(q).status \in Statuses
  BY StatusSurvives
<1>5. Row(q) \in TaskRows
  BY <1>1, <1>2, <1>3, <1>4 DEF Row, TaskRows
<1>6. QED
  BY <1>5, StatusSurvives DEF Row

-----------------------------------------------------------------------------
(* The steps of CreateTaskHandler *)

\* What a step of a request leaves alone, but for its own place.
Elsewhere(q) ==
    \A p \in Requests \ {q} : tpc'[p] = tpc[p] /\ creator'[p] = creator[p]

\* The insert of the row of q, which an answer may follow or an error.
LEMMA InsertKeeps ==
    ASSUME TaskInv, Proven!AccountsInv, UNCHANGED accounts, NEW q \in Requests, TypeOK',
           tpc[q] = "found", ~Violates(Row(q)), Commit(q),
           UNCHANGED <<projects, announced>>, Elsewhere(q),
           \/ tpc'[q] = "inserted" /\ creator'[q] = creator[q]
           \/ tpc'[q] = "failed"
    PROVE  TaskInv'
<1> DEFINE row == Row(q)
<1>1. /\ row.request = q /\ row.project = ProjectOf[q] /\ row.creator = creator[q]
      /\ StatusOf[q] \in Statuses => row.status = StatusOf[q]
      /\ row.priority = PriorityOf[q]
      /\ tasks' = tasks \cup {row}
  BY RowType DEF Commit
<1> HIDE DEF row
<1>2. Proven!Rows' = Proven!Rows /\ (\A u : GavePassword(u)' = GavePassword(u))
      /\ ProjectRows' = ProjectRows
  BY DEF accounts, Proven!Rows, Proven!RowsUpTo, GavePassword, ProjectRows, RowsUpTo
<1>3. creator[q] \in Proven!Rows /\ GavePassword(creator[q]) /\ ProjectOf[q] \in ProjectRows
  BY DEF TaskInv, RequestsReferToRows, UnderWay
<1>4. RequestsReferToRows'
  <2>1. ASSUME NEW p \in Requests, tpc'[p] \in UnderWay
        PROVE  creator'[p] = creator[p] /\ tpc[p] \in UnderWay
               /\ (tpc'[p] \in {"found", "inserted"} => tpc[p] \in {"found", "inserted"})
    BY <2>1 DEF Elsewhere, UnderWay
  <2>2. ASSUME NEW p \in Requests, tpc'[p] \in UnderWay
        PROVE  creator'[p] \in Proven!Rows' /\ GavePassword(creator[p])'
    BY <1>2, <2>1, <2>2 DEF TaskInv, RequestsReferToRows, GavePassword, accounts
  <2>3. ASSUME NEW p \in Requests, tpc'[p] \in {"found", "inserted"}
        PROVE  ProjectOf[p] \in ProjectRows'
    BY <1>2, <2>1, <2>3 DEF TaskInv, RequestsReferToRows, UnderWay
  <2>4. QED
    BY <2>2, <2>3 DEF RequestsReferToRows
<1>5. RowsComeFromInserts'
  BY <1>1 DEF TaskInv, TypeOK, TaskRows, RowsComeFromInserts, Elsewhere
<1>6. OnlyPriorityIsRefused'
  BY DEF TaskInv, OnlyPriorityIsRefused, Elsewhere
<1>7. AnnouncedTaskIsStored'
  <2>1. ASSUME NEW p \in Requests, tpc'[p] \in {"inserted", "created"}
        PROVE  \E t \in tasks' :
                /\ t.request = p /\ t.project = ProjectOf[p]
                /\ StatusOf[p] \in Statuses => t.status = StatusOf[p]
                /\ t.priority = PriorityOf[p]
    <3>1. CASE p = q
      BY <1>1, <3>1
    <3>2. CASE p # q
      BY <1>1, <2>1, <3>2 DEF TaskInv, AnnouncedTaskIsStored, Elsewhere
    <3>3. QED
      BY <3>1, <3>2
  <2>2. QED
    BY <1>1, <2>1 DEF TaskInv, AnnouncedTaskIsStored
<1>8. CreatorGavePassword'
  <2>1. \A t \in tasks' : GavePassword(t.creator)
    BY <1>1, <1>3, SameDefinitions DEF TaskInv, CreatorGavePassword, GavePassword
  <2>2. QED
    BY <2>1, SameDefinitions DEF CreatorGavePassword, GavePassword, accounts, Users!Never,
       Proven!Never
<1>9. QED
  BY <1>4, <1>5, <1>6, <1>7, <1>8 DEF TaskInv

\* Every other step: a request moves on without a row of its own.
Past == {"inserted", "created", "failed"}

MovesOn(p) ==
    /\ tpc[p] \in Past => tpc'[p] \in Past
    /\ tpc'[p] \in {"inserted", "created"} => tpc[p] \in {"inserted", "created"}
    /\ tpc'[p] = "refused" => tpc[p] = "refused" \/ PriorityOf[p] \notin 1 .. 5

Refers(p) ==
    /\ tpc[p] \in UnderWay => creator[p] \in Proven!Rows /\ GavePassword(creator[p])
    /\ tpc[p] \in {"found", "inserted"} => ProjectOf[p] \in ProjectRows

LEMMA NoInsertKeeps ==
    ASSUME TaskInv, TypeOK', UNCHANGED <<tasks, typed>>, announced' \subseteq tasks,
           \A p \in Requests : MovesOn(p), \A p \in Requests : Refers(p)'
    PROVE  TaskInv'
<1>1. RequestsReferToRows'
  BY DEF RequestsReferToRows, Refers
<1>2. RowsComeFromInserts'
  BY DEF TaskInv, TypeOK, TaskRows, RowsComeFromInserts, MovesOn, Past
<1>3. OnlyPriorityIsRefused'
  BY DEF TaskInv, OnlyPriorityIsRefused, MovesOn
<1>4. AnnouncedTaskIsStored'
  BY DEF TaskInv, AnnouncedTaskIsStored, MovesOn
<1>5. CreatorGavePassword'
  BY DEF TaskInv, CreatorGavePassword, Users!Never
<1>6. QED
  BY <1>1, <1>2, <1>3, <1>4, <1>5 DEF TaskInv

\* A request that a step leaves alone refers to what it did.
LEMMA OthersRefer ==
    ASSUME TaskInv, NEW p \in Requests, UNCHANGED <<commits, typed>>,
           ProjectRows \subseteq ProjectRows', tpc'[p] = tpc[p], creator'[p] = creator[p]
    PROVE  Refers(p)'
<1>1. Proven!Rows' = Proven!Rows
  BY DEF Proven!Rows, Proven!RowsUpTo
<1>2. Refers(p)
  BY DEF TaskInv, RequestsReferToRows, Refers
<1>3. GavePassword(creator[p]) => GavePassword(creator[p])'
  BY DEF GavePassword, Proven!Never
<1>4. QED
  BY <1>1, <1>2, <1>3 DEF Refers

LEMMA CommitType ==
    ASSUME TaskInv, Proven!AccountsInv, NEW q \in Requests, tpc[q] = "found",
           ~Violates(Row(q)), Commit(q)
    PROVE  /\ tasks' \subseteq TaskRows
           /\ \A s, t \in tasks' : s.request = t.request => s = t
<1> DEFINE row == Row(q)
<1>1. row \in TaskRows /\ row.request = q /\ tasks' = tasks \cup {row}
  BY RowType DEF Commit
<1> HIDE DEF row
<1>2. \A t \in tasks : t.request # q
  BY DEF TaskInv, RowsComeFromInserts
<1>3. tasks \subseteq TaskRows /\ \A s, t \in tasks : s.request = t.request => s = t
  BY DEF TaskInv, TypeOK
<1>4. QED
  BY <1>1, <1>2, <1>3

LEMMA RequestKeeps ==
    ASSUME TaskInv, Proven!AccountsInv, UNCHANGED accounts,
           NEW q \in Requests, RequestStep(q)
    PROVE  TaskInv'
<1>a. UNCHANGED <<commits, typed>>
  BY DEF accounts
<1>t. TypeOK /\ announced \subseteq tasks
  BY DEF TaskInv, AnnouncedTaskIsStored
<1>p. ProjectRows' = ProjectRows /\ projects' = projects
  BY DEF RequestStep, Authorize, LookupProject, CreateTask, CreateTaskViolates, TaskFails,
     PublishTaskCreated, ProjectRows, RowsUpTo
<1>0. ASSUME TypeOK', UNCHANGED tasks, announced' \subseteq tasks, Elsewhere(q),
             MovesOn(q), Refers(q)'
      PROVE  TaskInv'
  <2>1. \A p \in Requests : MovesOn(p)
    BY <1>0 DEF Elsewhere, MovesOn
  <2>2. \A p \in Requests : Refers(p)'
    BY <1>a, <1>p, <1>0, OthersRefer DEF Elsewhere
  <2>3. QED
    BY <1>a, <1>0, <2>1, <2>2, NoInsertKeeps
<1>1. ASSUME NEW how \in {"refused", "created", "failed"}, End(q, how)
      PROVE  /\ Elsewhere(q) /\ tpc'[q] = how /\ Refers(q)'
             /\ tpc' \in [Requests -> {"new", "authorized", "found", "inserted", "created",
                                       "refused", "failed"}]
             /\ creator' \in [Requests -> Registrations \cup {NoUser}]
  BY <1>t, <1>1 DEF End, Elsewhere, TypeOK, Refers, UnderWay
<1>2. ASSUME NEW c \in Clients, NEW header \in Users!Headers, Authorize(q, c, header)
      PROVE  TaskInv'
  <2> DEFINE said == Users!CheckAuth(header, token[c])
  <2>1. /\ said.user \in Registrations \cup {NoUser}
        /\ said.status = "kOk" => said.user \in Proven!Rows /\ GavePassword(said.user)
    BY <1>2, AuthorizedIsUser DEF Authorize
  <2> HIDE DEF said
  <2>2. /\ tpc[q] = "new"
        /\ tpc' = [tpc EXCEPT ![q] = IF said.status = "kOk" THEN "authorized" ELSE "failed"]
        /\ creator' = [creator EXCEPT ![q] = said.user]
        /\ UNCHANGED <<projects, appliedProjects, tasks, announced>>
    BY <1>2 DEF Authorize, said
  <2>3. TypeOK'
    BY <1>t, <2>1, <2>2 DEF TypeOK
  <2>4. Elsewhere(q) /\ MovesOn(q)
    BY <1>t, <2>2 DEF TypeOK, Elsewhere, MovesOn, Past
  <2>5. /\ tpc'[q] # "found" /\ tpc'[q] # "inserted" /\ creator'[q] = said.user
        /\ tpc'[q] \in UnderWay => said.status = "kOk"
    BY <1>t, <2>2 DEF TypeOK, UnderWay
  <2>6. Proven!Rows' = Proven!Rows /\ \A u : GavePassword(u) => GavePassword(u)'
    BY <1>a DEF Proven!Rows, Proven!RowsUpTo, GavePassword, Proven!Never
  <2>7. PICK u : u = said.user
    OBVIOUS
  <2>8. tpc'[q] \in UnderWay => u \in Proven!Rows' /\ GavePassword(u)'
    BY <2>1, <2>5, <2>6, <2>7
  <2>9. Refers(q)'
    BY <2>5, <2>7, <2>8 DEF Refers, GavePassword
  <2>10. QED
    BY <1>0, <1>t, <2>2, <2>3, <2>4, <2>9
<1>3. CASE LookupProject(q)
  <2>1. /\ tpc[q] = "authorized"
        /\ UNCHANGED <<projects, appliedProjects, tasks, announced>>
    BY <1>3 DEF LookupProject
  <2>2. CASE End(q, "failed")
    BY <1>0, <1>1, <1>t, <2>1, <2>2 DEF TypeOK, MovesOn, Past
  <2>3. CASE /\ \E n \in Positions : GetProjectById(RowsUpTo(n), ProjectOf[q]) # {}
             /\ tpc' = [tpc EXCEPT ![q] = "found"] /\ UNCHANGED creator
    <3>1. TypeOK' /\ Elsewhere(q) /\ tpc'[q] = "found" /\ MovesOn(q)
      BY <1>t, <2>1, <2>3 DEF TypeOK, Elsewhere, MovesOn, Past
    <3>2. ProjectOf[q] \in ProjectRows
      <4>1. PICK n \in Positions : GetProjectById(RowsUpTo(n), ProjectOf[q]) # {}
        BY <2>3
      <4>2. n \in 0 .. Len(projects)
        BY <1>t DEF Positions, TypeOK
      <4>3. ProjectOf[q] \in RowsUpTo(n)
        BY <4>1 DEF GetProjectById
      <4>4. Len(projects) \in Nat
        BY <1>t DEF TypeOK
      <4>5. QED
        BY <4>2, <4>3, <4>4 DEF ProjectRows, RowsUpTo
    <3>3. creator[q] \in Proven!Rows /\ GavePassword(creator[q])
      BY <2>1 DEF TaskInv, RequestsReferToRows, UnderWay
    <3>4. Refers(q)'
      BY <1>a, <1>p, <2>3, <3>1, <3>2, <3>3
         DEF Refers, GavePassword, Proven!Never, Proven!Rows, Proven!RowsUpTo
    <3>5. QED
      BY <1>0, <1>t, <2>1, <3>1, <3>4
  <2>4. QED
    BY <1>3, <2>2, <2>3 DEF LookupProject
<1>4. CASE CreateTask(q)
  <2>1. /\ tpc[q] = "found" /\ ~Violates(Row(q)) /\ Commit(q)
        /\ tpc' = [tpc EXCEPT ![q] = "inserted"]
        /\ UNCHANGED <<projects, appliedProjects, creator, announced>>
    BY <1>4 DEF CreateTask
  <2>2. TypeOK'
    BY <1>t, <2>1, CommitType DEF TypeOK
  <2>3. Elsewhere(q) /\ tpc'[q] = "inserted" /\ creator'[q] = creator[q]
    BY <1>t, <2>1 DEF TypeOK, Elsewhere
  <2>4. QED
    BY <2>1, <2>2, <2>3, InsertKeeps
<1>5. CASE CreateTaskViolates(q)
  <2>1. PriorityOf[q] \notin 1 .. 5
    BY <1>5, OnlyPriorityViolates DEF CreateTaskViolates
  <2>2. QED
    BY <1>0, <1>1, <1>5, <1>t, <2>1 DEF CreateTaskViolates, TypeOK, MovesOn, Past
<1>6. CASE TaskFails(q)
  <2>1. End(q, "failed") /\ UNCHANGED <<projects, appliedProjects, announced>>
    BY <1>6 DEF TaskFails
  <2>2. Elsewhere(q) /\ tpc'[q] = "failed" /\ Refers(q)'
    BY <1>1, <2>1
  <2>3. CASE tpc[q] \in {"authorized", "found"} /\ UNCHANGED tasks
    BY <1>0, <1>1, <1>t, <2>1, <2>2, <2>3 DEF TypeOK, MovesOn, Past
  <2>4. CASE tpc[q] = "found" /\ ~Violates(Row(q)) /\ Commit(q)
    <3>1. TypeOK'
      BY <1>1, <1>t, <2>1, <2>4, CommitType DEF TypeOK
    <3>2. QED
      BY <2>1, <2>2, <2>4, <3>1, InsertKeeps
  <2>5. QED
    BY <1>6, <2>3, <2>4 DEF TaskFails
<1>7. CASE PublishTaskCreated(q)
  <2>1. announced' \subseteq tasks
    BY <1>7, <1>t, ReturnedIsRow DEF PublishTaskCreated, TypeOK
  <2>2. TypeOK'
    BY <1>1, <1>7, <1>t, <2>1 DEF PublishTaskCreated, TypeOK
  <2>3. QED
    BY <1>0, <1>1, <1>7, <2>1, <2>2 DEF PublishTaskCreated, MovesOn, Past
<1>8. QED
  BY <1>2, <1>3, <1>4, <1>5, <1>6, <1>7 DEF RequestStep

-----------------------------------------------------------------------------
(* The environment *)

LEMMA ProjectKeeps ==
    ASSUME TaskInv, UNCHANGED accounts,
           ReplicateProjects \/ \E p \in Projects : CommitProject(p)
    PROVE  TaskInv'
<1>a. UNCHANGED <<commits, typed>>
  BY DEF accounts
<1>t. /\ TypeOK /\ announced \subseteq tasks
      /\ projects \in Seq(Projects) /\ Len(projects) \in Nat
      /\ appliedProjects \in 0 .. Len(projects)
  BY DEF TaskInv, AnnouncedTaskIsStored, TypeOK
<1>r. UNCHANGED <<tpc, creator, tasks, announced>>
  BY DEF ReplicateProjects, CommitProject, requests
<1>1. /\ projects' \in Seq(Projects) /\ appliedProjects' \in 0 .. Len(projects')
      /\ ProjectRows \subseteq ProjectRows'
  <2>1. CASE ReplicateProjects
    BY <1>t, <2>1 DEF ReplicateProjects, ProjectRows, RowsUpTo
  <2>2. ASSUME NEW p \in Projects, CommitProject(p)
        PROVE  /\ projects' \in Seq(Projects) /\ appliedProjects' \in 0 .. Len(projects')
               /\ ProjectRows \subseteq ProjectRows'
    <3>1. /\ projects' \in Seq(Projects) /\ Len(projects') = Len(projects) + 1
          /\ \A i \in 1 .. Len(projects) : projects'[i] = projects[i]
          /\ appliedProjects' = appliedProjects
      BY <1>t, <2>2 DEF CommitProject
    <3>2. QED
      BY <1>t, <3>1 DEF ProjectRows, RowsUpTo
  <2>3. QED
    BY <2>1, <2>2
<1>2. TypeOK'
  BY <1>t, <1>r, <1>1 DEF TypeOK
<1>3. \A p \in Requests : MovesOn(p) /\ Refers(p)'
  BY <1>a, <1>r, <1>1, OthersRefer DEF MovesOn
<1>4. QED
  BY <1>a, <1>t, <1>r, <1>2, <1>3, NoInsertKeeps

LEMMA RestartKeeps == ASSUME TaskInv, Restart PROVE TaskInv'
<1>1. /\ UNCHANGED <<commits, typed, projects, appliedProjects, tasks, announced>>
      /\ tpc' = [q \in Requests |-> IF tpc[q] \in UnderWay THEN "failed" ELSE tpc[q]]
      /\ creator' = [q \in Requests |-> NoUser]
      /\ TypeOK /\ announced \subseteq tasks
  BY DEF Restart, Users!Restart, Users!table, UnderWay, TaskInv, AnnouncedTaskIsStored
<1>2. TypeOK'
  BY <1>1 DEF TypeOK
<1>3. \A p \in Requests : MovesOn(p) /\ Refers(p)'
  BY <1>1 DEF MovesOn, Past, UnderWay, Refers
<1>4. QED
  BY <1>1, <1>2, <1>3, NoInsertKeeps

-----------------------------------------------------------------------------
(* The theorems *)

LEMMA AccountsInit == Init => Proven!AccountsInv
BY UsersConstants, Proven!InvInit, SameInit DEF Init

LEMMA AccountsStep == Proven!AccountsInv /\ [Next]_vars => Proven!AccountsInv'
BY UsersConstants, Proven!InvStep, StepOfAccounts

LEMMA TaskInit == Init => TaskInv
<1> SUFFICES ASSUME Init PROVE TaskInv
  OBVIOUS
<1>1. TypeOK
  BY DEF Init, TypeOK
<1>2. RequestsReferToRows
  BY DEF Init, RequestsReferToRows, UnderWay
<1>3. RowsComeFromInserts /\ OnlyPriorityIsRefused /\ AnnouncedTaskIsStored /\ CreatorGavePassword
  BY DEF Init, RowsComeFromInserts, OnlyPriorityIsRefused, AnnouncedTaskIsStored,
     CreatorGavePassword
<1>4. QED
  BY <1>1, <1>2, <1>3 DEF TaskInv

LEMMA TaskStepKeeps ==
    TaskInv /\ Proven!AccountsInv /\ Proven!AccountsInv' /\ [Next]_vars => TaskInv'
<1> SUFFICES ASSUME TaskInv, Proven!AccountsInv, Proven!AccountsInv', [Next]_vars
             PROVE  TaskInv'
  OBVIOUS
<1>1. CASE UNCHANGED taskVars
  BY <1>1, StepOfAccounts, AccountsOnlyGrow, AccountsStepKeeps
<1>2. CASE TaskStep
  BY <1>2, RequestKeeps, ProjectKeeps DEF TaskStep
<1>3. CASE Restart
  BY <1>3, RestartKeeps
<1>4. QED
  BY <1>1, <1>2, <1>3 DEF Next, vars

LEMMA InvHolds == Spec => [](Proven!AccountsInv /\ TaskInv)
BY AccountsInit, AccountsStep, TaskInit, TaskStepKeeps, PTL DEF Spec

\* The tables, the requests and the events keep their types, and a request has one
\* row at most.
THEOREM TypeCorrect == Spec => []TypeOK
<1>1. TaskInv => TypeOK
  BY DEF TaskInv
<1>2. QED
  BY <1>1, InvHolds, PTL

\* CreateTaskHandler relies on a token and on a read of some host, and all the same no
\* insert meets a foreign key or the check of the status.
THEOREM OnlyPriorityRefuses == Spec => []OnlyPriorityIsRefused
<1>1. TaskInv => OnlyPriorityIsRefused
  BY DEF TaskInv
<1>2. QED
  BY <1>1, InvHolds, PTL

\* 201 and TaskCreated are about a task in the table as it was asked for, where the status
\* asked for is one a task may have: the conversions of it change none of the four.
THEOREM AnnouncedTaskExists == Spec => []AnnouncedTaskIsStored
<1>1. TaskInv => AnnouncedTaskIsStored
  BY DEF TaskInv
<1>2. QED
  BY <1>1, InvHolds, PTL

\* From RegisterHandler over LoginHandler and JwtChecker to the row of a task: its
\* creator is a user whose login and password some client gave.
THEOREM CreatorWasLoggedIn == Spec => []CreatorGavePassword
<1>1. TaskInv => CreatorGavePassword
  BY DEF TaskInv
<1>2. QED
  BY <1>1, InvHolds, PTL

-----------------------------------------------------------------------------
(* The composition *)

\* Whatever the requests for tasks do, Accounts goes on as it does alone, and restarts with them.
THEOREM TasksImplementAccounts == Spec => Proven!Spec
<1>1. Init => Proven!Init
  BY SameInit DEF Init
<1>2. QED
  BY <1>1, StepOfAccounts, PTL DEF Spec, Proven!Spec

\* What holds of Accounts alone holds next to the requests for tasks: racing registrations
\* come out as if made one by one, a login names one user, clients are told what is so, and a
\* token speaks for its user within its lifetime only.
THEOREM AccountsStayRight ==
    Spec => /\ Proven!RefinesRegistry
            /\ [](Proven!OneUserPerLogin /\ Proven!AnswersMatchTable /\ Proven!TokenHonoured)
<1>1. /\ Proven!Spec => Proven!RefinesRegistry
      /\ Proven!Spec => []Proven!OneUserPerLogin
      /\ Proven!Spec => []Proven!AnswersMatchTable
      /\ Proven!Spec => []Proven!TokenHonoured
  BY UsersConstants, Proven!RegistrationRefinesRegistry, Proven!LoginNamesOneUser,
     Proven!AnswersAreTrue, Proven!TokenSpeaksForItsUser
<1>2. QED
  BY <1>1, TasksImplementAccounts, PTL

-----------------------------------------------------------------------------
(* Tasks implements TaskBook *)

Open == {"new", "authorized", "found"}
GivenUp == {"failed"}

\* What the place of a request, and its row, say of its outcome.
LEMMA OutcomeOf ==
    ASSUME NEW q \in Requests
    PROVE  /\ q \in Inserted => Outcome[q] = "created"
           /\ q \notin Inserted /\ tpc[q] = "refused" => Outcome[q] = "refused"
           /\ q \notin Inserted /\ tpc[q] \in GivenUp => Outcome[q] = "failed"
           /\ q \notin Inserted /\ tpc[q] # "refused" /\ tpc[q] \notin GivenUp
                => Outcome[q] = "undecided"
<1> DEFINE row == q \in Inserted
           state == tpc[q]
<1>1. Outcome[q] = CASE row                         -> "created"
                     [] ~row /\ state = "refused"   -> "refused"
                     [] ~row /\ state \in GivenUp   -> "failed"
                     [] OTHER                       -> "undecided"
  BY DEF Outcome, GivenUp
<1> HIDE DEF row, state
<1>2. "refused" \notin GivenUp
  BY DEF GivenUp
<1>3. /\ row => Outcome[q] = "created"
      /\ ~row /\ state = "refused" => Outcome[q] = "refused"
      /\ ~row /\ state \in GivenUp => Outcome[q] = "failed"
      /\ ~row /\ state # "refused" /\ state \notin GivenUp => Outcome[q] = "undecided"
  BY <1>1, <1>2
<1>4. QED
  BY <1>3 DEF row, state

\* The same of the next state.
LEMMA NextOutcomeOf ==
    ASSUME NEW q \in Requests
    PROVE  /\ q \in Inserted' => Outcome'[q] = "created"
           /\ q \notin Inserted' /\ tpc'[q] = "refused" => Outcome'[q] = "refused"
           /\ q \notin Inserted' /\ tpc'[q] \in GivenUp => Outcome'[q] = "failed"
           /\ q \notin Inserted' /\ tpc'[q] # "refused" /\ tpc'[q] \notin GivenUp
                => Outcome'[q] = "undecided"
<1> DEFINE row == q \in Inserted'
           state == tpc'[q]
<1>1. Outcome'[q] = CASE row                         -> "created"
                      [] ~row /\ state = "refused"   -> "refused"
                      [] ~row /\ state \in GivenUp   -> "failed"
                      [] OTHER                       -> "undecided"
  BY DEF Outcome, GivenUp
<1> HIDE DEF row, state
<1>2. "refused" \notin GivenUp
  BY DEF GivenUp
<1>3. /\ row => Outcome'[q] = "created"
      /\ ~row /\ state = "refused" => Outcome'[q] = "refused"
      /\ ~row /\ state \in GivenUp => Outcome'[q] = "failed"
      /\ ~row /\ state # "refused" /\ state \notin GivenUp => Outcome'[q] = "undecided"
  BY <1>1, <1>2
<1>4. QED
  BY <1>3 DEF row, state

\* An open request has no row; a request past its insert and not failed has one.
LEMMA RowsOfRequests ==
    ASSUME TaskInv, NEW q \in Requests
    PROVE  /\ tpc[q] \in Open \cup {"refused"} => q \notin Inserted
           /\ tpc[q] \in {"inserted", "created"} => q \in Inserted
<1>1. ASSUME q \in Inserted PROVE tpc[q] \in {"inserted", "created", "failed"}
  <2>1. PICK t \in tasks : t.request = q
    BY <1>1 DEF Inserted
  <2>2. QED
    BY <2>1 DEF TaskInv, RowsComeFromInserts
<1>2. ASSUME tpc[q] \in {"inserted", "created"} PROVE q \in Inserted
  BY <1>2 DEF TaskInv, AnnouncedTaskIsStored, Inserted
<1>3. QED
  BY <1>1, <1>2 DEF Open

LEMMA OpenIsUndecided ==
    ASSUME TaskInv, NEW q \in Requests, tpc[q] \in Open
    PROVE  q \notin Inserted /\ Outcome[q] = "undecided"
BY RowsOfRequests, OutcomeOf DEF Open, GivenUp

\* As TaskBook sees it, a request that has its row, stays where it is or goes on stutters.
Stays(q) ==
    \/ q \in Inserted
    \/ tpc'[q] = tpc[q]
    \/ tpc[q] \in Open /\ tpc'[q] \in Open

LEMMA StayingStutters ==
    ASSUME TaskInv, UNCHANGED tasks, NEW q \in Requests, Stays(q)
    PROVE  Outcome'[q] = Outcome[q]
<1>1. Inserted' = Inserted
  BY DEF Inserted
<1>2. CASE q \in Inserted
  BY <1>1, <1>2, OutcomeOf, NextOutcomeOf
<1>3. CASE q \notin Inserted /\ tpc'[q] = tpc[q]
  BY <1>1, <1>3, OutcomeOf, NextOutcomeOf
<1>4. CASE q \notin Inserted /\ tpc[q] \in Open /\ tpc'[q] \in Open
  BY <1>1, <1>4, OutcomeOf, NextOutcomeOf DEF Open, GivenUp
<1>5. QED
  BY <1>2, <1>3, <1>4 DEF Stays

LEMMA NextOutcomeType == Outcome' \in [Requests -> Book!Outcomes]
<1>1. \A q \in Requests : Outcome'[q] \in Book!Outcomes
  BY NextOutcomeOf DEF Book!Outcomes
<1>2. Outcome' = [q \in Requests |-> Outcome'[q]]
  BY DEF Outcome
<1>3. QED
  BY <1>1, <1>2

\* A step that makes no row and adds no user and no project: a stutter, or the end of
\* requests that were open.
LEMMA QuietStep ==
    ASSUME TaskInv, Users!Rows' = Users!Rows, ProjectRows' = ProjectRows,
           UNCHANGED <<tasks, announced>>,
           \A q \in Requests : Stays(q) \/ (tpc[q] \in Open /\ tpc'[q] \in GivenUp)
    PROVE  Book!Next
<1>1. ASSUME NEW q \in Requests, Outcome'[q] # Outcome[q]
      PROVE  Outcome[q] = "undecided" /\ Outcome'[q] = "failed"
  <2>1. tpc[q] \in Open /\ tpc'[q] \in GivenUp
    BY <1>1, StayingStutters
  <2>2. q \notin Inserted'
    BY <2>1, OpenIsUndecided DEF Inserted
  <2>3. QED
    BY <2>1, <2>2, OpenIsUndecided, NextOutcomeOf
<1>2. Book!GiveUp
  BY <1>1, NextOutcomeType DEF Book!GiveUp
<1>3. QED
  BY <1>2 DEF Book!Next

\* The outcomes after a step that decides q and leaves the others alone.
LEMMA DecisionOf ==
    ASSUME TaskInv, NEW q \in Requests, NEW how, Outcome'[q] = how,
           \A p \in Requests \ {q} : Outcome'[p] = Outcome[p]
    PROVE  Outcome' = [Outcome EXCEPT ![q] = how]
<1>1. Outcome' = [p \in Requests |-> Outcome'[p]] /\ Outcome = [p \in Requests |-> Outcome[p]]
  BY DEF Outcome
<1>2. QED
  BY <1>1

\* The insert of a row is where the request succeeds: its creator and its project are there.
LEMMA InsertIsCreate ==
    ASSUME TaskInv, Proven!AccountsInv, UNCHANGED accounts, NEW q \in Requests,
           tpc[q] = "found", ~Violates(Row(q)), Commit(q),
           UNCHANGED <<projects, announced>>, \A p \in Requests \ {q} : tpc'[p] = tpc[p]
    PROVE  Book!Next
<1> DEFINE row == Row(q)
<1> DEFINE s == row.status
<1>1. /\ row.request = q /\ row = Book!Task(q, creator[q], s) /\ tasks' = tasks \cup {row}
      /\ s \in Statuses /\ (StatusOf[q] \in Statuses => s = StatusOf[q])
  <2>1. row = Book!Task(q, creator[q], s)
    BY DEF Row, Book!Task
  <2>2. QED
    BY <2>1, StatusSurvives DEF Row, Commit
<1> HIDE DEF row, s
<1>2. creator[q] \in Users!Rows /\ creator[q] \in Registrations /\ ProjectOf[q] \in ProjectRows
  BY UsersConstants, SameDefinitions, Proven!RowsAreRegistrations
     DEF TaskInv, RequestsReferToRows, UnderWay, Proven!AccountsInv
<1>3. Book!InRange(q)
  BY OnlyPriorityViolates DEF Book!InRange
<1>4. Outcome[q] = "undecided"
  BY OpenIsUndecided DEF Open
<1>5. Inserted' = Inserted \cup {q}
  BY <1>1 DEF Inserted
<1>6. Outcome' = [Outcome EXCEPT ![q] = "created"]
  <2>1. Outcome'[q] = "created"
    BY <1>5, NextOutcomeOf
  <2>2. ASSUME NEW p \in Requests \ {q} PROVE Outcome'[p] = Outcome[p]
    <3>1. (p \in Inserted' <=> p \in Inserted) /\ tpc'[p] = tpc[p]
      BY <1>5
    <3>2. QED
      BY <3>1, OutcomeOf, NextOutcomeOf
  <2>3. QED
    BY <2>1, <2>2, DecisionOf
<1>7. Users!Rows' = Users!Rows /\ ProjectRows' = ProjectRows
  BY DEF accounts, Users!Rows, Users!RowsUpTo, ProjectRows, RowsUpTo
<1>8. Book!Create(q, creator[q], s)
  BY <1>1, <1>2, <1>3, <1>4, <1>6, <1>7 DEF Book!Create
<1>9. QED
  BY <1>1, <1>2, <1>8 DEF Book!Next

LEMMA ViolationIsRefuse ==
    ASSUME TaskInv, UNCHANGED accounts, NEW q \in Requests, CreateTaskViolates(q)
    PROVE  Book!Next
<1>1. /\ tpc[q] = "found" /\ Violates(Row(q))
      /\ tpc' = [tpc EXCEPT ![q] = "refused"]
      /\ UNCHANGED <<projects, tasks, announced>>
  BY DEF CreateTaskViolates, End
<1>2. ~Book!InRange(q)
  BY <1>1, OnlyPriorityViolates DEF Book!InRange
<1>3. q \notin Inserted /\ Outcome[q] = "undecided"
  BY <1>1, OpenIsUndecided DEF Open
<1>4. tpc'[q] = "refused" /\ \A p \in Requests \ {q} : tpc'[p] = tpc[p]
  BY <1>1 DEF TaskInv, TypeOK
<1>5. Outcome' = [Outcome EXCEPT ![q] = "refused"]
  <2>1. Outcome'[q] = "refused"
    BY <1>1, <1>3, <1>4, NextOutcomeOf DEF Inserted
  <2>2. QED
    BY <1>1, <1>4, <2>1, DecisionOf, StayingStutters DEF Stays
<1>6. Users!Rows' = Users!Rows /\ ProjectRows' = ProjectRows
  BY <1>1 DEF accounts, Users!Rows, Users!RowsUpTo, ProjectRows, RowsUpTo
<1>7. Book!Refuse(q)
  BY <1>1, <1>2, <1>3, <1>5, <1>6 DEF Book!Refuse
<1>8. QED
  BY <1>7 DEF Book!Next

\* What PublishTaskCreated announces is the row of the request, once it is there.
LEMMA PublishIsAnnounce ==
    ASSUME TaskInv, UNCHANGED accounts, NEW q \in Requests, PublishTaskCreated(q)
    PROVE  Book!Next
<1>1. /\ tpc[q] = "inserted" /\ tpc' = [tpc EXCEPT ![q] = "created"]
      /\ UNCHANGED <<projects, tasks>>
  BY DEF PublishTaskCreated, End
<1>2. \A p \in Requests : Stays(p)
  BY <1>1, RowsOfRequests DEF Stays, TaskInv, TypeOK
<1>3. Users!Rows' = Users!Rows /\ ProjectRows' = ProjectRows
  BY <1>1 DEF accounts, Users!Rows, Users!RowsUpTo, ProjectRows, RowsUpTo
<1>4. CASE UNCHANGED announced
  BY <1>1, <1>2, <1>3, <1>4, QuietStep
<1>5. CASE announced' = announced \cup {Returned(t) : t \in {t \in tasks : t.request = q}}
  <2>1. PICK t \in tasks : t.request = q
    BY <1>1, RowsOfRequests DEF Inserted
  <2>2. {s \in tasks : s.request = q} = {t} /\ Returned(t) = t
    BY <2>1, ReturnedIsRow DEF TaskInv, TypeOK
  <2>3. announced' = announced \cup {t}
    BY <1>5, <2>2
  <2>4. Outcome' = Outcome
    <3>1. \A p \in Requests : Outcome'[p] = Outcome[p]
      BY <1>1, <1>2, StayingStutters
    <3>2. Outcome = [p \in Requests |-> Outcome[p]] /\ Outcome' = [p \in Requests |-> Outcome'[p]]
      BY DEF Outcome
    <3>3. QED
      BY <3>1, <3>2
  <2>5. Book!Announce(t)
    BY <1>1, <1>3, <2>3, <2>4 DEF Book!Announce
  <2>6. QED
    BY <2>5 DEF Book!Next
<1>6. QED
  BY <1>4, <1>5 DEF PublishTaskCreated

LEMMA RequestIsBookStep ==
    ASSUME TaskInv, Proven!AccountsInv, UNCHANGED accounts, NEW q \in Requests, RequestStep(q)
    PROVE  Book!Next
<1>t. tpc \in [Requests -> {"new", "authorized", "found", "inserted", "created",
                            "refused", "failed"}]
  BY DEF TaskInv, TypeOK
<1>u. Users!Rows' = Users!Rows
  BY DEF accounts, Users!Rows, Users!RowsUpTo
<1>1. ASSUME NEW c \in Clients, NEW header \in Users!Headers, Authorize(q, c, header)
      PROVE  Book!Next
  <2> DEFINE ok == Users!CheckAuth(header, token[c]).status = "kOk"
  <2>1. /\ tpc[q] = "new" /\ tpc' = [tpc EXCEPT ![q] = IF ok THEN "authorized" ELSE "failed"]
        /\ UNCHANGED <<projects, tasks, announced>>
    BY <1>1 DEF Authorize
  <2> HIDE DEF ok
  <2>2. \A p \in Requests : Stays(p) \/ (tpc[p] \in Open /\ tpc'[p] \in GivenUp)
    BY <1>t, <2>1 DEF Stays, Open, GivenUp
  <2>3. QED
    BY <1>u, <2>1, <2>2, QuietStep DEF ProjectRows, RowsUpTo
<1>2. CASE LookupProject(q)
  <2>1. /\ tpc[q] = "authorized" /\ UNCHANGED <<projects, tasks, announced>>
        /\ \/ tpc' = [tpc EXCEPT ![q] = "failed"]
           \/ tpc' = [tpc EXCEPT ![q] = "found"]
    BY <1>2 DEF LookupProject, End
  <2>2. \A p \in Requests : Stays(p) \/ (tpc[p] \in Open /\ tpc'[p] \in GivenUp)
    BY <1>t, <2>1 DEF Stays, Open, GivenUp
  <2>3. QED
    BY <1>u, <2>1, <2>2, QuietStep DEF ProjectRows, RowsUpTo
<1>3. CASE CreateTask(q)
  <2>1. /\ tpc[q] = "found" /\ ~Violates(Row(q)) /\ Commit(q)
        /\ UNCHANGED <<projects, announced>> /\ \A p \in Requests \ {q} : tpc'[p] = tpc[p]
    BY <1>3, <1>t DEF CreateTask
  <2>2. QED
    BY <2>1, InsertIsCreate
<1>4. CASE CreateTaskViolates(q)
  BY <1>4, ViolationIsRefuse
<1>5. CASE TaskFails(q)
  <2>1. /\ tpc' = [tpc EXCEPT ![q] = "failed"] /\ UNCHANGED <<projects, announced>>
        /\ \A p \in Requests \ {q} : tpc'[p] = tpc[p]
    BY <1>5, <1>t DEF TaskFails, End
  <2>2. CASE tpc[q] \in {"authorized", "found"} /\ UNCHANGED tasks
    <3>1. \A p \in Requests : Stays(p) \/ (tpc[p] \in Open /\ tpc'[p] \in GivenUp)
      BY <1>t, <2>1, <2>2 DEF Stays, Open, GivenUp
    <3>2. QED
      BY <1>u, <2>1, <2>2, <3>1, QuietStep DEF ProjectRows, RowsUpTo
  <2>3. CASE tpc[q] = "found" /\ ~Violates(Row(q)) /\ Commit(q)
    BY <2>1, <2>3, InsertIsCreate
  <2>4. QED
    BY <1>5, <2>2, <2>3 DEF TaskFails
<1>6. CASE PublishTaskCreated(q)
  BY <1>6, PublishIsAnnounce
<1>7. QED
  BY <1>1, <1>2, <1>3, <1>4, <1>5, <1>6 DEF RequestStep

\* A project that is committed is one more; replication is not seen.
LEMMA ProjectIsBookStep ==
    ASSUME TaskInv, UNCHANGED accounts,
           ReplicateProjects \/ \E p \in Projects : CommitProject(p)
    PROVE  Book!Next
<1>t. projects \in Seq(Projects) /\ Len(projects) \in Nat
  BY DEF TaskInv, TypeOK
<1>u. /\ Users!Rows' = Users!Rows
      /\ UNCHANGED <<tpc, tasks, announced>>
  BY DEF accounts, Users!Rows, Users!RowsUpTo, ReplicateProjects, CommitProject, requests
<1>1. CASE ReplicateProjects
  BY <1>1, <1>u, QuietStep DEF ReplicateProjects, ProjectRows, RowsUpTo, Stays
<1>2. ASSUME NEW p \in Projects, CommitProject(p)
      PROVE  Book!Next
  <2>1. /\ Len(projects') = Len(projects) + 1 /\ projects'[Len(projects) + 1] = p
        /\ \A i \in 1 .. Len(projects) : projects'[i] = projects[i]
    BY <1>2, <1>t DEF CommitProject
  <2>2. 1 .. Len(projects) + 1 = (1 .. Len(projects)) \cup {Len(projects) + 1}
    BY <1>t
  <2>3. ProjectRows' = ProjectRows \cup {p}
    BY <2>1, <2>2 DEF ProjectRows, RowsUpTo
  <2>4. Outcome' = Outcome
    BY <1>u DEF Outcome, Inserted
  <2>5. Book!AddProject(p)
    BY <1>u, <2>3, <2>4 DEF Book!AddProject
  <2>6. QED
    BY <2>5 DEF Book!Next
<1>3. QED
  BY <1>1, <1>2

\* A stop gives up every request that was authorized and had no row.
LEMMA RestartIsBookStep == ASSUME TaskInv, Restart PROVE Book!Next
<1>1. /\ UNCHANGED <<projects, tasks, announced>> /\ UNCHANGED commits
      /\ tpc' = [q \in Requests |->
                  IF tpc[q] \in {"authorized", "found", "inserted"} THEN "failed" ELSE tpc[q]]
  BY DEF Restart, Users!Restart, Users!table
<1>2. \A p \in Requests : Stays(p) \/ (tpc[p] \in Open /\ tpc'[p] \in GivenUp)
  BY <1>1, RowsOfRequests DEF Stays, Open, GivenUp
<1>3. QED
  BY <1>1, <1>2, QuietStep DEF ProjectRows, RowsUpTo, Users!Rows, Users!RowsUpTo

\* Of what goes on in Accounts only the insert of a user is seen.
LEMMA AccountsIsBookStep ==
    ASSUME TaskInv, Proven!AccountsInv, UNCHANGED taskVars, [Proven!Next]_(Proven!vars)
    PROVE  Book!Next
<1>0. Proven!TypeOK
  BY DEF Proven!AccountsInv
<1>1. UNCHANGED <<tpc, tasks, announced, projects>> /\ ProjectRows' = ProjectRows
  BY DEF taskVars, ProjectRows, RowsUpTo
<1>2. CASE UNCHANGED commits
  BY <1>1, <1>2, QuietStep DEF Users!Rows, Users!RowsUpTo, Stays
<1>3. ASSUME NEW r \in Registrations, Proven!Inserts(r)
      PROVE  Book!Next
  <2>1. Proven!Rows' = Proven!Rows \cup {r}
    BY <1>0, <1>3, UsersConstants, Proven!CommitAddsRow DEF Proven!Inserts
  <2>2. Users!Rows' = Users!Rows \cup {r}
    BY <2>1 DEF Users!Rows, Proven!Rows, Users!RowsUpTo, Proven!RowsUpTo
  <2>3. Outcome' = Outcome
    BY <1>1 DEF Outcome, Inserted
  <2>4. Book!AddUser(r)
    BY <1>1, <2>2, <2>3 DEF Book!AddUser
  <2>5. QED
    BY <2>4 DEF Book!Next
<1>4. QED
  BY <1>2, <1>3, UsersConstants, Proven!TableStep

LEMMA BookInit == Init => Book!Init
<1> SUFFICES ASSUME Init PROVE Book!Init
  OBVIOUS
<1>1. Users!Rows = {} /\ ProjectRows = {}
  BY DEF Init, Users!Init, Users!Rows, Users!RowsUpTo, ProjectRows, RowsUpTo
<1>2. Outcome = [q \in Requests |-> "undecided"]
  <2>1. \A q \in Requests : Outcome[q] = "undecided"
    BY OutcomeOf DEF Init, Inserted, GivenUp
  <2>2. Outcome = [q \in Requests |-> Outcome[q]]
    BY DEF Outcome
  <2>3. QED
    BY <2>1, <2>2
<1>3. QED
  BY <1>1, <1>2 DEF Init, Book!Init

LEMMA BookStep == Proven!AccountsInv /\ TaskInv /\ [Next]_vars => [Book!Next]_(Book!vars)
<1> SUFFICES ASSUME Proven!AccountsInv, TaskInv, [Next]_vars
             PROVE  Book!Next
  OBVIOUS
<1>1. CASE UNCHANGED taskVars
  BY <1>1, StepOfAccounts, AccountsIsBookStep
<1>2. CASE TaskStep
  BY <1>2, RequestIsBookStep, ProjectIsBookStep DEF TaskStep
<1>3. CASE Restart
  BY <1>3, RestartIsBookStep
<1>4. QED
  BY <1>1, <1>2, <1>3 DEF Next, vars

\* CreateTaskHandler decides a request at one instant: the insert finds the creator and
\* the project there, however far the hosts were that have been asked for the user and for the
\* project before; any other end leaves no row, and nothing else writes tasks.
THEOREM TasksRefineTaskBook == Spec => RefinesTaskBook
BY InvHolds, BookInit, BookStep, PTL DEF Spec, RefinesTaskBook, Book!Spec
=============================================================================
