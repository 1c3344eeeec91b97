---------------------------- MODULE AccountsProofs ----------------------------
(***************************************************************************)
(* Proofs about Accounts: the types, the uniqueness of logins, what an      *)
(* answer promises, whom a token speaks for, and that racing registrations  *)
(* implement Registry.                                                      *)
(***************************************************************************)
EXTENDS Accounts, SequenceTheorems, TLAPS

-----------------------------------------------------------------------------
(* The table *)

LEMMA RowsAreRegistrations ==
    ASSUME TypeOK
    PROVE  /\ \A n \in Positions : RowsUpTo(n) \subseteq Rows
           /\ Rows \subseteq Registrations
<1>1. commits \in Seq(Registrations) /\ Len(commits) \in Nat /\ applied \in 0 .. Len(commits)
  BY DEF TypeOK
<1>2. Rows \subseteq Registrations
  BY <1>1 DEF Rows, RowsUpTo
<1>3. ASSUME NEW n \in Positions PROVE RowsUpTo(n) \subseteq Rows
  <2>1. n \in 0 .. Len(commits)
    BY <1>1 DEF Positions
  <2>2. QED
    BY <1>1, <2>1 DEF Rows, RowsUpTo
<1>4. QED
  BY <1>2, <1>3

\* A committed insert adds its row and nothing else.
LEMMA CommitAddsRow ==
    ASSUME TypeOK, NEW r \in Registrations, Commit(r)
    PROVE  /\ commits' \in Seq(Registrations) /\ Len(commits') = Len(commits) + 1
           /\ \A i \in 1 .. Len(commits) : commits'[i] = commits[i]
           /\ commits'[Len(commits) + 1] = r
           /\ Rows' = Rows \cup {r}
<1>1. /\ commits' \in Seq(Registrations) /\ Len(commits') = Len(commits) + 1
      /\ \A i \in 1 .. Len(commits) : commits'[i] = commits[i]
      /\ commits'[Len(commits) + 1] = r
      /\ Len(commits) \in Nat
  BY DEF TypeOK, Commit
<1>2. Rows' = {commits'[i] : i \in 1 .. Len(commits) + 1}
  BY <1>1 DEF Rows, RowsUpTo
<1>3. 1 .. Len(commits) + 1 = (1 .. Len(commits)) \cup {Len(commits) + 1}
  BY <1>1
<1>4. QED
  BY <1>1, <1>2, <1>3 DEF Rows, RowsUpTo

LEMMA SameRows == UNCHANGED commits => Rows' = Rows
BY DEF Rows, RowsUpTo

-----------------------------------------------------------------------------
(* The inductive invariant *)

\* A request that may still insert has not inserted, one that was refused never will,
\* and one that got past the insert has its row.
RequestsMatchTable ==
    \A r \in Registrations :
        /\ rpc[r] \in {"new", "checked"} \cup Refused => r \notin Rows
        /\ rpc[r] \in {"inserted", "created"} => r \in Rows

\* A token is of a committed user, and was made when its client gave that user's login
\* and password, or before the client gave them again.
Backed(c, t) ==
    /\ t.user \in Rows
    /\ \E r \in Registrations :
        /\ LoginOf[r] = LoginOf[t.user] /\ PasswordOf[r] = PasswordOf[t.user]
        /\ typed[c][r] # Never /\ t.exp <= typed[c][r] + Lifetime

TokensAreBacked ==
    \A c \in Clients :
        /\ lpc[c] = "verified" => Backed(c, made[c])
        /\ lpc[c] = "idle" => made[c] = NoToken
        /\ token[c] = NoToken \/ Backed(c, token[c])
        /\ \A r \in Registrations : typed[c][r] <= now

EventsAreOfUsers == \A e \in events : e[2] \in Rows

AccountsInv ==
    TypeOK /\ OneUserPerLogin /\ RequestsMatchTable /\ TokensAreBacked /\ EventsAreOfUsers

-----------------------------------------------------------------------------
(* Type correctness *)

LEMMA TokenType ==
    ASSUME TypeOK, NEW u \in Registrations
    PROVE  GenerateToken(u, now) \in Tokens
<1>1. now \in 0 .. MaxTime /\ MaxTime \in Nat /\ Lifetime \in Nat
  BY AccountsConstants DEF TypeOK, Time
<1>2. now + Lifetime \in 0 .. MaxTime + Lifetime
  BY <1>1
<1>3. QED
  BY <1>2 DEF GenerateToken, Tokens

LEMMA NoTokenType == NoToken \in Tokens
<1>1. 0 \in 0 .. MaxTime + Lifetime
  BY AccountsConstants
<1>2. QED
  BY <1>1 DEF NoToken, Tokens

LEMMA TypeInit == Init => TypeOK
BY NoTokenType, AccountsConstants DEF Init, TypeOK, Time, Refused

\* The users whom some host finds for the login and the password of r.
Named(r) == {u \in Rows : LoginOf[u] = LoginOf[r] /\ PasswordOf[u] = PasswordOf[r]}

LEMMA LoginFindsNamed ==
    ASSUME TypeOK, NEW c \in Clients, NEW r \in Registrations, Login(c, r)
    PROVE  \E u \in Named(r) : u \in Registrations
              /\ made' = [made EXCEPT ![c] = GenerateToken(u, now)]
<1>1. PICK n \in Positions :
        \E u \in Found(RowsUpTo(n), r) : made' = [made EXCEPT ![c] = GenerateToken(u, now)]
  BY DEF Login
<1>2. PICK u \in Found(RowsUpTo(n), r) : made' = [made EXCEPT ![c] = GenerateToken(u, now)]
  BY <1>1
<1>3. u \in Named(r) /\ u \in Registrations
  BY RowsAreRegistrations DEF Found, GetUserByLogin, Named
<1>4. QED
  BY <1>2, <1>3

LEMMA TypeStep == TypeOK /\ TokensAreBacked /\ [Next]_vars => TypeOK'
<1> SUFFICES ASSUME TypeOK, TokensAreBacked, [Next]_vars PROVE TypeOK'
  OBVIOUS
<1>t. /\ commits \in Seq(Registrations) /\ Len(commits) \in Nat
      /\ applied \in 0 .. Len(commits)
  BY DEF TypeOK
<1>0. ASSUME NEW r \in Registrations, Commit(r), UNCHANGED applied
      PROVE  commits' \in Seq(Registrations) /\ applied' \in 0 .. Len(commits')
  <2>1. commits' \in Seq(Registrations) /\ Len(commits') = Len(commits) + 1
    BY <1>0, CommitAddsRow
  <2>2. QED
    BY <1>0, <1>t, <2>1
<1>1. ASSUME NEW r \in Registrations, Lookup(r) PROVE TypeOK'
  BY <1>1 DEF Lookup, TypeOK, table, clients, Refused
<1>2. ASSUME NEW r \in Registrations, CreateUser(r) PROVE TypeOK'
  BY <1>0, <1>2 DEF CreateUser, TypeOK, clients, Refused
<1>3. ASSUME NEW r \in Registrations, CreateUserViolates(r) PROVE TypeOK'
  BY <1>3 DEF CreateUserViolates, TypeOK, table, clients, Refused
<1>4. ASSUME NEW r \in Registrations, RegisterFails(r) PROVE TypeOK'
  <2>1. commits' \in Seq(Registrations) /\ applied' \in 0 .. Len(commits')
    BY <1>0, <1>4, <1>t DEF RegisterFails
  <2>2. QED
    BY <1>4, <2>1 DEF RegisterFails, TypeOK, clients, Refused
<1>5. ASSUME NEW r \in Registrations, PublishUserRegistered(r) PROVE TypeOK'
  BY <1>5 DEF PublishUserRegistered, TypeOK, table, clients, Refused
<1>6. ASSUME NEW c \in Clients, NEW r \in Registrations, Login(c, r) PROVE TypeOK'
  <2>1. PICK u \in Named(r) : u \in Registrations
           /\ made' = [made EXCEPT ![c] = GenerateToken(u, now)]
    BY <1>6, LoginFindsNamed
  <2>2. made' \in [Clients -> Tokens]
    BY <2>1, TokenType DEF TypeOK
  <2>3. typed' \in [Clients -> [Registrations -> Time \cup {Never}]]
    BY <1>6 DEF Login, TypeOK
  <2>4. QED
    BY <1>6, <2>2, <2>3 DEF Login, TypeOK, table
<1>7. ASSUME NEW c \in Clients, PublishUserLoggedIn(c) PROVE TypeOK'
  <2>1. made[c].user \in Registrations
    BY <1>7, RowsAreRegistrations DEF PublishUserLoggedIn, TokensAreBacked, Backed
  <2>2. events' \subseteq {"UserRegistered", "UserLoggedIn"} \X Registrations
    BY <1>7, <2>1 DEF PublishUserLoggedIn, TypeOK
  <2>3. QED
    BY <1>7, <2>2, NoTokenType DEF PublishUserLoggedIn, TypeOK, table
<1>8. CASE Tick
  BY <1>8, AccountsConstants DEF Tick, TypeOK, Time, table, clients
<1>9. CASE Replicate
  BY <1>9, <1>t DEF Replicate, TypeOK, clients
<1>10. CASE Restart
  BY <1>10, NoTokenType DEF Restart, TypeOK, table
<1>11. CASE UNCHANGED vars
  BY <1>11 DEF vars, TypeOK
<1>12. QED
  BY <1>1, <1>2, <1>3, <1>4, <1>5, <1>6, <1>7, <1>8, <1>9, <1>10, <1>11
     DEF Next, Step, RegisterStep, ClientStep

-----------------------------------------------------------------------------
(* What a step does to the table *)

\* The insert of r, which an answer may follow or an error.
Inserts(r) ==
    /\ rpc[r] = "checked"
    /\ ~Violates(r)
    /\ Commit(r)
    /\ rpc' = [rpc EXCEPT ![r] = "inserted"] \/ rpc' = [rpc EXCEPT ![r] = "failed"]
    /\ UNCHANGED <<now, applied, events>> /\ UNCHANGED clients

LEMMA TableStep ==
    [Next]_vars => UNCHANGED commits \/ \E r \in Registrations : Inserts(r)
<1> SUFFICES ASSUME [Next]_vars, commits' # commits
             PROVE  \E r \in Registrations : Inserts(r)
  OBVIOUS
<1>1. ASSUME NEW r \in Registrations, RegisterStep(r) PROVE Inserts(r)
  BY <1>1 DEF RegisterStep, Lookup, CreateUser, CreateUserViolates, RegisterFails,
              PublishUserRegistered, table, Inserts
<1>2. ASSUME NEW c \in Clients, ClientStep(c) PROVE FALSE
  BY <1>2 DEF ClientStep, Login, PublishUserLoggedIn, table
<1>3. ~Tick /\ ~Replicate /\ ~Restart /\ ~UNCHANGED vars
  BY DEF Tick, Replicate, Restart, vars, table
<1>4. QED
  BY <1>1, <1>2, <1>3 DEF Next, Step

\* Nothing deletes a user.
LEMMA RowsGrow == TypeOK /\ [Next]_vars => Rows \subseteq Rows'
<1>1. ASSUME TypeOK, NEW r \in Registrations, Inserts(r) PROVE Rows \subseteq Rows'
  BY <1>1, CommitAddsRow DEF Inserts
<1>2. QED
  BY <1>1, TableStep, SameRows

LEMMA UniqueStep == TypeOK /\ OneUserPerLogin /\ [Next]_vars => OneUserPerLogin'
<1> SUFFICES ASSUME TypeOK, OneUserPerLogin, [Next]_vars PROVE OneUserPerLogin'
  OBVIOUS
<1>1. CASE UNCHANGED commits
  BY <1>1 DEF OneUserPerLogin
<1>2. ASSUME NEW r \in Registrations, Inserts(r) PROVE OneUserPerLogin'
  <2> DEFINE n == Len(commits)
  <2>1. /\ Len(commits') = n + 1 /\ n \in Nat
        /\ \A i \in 1 .. n : commits'[i] = commits[i]
        /\ commits'[n + 1] = r
    BY <1>2, CommitAddsRow DEF Inserts, TypeOK
  <2>2. \A i \in 1 .. n : LoginOf[commits[i]] # LoginOf[r] /\ EmailOf[commits[i]] # EmailOf[r]
    BY <1>2 DEF Inserts, Violates, LoginTaken, EmailTaken, Rows, RowsUpTo
  <2>3. \A i, j \in 1 .. n :
            LoginOf[commits[i]] = LoginOf[commits[j]] \/ EmailOf[commits[i]] = EmailOf[commits[j]]
            => i = j
    BY DEF OneUserPerLogin
  <2> HIDE DEF n
  <2>4. \A i \in 1 .. n + 1 : i \in 1 .. n \/ i = n + 1
    BY <2>1
  <2>5. \A i, j \in 1 .. n + 1 :
            LoginOf[commits'[i]] = LoginOf[commits'[j]] \/ EmailOf[commits'[i]] = EmailOf[commits'[j]]
            => i = j
    BY <2>1, <2>2, <2>3, <2>4
  <2>6. QED
    BY <2>1, <2>5 DEF OneUserPerLogin
<1>3. QED
  BY <1>1, <1>2, TableStep

LEMMA RequestsStep ==
    TypeOK /\ RequestsMatchTable /\ [Next]_vars => RequestsMatchTable'
<1> SUFFICES ASSUME TypeOK, RequestsMatchTable, [Next]_vars PROVE RequestsMatchTable'
  OBVIOUS
<1>1. ASSUME NEW r \in Registrations, Inserts(r) PROVE RequestsMatchTable'
  <2>1. Rows' = Rows \cup {r}
    BY <1>1, CommitAddsRow DEF Inserts
  <2>2. QED
    BY <1>1, <2>1 DEF Inserts, RequestsMatchTable, TypeOK, Refused
<1>2. ASSUME UNCHANGED commits PROVE RequestsMatchTable'
  <2>0. Rows' = Rows
    BY <1>2, SameRows
  <2>1. ASSUME NEW r \in Registrations, RegisterStep(r) PROVE RequestsMatchTable'
    <3>1. CASE Lookup(r)
      BY <2>0, <3>1 DEF Lookup, RequestsMatchTable, TypeOK, Refused
    <3>2. CASE CreateUser(r)
      <4>1. Len(commits') = Len(commits) + 1 /\ Len(commits) \in Nat
        BY <3>2, CommitAddsRow DEF CreateUser, TypeOK
      <4>2. QED
        BY <1>2, <4>1
    <3>3. CASE CreateUserViolates(r)
      BY <2>0, <3>3 DEF CreateUserViolates, RequestsMatchTable, TypeOK, Refused
    <3>4. CASE RegisterFails(r)
      BY <2>0, <3>4 DEF RegisterFails, RequestsMatchTable, TypeOK, Refused
    <3>5. CASE PublishUserRegistered(r)
      BY <2>0, <3>5 DEF PublishUserRegistered, RequestsMatchTable, TypeOK, Refused
    <3>6. QED
      BY <2>1, <3>1, <3>2, <3>3, <3>4, <3>5 DEF RegisterStep
  <2>2. CASE Restart
    BY <2>0, <2>2 DEF Restart, RequestsMatchTable, TypeOK, Refused
  <2>3. CASE UNCHANGED rpc
    BY <2>0, <2>3 DEF RequestsMatchTable
  <2>4. QED
    BY <2>1, <2>2, <2>3 DEF Next, Step, ClientStep, Login, PublishUserLoggedIn, Tick,
                            Replicate, vars
<1>3. QED
  BY <1>1, <1>2, TableStep

LEMMA EventsStep ==
    TypeOK /\ RequestsMatchTable /\ TokensAreBacked /\ EventsAreOfUsers /\ [Next]_vars
    => EventsAreOfUsers'
<1> SUFFICES ASSUME TypeOK, RequestsMatchTable, TokensAreBacked, EventsAreOfUsers, [Next]_vars
             PROVE  EventsAreOfUsers'
  OBVIOUS
<1>0. Rows \subseteq Rows'
  BY RowsGrow
<1>1. CASE UNCHANGED events
  BY <1>0, <1>1 DEF EventsAreOfUsers
<1>2. ASSUME NEW r \in Registrations, PublishUserRegistered(r) PROVE EventsAreOfUsers'
  <2>1. r \in Rows
    BY <1>2 DEF PublishUserRegistered, RequestsMatchTable
  <2>2. QED
    BY <1>0, <1>2, <2>1 DEF PublishUserRegistered, EventsAreOfUsers
<1>3. ASSUME NEW c \in Clients, PublishUserLoggedIn(c) PROVE EventsAreOfUsers'
  <2>1. made[c].user \in Rows
    BY <1>3 DEF PublishUserLoggedIn, TokensAreBacked, Backed
  <2>2. QED
    BY <1>0, <1>3, <2>1 DEF PublishUserLoggedIn, EventsAreOfUsers
<1>4. QED
  BY <1>1, <1>2, <1>3 DEF Next, Step, RegisterStep, ClientStep, Lookup, CreateUser,
     CreateUserViolates, RegisterFails, Login, Tick, Replicate, Restart, vars

-----------------------------------------------------------------------------
(* Whom a token speaks for *)

\* A token stays backed while users only come and its client only logs in again.
LEMMA StaysBacked ==
    ASSUME TypeOK, TypeOK', NEW c \in Clients, NEW t, Backed(c, t), t.exp \in Int,
           Rows \subseteq Rows',
           \A r \in Registrations : typed[c][r] # Never => typed[c][r] <= typed'[c][r]
    PROVE  Backed(c, t)'
<1>1. PICK r \in Registrations :
        /\ LoginOf[r] = LoginOf[t.user] /\ PasswordOf[r] = PasswordOf[t.user]
        /\ typed[c][r] # Never /\ t.exp <= typed[c][r] + Lifetime
  BY DEF Backed
<1>2. /\ typed[c][r] \in Int /\ typed[c][r] >= 0 /\ typed'[c][r] \in Int /\ Lifetime \in Int
      /\ typed[c][r] <= typed'[c][r]
  BY <1>1, AccountsConstants DEF TypeOK, Time, Never
<1>3. typed'[c][r] # Never /\ t.exp <= typed'[c][r] + Lifetime
  BY <1>1, <1>2 DEF Never
<1>4. t.user \in Rows'
  BY DEF Backed
<1>5. QED
  BY <1>1, <1>3, <1>4 DEF Backed

\* The times at which credentials were given only go forward, up to the clock.
LEMMA TypedStep ==
    ASSUME TypeOK, TokensAreBacked, [Next]_vars
    PROVE  \A c \in Clients, r \in Registrations :
                typed[c][r] <= typed'[c][r] /\ typed'[c][r] <= now'
<1> USE DEF Time, Never
<1>0. /\ now \in Int /\ now >= 0
      /\ \A c \in Clients, r \in Registrations :
            typed[c][r] \in Int /\ typed[c][r] <= now
  BY DEF TypeOK, TokensAreBacked
<1>1. ASSUME NEW d \in Clients, NEW q \in Registrations, Login(d, q)
      PROVE  \A c \in Clients, r \in Registrations :
                typed[c][r] <= typed'[c][r] /\ typed'[c][r] <= now'
  <2>1. \A c \in Clients, r \in Registrations :
            typed'[c][r] = IF c = d /\ r = q THEN now ELSE typed[c][r]
    BY <1>1 DEF Login, TypeOK
  <2>2. now' = now
    BY <1>1 DEF Login
  <2>3. QED
    BY <1>0, <2>1, <2>2
<1>2. CASE Tick
  BY <1>0, <1>2 DEF Tick, clients
<1>3. CASE UNCHANGED <<now, typed>>
  BY <1>0, <1>3
<1>4. QED
  BY <1>1, <1>2, <1>3 DEF Next, Step, RegisterStep, ClientStep, Lookup, CreateUser,
     CreateUserViolates, RegisterFails, PublishUserRegistered, PublishUserLoggedIn,
     Replicate, Restart, vars, clients

LEMMA TokensStep ==
    TypeOK /\ TypeOK' /\ TokensAreBacked /\ [Next]_vars => TokensAreBacked'
<1> SUFFICES ASSUME TypeOK, TypeOK', TokensAreBacked, [Next]_vars PROVE TokensAreBacked'
  OBVIOUS
<1>1. \A c \in Clients, r \in Registrations :
        typed[c][r] <= typed'[c][r] /\ typed'[c][r] <= now'
  BY TypedStep
<1>2. ASSUME NEW c \in Clients, NEW t \in Tokens, Backed(c, t) PROVE Backed(c, t)'
  <2>1. t.exp \in Int
    BY AccountsConstants DEF Tokens
  <2>2. QED
    BY <1>1, <1>2, <2>1, RowsGrow, StaysBacked
<1>3. /\ made \in [Clients -> Tokens] /\ token \in [Clients -> Tokens]
      /\ lpc \in [Clients -> {"idle", "verified"}]
  BY DEF TypeOK
<1>4. ASSUME NEW d \in Clients, NEW q \in Registrations, Login(d, q)
      PROVE  TokensAreBacked'
  <2>1. PICK u \in Named(q) : made' = [made EXCEPT ![d] = GenerateToken(u, now)]
    BY <1>4, LoginFindsNamed
  <2>2. Backed(d, GenerateToken(u, now))'
    <3>1. typed'[d][q] = now /\ Rows' = Rows
      BY <1>4, SameRows DEF Login, TypeOK, table
    <3>2. now \in Int /\ now # Never /\ Lifetime \in Int
      BY AccountsConstants DEF TypeOK, Time, Never
    <3>3. LoginOf[q] = LoginOf[u] /\ PasswordOf[q] = PasswordOf[u] /\ u \in Rows
      BY DEF Named
    <3>4. now + Lifetime <= typed'[d][q] + Lifetime
      BY <3>1, <3>2
    <3>5. now' = now
      BY <1>4 DEF Login
    <3>6. QED
      BY <3>1, <3>2, <3>3, <3>4, <3>5 DEF Backed, GenerateToken
  <2>3. now' = now /\ lpc[d] = "idle" /\ token' = token
        /\ lpc' = [lpc EXCEPT ![d] = "verified"]
    BY <1>4 DEF Login
  <2>4. made'[d] = GenerateToken(u, now) /\ Backed(d, made[d])'
    BY <1>3, <2>1, <2>2, <2>3
  <2>5. QED
    BY <1>1, <1>2, <1>3, <2>1, <2>3, <2>4 DEF TokensAreBacked, Backed
<1>5. ASSUME NEW d \in Clients, PublishUserLoggedIn(d) PROVE TokensAreBacked'
  <2>1. /\ lpc[d] = "verified" /\ token' = [token EXCEPT ![d] = made[d]]
        /\ made' = [made EXCEPT ![d] = NoToken] /\ lpc' = [lpc EXCEPT ![d] = "idle"]
    BY <1>5 DEF PublishUserLoggedIn
  <2>2. PICK t \in Tokens : t = made[d] /\ Backed(d, t)
    BY <1>3, <2>1 DEF TokensAreBacked
  <2>3. token'[d] = t /\ Backed(d, t)'
    BY <1>2, <1>3, <2>1, <2>2
  <2>4. ASSUME NEW c \in Clients, c # d
        PROVE  /\ lpc'[c] = "verified" => Backed(c, made[c])'
               /\ lpc'[c] = "idle" => made'[c] = NoToken
               /\ token'[c] = NoToken \/ Backed(c, token[c])'
    <3>1. lpc'[c] = lpc[c] /\ made'[c] = made[c] /\ token'[c] = token[c]
      BY <1>3, <2>1, <2>4
    <3>2. lpc[c] = "verified" => Backed(c, made[c])'
      BY <1>2, <1>3, <3>1 DEF TokensAreBacked, Backed
    <3>3. token[c] = NoToken \/ Backed(c, token[c])'
      BY <1>2, <1>3, <3>1 DEF TokensAreBacked, Backed
    <3>4. QED
      BY <3>1, <3>2, <3>3 DEF TokensAreBacked
  <2>5. lpc'[d] = "idle" /\ made'[d] = NoToken /\ Backed(d, token[d])'
    BY <1>3, <2>1, <2>3 DEF Backed
  <2>6. QED
    BY <1>1, <2>4, <2>5 DEF TokensAreBacked
<1>6. CASE UNCHANGED <<lpc, made, token>>
  BY <1>1, <1>2, <1>3, <1>6 DEF TokensAreBacked, Backed
<1>7. CASE Restart
  BY <1>1, <1>2, <1>3, <1>7 DEF Restart, TokensAreBacked, Backed
<1>8. QED
  BY <1>4, <1>5, <1>6, <1>7 DEF Next, Step, RegisterStep, ClientStep, Lookup, CreateUser,
     CreateUserViolates, RegisterFails, PublishUserRegistered, Tick, Replicate, vars, clients

-----------------------------------------------------------------------------
(* The theorems *)

LEMMA InvInit == Init => AccountsInv
<1> SUFFICES ASSUME Init PROVE AccountsInv
  OBVIOUS
<1>1. commits = <<>> /\ Len(commits) = 0 /\ Rows = {}
  BY DEF Init, Rows, RowsUpTo
<1>2. OneUserPerLogin
  BY <1>1 DEF OneUserPerLogin
<1>3. RequestsMatchTable
  BY <1>1 DEF Init, RequestsMatchTable, Refused
<1>4. TokensAreBacked
  BY DEF Init, TokensAreBacked, Never
<1>5. EventsAreOfUsers
  BY DEF Init, EventsAreOfUsers
<1>6. QED
  BY <1>2, <1>3, <1>4, <1>5, TypeInit DEF AccountsInv

LEMMA InvStep == AccountsInv /\ [Next]_vars => AccountsInv'
BY TypeStep, UniqueStep, RequestsStep, TokensStep, EventsStep DEF AccountsInv

LEMMA InvHolds == Spec => []AccountsInv
BY InvInit, InvStep, PTL DEF Spec

\* The variables of the handlers, the table and the clients keep their types.
THEOREM TypeCorrect == Spec => []TypeOK
<1>1. AccountsInv => TypeOK
  BY DEF AccountsInv
<1>2. QED
  BY <1>1, InvHolds, PTL

\* The lookup of RegisterHandler may be stale and two requests may pass it together,
\* but the constraints of the table leave one user to a login and to an email.
THEOREM LoginNamesOneUser == Spec => []OneUserPerLogin
<1>1. AccountsInv => OneUserPerLogin
  BY DEF AccountsInv
<1>2. QED
  BY <1>1, InvHolds, PTL

\* The answers of RegisterHandler and LoginHandler, the events they publish and the
\* tokens they hand out speak of committed users only, and a refusal is never of a
\* registration that made its user.
THEOREM AnswersAreTrue == Spec => []AnswersMatchTable
<1>1. AccountsInv => AnswersMatchTable
  <2> SUFFICES ASSUME AccountsInv PROVE AnswersMatchTable
    OBVIOUS
  <2>1. \A r \in Registrations :
            /\ rpc[r] \in {"inserted", "created"} => r \in Rows
            /\ rpc[r] \in Refused => r \notin Rows
    BY DEF AccountsInv, RequestsMatchTable
  <2>2. \A e \in events : e[2] \in Rows
    BY DEF AccountsInv, EventsAreOfUsers
  <2>3. ASSUME NEW c \in Clients
        PROVE  made[c].user \in Rows \cup {NoUser} /\ token[c].user \in Rows \cup {NoUser}
    <3>1. NoToken.user = NoUser
      BY DEF NoToken
    <3>2. lpc[c] = "verified" \/ lpc[c] = "idle"
      BY DEF AccountsInv, TypeOK
    <3>3. QED
      BY <3>1, <3>2 DEF AccountsInv, TokensAreBacked, Backed
  <2>4. QED
    BY <2>1, <2>2, <2>3 DEF AnswersMatchTable
<1>2. QED
  BY <1>1, InvHolds, PTL

\* JwtChecker accepts a token only while its lifetime has not passed since its client
\* gave the login and the password of the user that the token names.
THEOREM TokenSpeaksForItsUser == Spec => []TokenHonoured
<1>1. AccountsInv => TokenHonoured
  <2> SUFFICES ASSUME AccountsInv, NEW c \in Clients, NEW header \in Headers,
                      token[c] # NoToken, CheckAuth(header, token[c]).status = "kOk"
               PROVE  \E r \in Registrations :
                        /\ LoginOf[r] = LoginOf[CheckAuth(header, token[c]).user]
                        /\ PasswordOf[r] = PasswordOf[CheckAuth(header, token[c]).user]
                        /\ typed[c][r] # Never /\ now - typed[c][r] <= Lifetime
    BY DEF TokenHonoured
  <2>1. /\ header = "bearer" /\ now <= token[c].exp
        /\ CheckAuth(header, token[c]).user = token[c].user
    BY DEF CheckAuth, Headers, Valid
  <2>2. PICK r \in Registrations :
            /\ LoginOf[r] = LoginOf[token[c].user]
            /\ PasswordOf[r] = PasswordOf[token[c].user]
            /\ typed[c][r] # Never /\ token[c].exp <= typed[c][r] + Lifetime
    BY DEF AccountsInv, TokensAreBacked, Backed
  <2>3. /\ now \in Int /\ token[c].exp \in Int /\ typed[c][r] \in Int /\ Lifetime \in Int
    BY AccountsConstants DEF AccountsInv, TypeOK, Time, Tokens, Never
  <2>4. now - typed[c][r] <= Lifetime
    BY <2>1, <2>2, <2>3
  <2>5. QED
    BY <2>1, <2>2, <2>4
<1>2. QED
  BY <1>1, InvHolds, PTL

-----------------------------------------------------------------------------
(* Registration implements Registry *)

LEMMA RefinesInit == Init => Atomic!Init
<1> SUFFICES ASSUME Init PROVE Atomic!Init
  OBVIOUS
<1>1. Rows = {}
  BY DEF Init, Rows, RowsUpTo
<1>2. Outcome = [r \in Registrations |-> "undecided"]
  BY <1>1 DEF Init, Outcome, Refused
<1>3. QED
  BY <1>1, <1>2 DEF Atomic!Init

\* A request whose login or email is in the table is one that Registry refuses.
LEMMA ViolatesIsTaken ==
    ASSUME NEW r \in Registrations
    PROVE  Violates(r) <=> Atomic!Taken(r)
BY DEF Violates, LoginTaken, EmailTaken, Atomic!Taken

LEMMA InsertIsRegister ==
    ASSUME AccountsInv, NEW r \in Registrations, Inserts(r)
    PROVE  Atomic!Register(r)
<1>1. Rows' = Rows \cup {r} /\ r \notin Rows
  BY CommitAddsRow DEF AccountsInv, Inserts, RequestsMatchTable
<1>2. Outcome[r] = "undecided"
  BY <1>1 DEF Inserts, Outcome, Refused
<1>3. \A q \in Registrations : q # r => rpc'[q] = rpc[q]
  BY DEF Inserts, AccountsInv, TypeOK
<1>4. Outcome' = [Outcome EXCEPT ![r] = "registered"]
  <2>1. Outcome'[r] = "registered"
    BY <1>1 DEF Outcome
  <2>2. \A q \in Registrations : q # r => Outcome'[q] = Outcome[q]
    BY <1>1, <1>3 DEF Outcome
  <2>3. QED
    BY <2>1, <2>2 DEF Outcome
<1>5. QED
  BY <1>1, <1>2, <1>4, ViolatesIsTaken DEF Inserts, Atomic!Register

\* The lookup and the constraints refuse only what is taken on the master.
LEMMA RefusalIsRefuse ==
    ASSUME AccountsInv, NEW r \in Registrations, UNCHANGED commits, Violates(r),
           rpc[r] \in {"new", "checked"},
           NEW answer \in Refused, rpc' = [rpc EXCEPT ![r] = answer]
    PROVE  Atomic!Refuse(r)
<1>1. Rows' = Rows /\ r \notin Rows
  BY SameRows DEF AccountsInv, RequestsMatchTable
<1>2. Outcome[r] = "undecided"
  BY <1>1 DEF Outcome, Refused
<1>3. \A q \in Registrations : rpc'[q] = IF q = r THEN answer ELSE rpc[q]
  BY DEF AccountsInv, TypeOK
<1>4. Outcome' = [Outcome EXCEPT ![r] = "refused"]
  <2>1. Outcome'[r] = "refused"
    BY <1>1, <1>3 DEF Outcome, Refused
  <2>2. ASSUME NEW q \in Registrations, q # r PROVE Outcome'[q] = Outcome[q]
    <3>1. rpc'[q] = rpc[q] /\ Rows' = Rows
      BY <1>1, <1>3, <2>2
    <3>2. QED
      BY <3>1 DEF Outcome
  <2>3. /\ Outcome' = [q \in Registrations |-> Outcome'[q]]
        /\ DOMAIN Outcome = Registrations
    BY DEF Outcome
  <2> HIDE DEF Outcome
  <2>4. QED
    BY <2>1, <2>2, <2>3
<1>5. QED
  BY <1>1, <1>2, <1>4, ViolatesIsTaken DEF Atomic!Refuse

\* Requests that an error or a stop ends without a row come to nothing.
LEMMA LossIsGiveUp ==
    ASSUME AccountsInv, UNCHANGED commits, NEW some \in SUBSET Registrations,
           \A r \in some : rpc[r] \in {"new", "checked"} /\ rpc'[r] = "failed",
           \A r \in Registrations \ some : rpc'[r] = rpc[r] \/ r \in Rows
    PROVE  Atomic!GiveUp(some)
<1>1. Rows' = Rows /\ \A r \in some : r \notin Rows
  BY SameRows DEF AccountsInv, RequestsMatchTable
<1>2. \A r \in some : Outcome[r] = "undecided"
  BY <1>1 DEF Outcome, Refused
<1>3. Outcome' = [r \in Registrations |-> IF r \in some THEN "failed" ELSE Outcome[r]]
  BY <1>1 DEF Outcome, Refused
<1>4. QED
  BY <1>1, <1>2, <1>3 DEF Atomic!GiveUp

\* What changes neither the table nor the fate of a request is a stutter.
LEMMA NoOutcomeStutters ==
    ASSUME UNCHANGED commits,
           \A r \in Registrations :
                \/ rpc'[r] = rpc[r]
                \/ r \in Rows
                \/ rpc[r] = "new" /\ rpc'[r] = "checked"
    PROVE  UNCHANGED Atomic!vars
<1>1. Rows' = Rows
  BY SameRows
<1>2. Outcome' = Outcome
  BY <1>1 DEF Outcome, Refused
<1>3. QED
  BY <1>1, <1>2 DEF Atomic!vars

LEMMA RefinesStep == AccountsInv /\ [Next]_vars => [Atomic!Next]_(Atomic!vars)
<1> SUFFICES ASSUME AccountsInv, [Next]_vars PROVE [Atomic!Next]_(Atomic!vars)
  OBVIOUS
<1> USE DEF Refused
<1>t. rpc \in [Registrations -> {"new", "checked", "inserted", "created", "failed"}
                                 \cup Refused]
  BY DEF AccountsInv, TypeOK
<1>1. ASSUME NEW r \in Registrations, Inserts(r) PROVE Atomic!Next
  BY <1>1, InsertIsRegister DEF Atomic!Next
<1>2. ASSUME UNCHANGED commits, NEW r \in Registrations, RegisterStep(r)
      PROVE  [Atomic!Next]_(Atomic!vars)
  <2>1. CASE Lookup(r)
    <3>0. PICK n \in Positions :
            rpc' = [rpc EXCEPT ![r] = IF GetUserByLogin(RowsUpTo(n), LoginOf[r]) # {}
                                      THEN "exists" ELSE "checked"]
      BY <2>1 DEF Lookup
    <3>1. CASE GetUserByLogin(RowsUpTo(n), LoginOf[r]) # {}
      <4>1. Violates(r)
        BY <3>1, RowsAreRegistrations
           DEF AccountsInv, GetUserByLogin, Violates, LoginTaken
      <4>2. rpc[r] = "new" /\ rpc' = [rpc EXCEPT ![r] = "exists"]
        BY <2>1, <3>0, <3>1 DEF Lookup
      <4>3. QED
        BY <1>2, <4>1, <4>2, RefusalIsRefuse DEF Atomic!Next
    <3>2. CASE GetUserByLogin(RowsUpTo(n), LoginOf[r]) = {}
      <4>1. rpc[r] = "new" /\ rpc' = [rpc EXCEPT ![r] = "checked"]
        BY <2>1, <3>0, <3>2 DEF Lookup
      <4>2. QED
        BY <1>t, <1>2, <4>1, NoOutcomeStutters
    <3>3. QED
      BY <3>1, <3>2
  <2>2. CASE CreateUserViolates(r)
    <3>1. Violates(r) /\ rpc[r] = "checked"
      BY <2>2 DEF CreateUserViolates
    <3>2. PICK answer \in Refused : rpc' = [rpc EXCEPT ![r] = answer]
      BY <2>2 DEF CreateUserViolates
    <3>3. QED
      BY <1>2, <3>1, <3>2, RefusalIsRefuse DEF Atomic!Next
  <2>3. CASE RegisterFails(r)
    <3>1. rpc[r] \in {"new", "checked"} /\ rpc' = [rpc EXCEPT ![r] = "failed"]
      BY <2>3 DEF RegisterFails
    <3>2. Atomic!GiveUp({r})
      BY <1>t, <1>2, <3>1, LossIsGiveUp
    <3>3. QED
      BY <3>2 DEF Atomic!Next
  <2>4. CASE PublishUserRegistered(r)
    <3>1. r \in Rows
      BY <2>4 DEF PublishUserRegistered, AccountsInv, RequestsMatchTable
    <3>2. QED
      BY <1>t, <1>2, <2>4, <3>1, NoOutcomeStutters DEF PublishUserRegistered
  <2>5. CASE CreateUser(r)
    BY <1>1, <2>5 DEF CreateUser, Inserts
  <2>6. QED
    BY <1>2, <2>1, <2>2, <2>3, <2>4, <2>5 DEF RegisterStep
<1>3. CASE Restart
  <2> DEFINE some == {r \in Registrations : rpc[r] = "checked"}
  <2>1. UNCHANGED commits
    BY <1>3 DEF Restart, table
  <2>2. \A r \in some : rpc[r] = "checked" /\ rpc'[r] = "failed"
    BY <1>3 DEF Restart
  <2>3. \A r \in Registrations \ some : rpc'[r] = rpc[r] \/ r \in Rows
    BY <1>3 DEF Restart, AccountsInv, RequestsMatchTable
  <2>4. some \in SUBSET Registrations
    OBVIOUS
  <2> HIDE DEF some
  <2>5. Atomic!GiveUp(some)
    BY <2>1, <2>2, <2>3, <2>4, LossIsGiveUp
  <2>6. QED
    BY <2>4, <2>5 DEF Atomic!Next
<1>4. CASE UNCHANGED <<commits, rpc>>
  BY <1>4, NoOutcomeStutters
<1>5. QED
  BY <1>1, <1>2, <1>3, <1>4, TableStep DEF Next, Step, ClientStep, Login,
     PublishUserLoggedIn, Tick, Replicate, vars, table

\* Look first and insert later, on two hosts, comes to the same as deciding every
\* registration at one instant.
THEOREM RegistrationRefinesRegistry == Spec => RefinesRegistry
BY RefinesInit, RefinesStep, InvHolds, PTL DEF Spec, RefinesRegistry, Atomic!Spec

=============================================================================
