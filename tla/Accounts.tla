------------------------------- MODULE Accounts -------------------------------
(***************************************************************************)
(* Registration, login and the check of tokens: RegisterHandler,            *)
(* LoginHandler behind its rate limiter, GenerateToken and                  *)
(* JwtChecker::CheckAuth, over the table users.                             *)
(*                                                                          *)
(* A registration looks its login up and inserts on the master, where login *)
(* and email are UNIQUE; a login is looked up alone.  A lookup asks for a   *)
(* standby (ClusterHostType::kSlave) and is answered by any of them, or by  *)
(* the master when none can be reached.  Nothing deletes a user.  A user is *)
(* named by the registration that made it.  The service keeps no sessions:  *)
(* a token is in the hands of its client and outlives a restart.            *)
(***************************************************************************)
EXTENDS Integers, Sequences

CONSTANTS
    Registrations,                  \* requests for POST /api/register
    LoginOf, EmailOf, PasswordOf,   \* what each of them asks for
    Clients,                        \* those who log in and show their tokens
    Lifetime,                       \* of a token (24 h), in ticks
    MaxTime,                        \* bound: the clock stops there
    HasStandby,                     \* whether the cluster has standbys
    NoUser

ASSUME AccountsConstants ==
    /\ {DOMAIN LoginOf, DOMAIN EmailOf, DOMAIN PasswordOf} = {Registrations}
    /\ Lifetime \in Nat
    /\ MaxTime \in Nat
    /\ HasStandby \in BOOLEAN
    /\ NoUser \notin Registrations

VARIABLES
    now,       \* std::chrono::system_clock::now()
    commits,   \* rows of users in the order in which the master committed them
    applied,   \* how many of them every standby has applied
    rpc,       \* where each registration is, or how it ended
    lpc,       \* whether each client is waiting for the answer of a login
    made,      \* the token in the answer it waits for
    token,     \* the token each client holds
    events,    \* the messages of user-events that reached the broker
    typed      \* history: when each client last gave the login and password of each
               \* registration and they were found right

vars == <<now, commits, applied, rpc, lpc, made, token, events, typed>>

table == <<commits, applied>>
clients == <<lpc, made, token, typed>>

Time == 0 .. MaxTime
NoToken == [user |-> NoUser, exp |-> 0]
Never == -1

RowsUpTo(n) == {commits[i] : i \in 1 .. n}
Rows == RowsUpTo(Len(commits))

\* How far each host may be from which a query is answered, the next one by another.
Positions == IF HasStandby THEN applied .. Len(commits) ELSE {Len(commits)}

Init ==
    /\ now = 0
    /\ commits = <<>>
    /\ applied = 0
    /\ rpc = [r \in Registrations |-> "new"]
    /\ lpc = [c \in Clients |-> "idle"]
    /\ made = [c \in Clients |-> NoToken]
    /\ token = [c \in Clients |-> NoToken]
    /\ events = {}
    /\ typed = [c \in Clients |-> [r \in Registrations |-> Never]]

-----------------------------------------------------------------------------
(* RegisterHandler *)

\* GetUserByLogin on a host that has these rows, as the set of those it finds.
GetUserByLogin(rows, login) == {u \in rows : LoginOf[u] = login}

\* The lookup ends the request with 409, or lets it go on.
Lookup(r) ==
    /\ rpc[r] = "new"
    /\ \E n \in Positions :
         rpc' = [rpc EXCEPT ![r] =
                  IF GetUserByLogin(RowsUpTo(n), LoginOf[r]) # {} THEN "exists" ELSE "checked"]
    /\ UNCHANGED <<now, events>> /\ UNCHANGED table /\ UNCHANGED clients

LoginTaken(r) == \E u \in Rows : LoginOf[u] = LoginOf[r]
EmailTaken(r) == \E u \in Rows : EmailOf[u] = EmailOf[r]

\* Mutant: the table trusts the lookup to keep logins apart.
ViolatesEmail(r) == EmailTaken(r)

\* The UNIQUE constraints of the table.
Violates(r) == LoginTaken(r) \/ EmailTaken(r)

Commit(r) == commits' = Append(commits, r)

\* Mutant: a unique violation is taken for success.
CreateUserAnyway(r) ==
    /\ rpc[r] = "checked"
    /\ IF Violates(r) THEN UNCHANGED commits ELSE Commit(r)
    /\ rpc' = [rpc EXCEPT ![r] = "inserted"]
    /\ UNCHANGED <<now, applied, events>> /\ UNCHANGED clients

CreateUser(r) ==
    /\ rpc[r] = "checked"
    /\ ~Violates(r)
    /\ Commit(r)
    /\ rpc' = [rpc EXCEPT ![r] = "inserted"]
    /\ UNCHANGED <<now, applied, events>> /\ UNCHANGED clients

\* A unique violation: the exception leaves the handler, which ends in a 500.
CreateUserViolates(r) ==
    /\ rpc[r] = "checked"
    /\ Violates(r)
    /\ rpc' = [rpc EXCEPT ![r] = IF LoginTaken(r) THEN "loginTaken" ELSE "emailTaken"]
    /\ UNCHANGED <<now, events>> /\ UNCHANGED table /\ UNCHANGED clients

\* Either query throws, or the row that RETURNING gives is not converted into a
\* User.  Once the insert was sent, the row may be committed all the same.
RegisterFails(r) ==
    /\ \/ rpc[r] \in {"new", "checked"} /\ UNCHANGED commits
       \/ rpc[r] = "checked" /\ ~Violates(r) /\ Commit(r)
    /\ rpc' = [rpc EXCEPT ![r] = "failed"]
    /\ UNCHANGED <<now, applied, events>> /\ UNCHANGED clients

\* PublishUserRegistered, which swallows what Send throws, and 201.
PublishUserRegistered(r) ==
    /\ rpc[r] = "inserted"
    /\ \/ events' = events \cup {<<"UserRegistered", r>>}
       \/ UNCHANGED events
    /\ rpc' = [rpc EXCEPT ![r] = "created"]
    /\ UNCHANGED now /\ UNCHANGED table /\ UNCHANGED clients

-----------------------------------------------------------------------------
(* LoginHandler, once the limiter has admitted the request *)

\* Mutant: the hash is not compared.
FoundByLogin(rows, r) == GetUserByLogin(rows, LoginOf[r])

\* The user whose row has the login and the password of registration r, as a set;
\* when it is empty the answer is 401 and nothing changes.
Found(rows, r) == {u \in GetUserByLogin(rows, LoginOf[r]) : PasswordOf[u] = PasswordOf[r]}

\* Mutant: hours are taken for minutes.
GenerateLongToken(u, t) == [user |-> u, exp |-> t + 60 * Lifetime]

\* GenerateToken, at time t.
GenerateToken(u, t) == [user |-> u, exp |-> t + Lifetime]

\* The client gives the login and password of r, and gets a token of the user they
\* belong to; nothing waits between the answer of the query and the token.
Login(c, r) ==
    /\ lpc[c] = "idle"
    /\ \E n \in Positions : \E u \in Found(RowsUpTo(n), r) :
         made' = [made EXCEPT ![c] = GenerateToken(u, now)]
    /\ typed' = [typed EXCEPT ![c][r] = now]
    /\ lpc' = [lpc EXCEPT ![c] = "verified"]
    /\ UNCHANGED <<now, rpc, token, events>> /\ UNCHANGED table

\* PublishUserLoggedIn, which may take its time, and 200 with the token.
PublishUserLoggedIn(c) ==
    /\ lpc[c] = "verified"
    /\ \/ events' = events \cup {<<"UserLoggedIn", made[c].user>>}
       \/ UNCHANGED events
    /\ token' = [token EXCEPT ![c] = made[c]]
    /\ made' = [made EXCEPT ![c] = NoToken]
    /\ lpc' = [lpc EXCEPT ![c] = "idle"]
    /\ UNCHANGED <<now, rpc, typed>> /\ UNCHANGED table

-----------------------------------------------------------------------------
(* JwtChecker *)

\* verifier.verify: the service's own tokens fail it only by their age.
Valid(t) == now <= t.exp

\* What may come as the header: none, one of another scheme, something that is no
\* token, or a token.
Headers == {"missing", "otherScheme", "garbled", "bearer"}

\* The outcome for a header, where t is the token it holds if it holds one.  It is all
\* that a handler with "auth: jwt-auth" depends on, and a request changes nothing here.
CheckAuth(header, t) ==
    CASE header = "missing" -> [status |-> "kTokenNotFound", user |-> NoUser]
      [] header = "otherScheme" -> [status |-> "kInvalidToken", user |-> NoUser]
      [] header = "garbled" -> [status |-> "kForbidden", user |-> NoUser]
      [] header = "bearer" ->
            IF Valid(t) THEN [status |-> "kOk", user |-> t.user]
            ELSE [status |-> "kInvalidToken", user |-> NoUser]

-----------------------------------------------------------------------------
(* The environment *)

Tick ==
    /\ now < MaxTime
    /\ now' = now + 1
    /\ UNCHANGED <<rpc, events>> /\ UNCHANGED table /\ UNCHANGED clients

\* The standbys that are furthest behind apply the next row.
Replicate ==
    /\ applied < Len(commits)
    /\ applied' = applied + 1
    /\ UNCHANGED <<now, commits, rpc, events>> /\ UNCHANGED clients

\* The process stops and starts again: every request is gone, tokens are not.
Restart ==
    /\ rpc' = [r \in Registrations |->
                IF rpc[r] \in {"checked", "inserted"} THEN "failed" ELSE rpc[r]]
    /\ lpc' = [c \in Clients |-> "idle"]
    /\ made' = [c \in Clients |-> NoToken]
    /\ UNCHANGED <<now, token, events, typed>> /\ UNCHANGED table

RegisterStep(r) ==
    \/ Lookup(r)
    \/ CreateUser(r)
    \/ CreateUserViolates(r)
    \/ RegisterFails(r)
    \/ PublishUserRegistered(r)

ClientStep(c) ==
    \/ \E r \in Registrations : Login(c, r)
    \/ PublishUserLoggedIn(c)

\* Everything that happens between two restarts.
Step ==
    \/ \E r \in Registrations : RegisterStep(r)
    \/ \E c \in Clients : ClientStep(c)
    \/ Tick
    \/ Replicate

Next == Step \/ Restart

Spec == Init /\ [][Next]_vars

-----------------------------------------------------------------------------
(* Properties *)

Refused == {"exists", "loginTaken", "emailTaken"}
Tokens == [user : Registrations \cup {NoUser}, exp : 0 .. MaxTime + Lifetime]

\* The types of the variables.
TypeOK ==
    /\ now \in Time
    /\ commits \in Seq(Registrations)
    /\ applied \in 0 .. Len(commits)
    /\ rpc \in [Registrations -> {"new", "checked", "inserted", "created", "failed"}
                                  \cup Refused]
    /\ lpc \in [Clients -> {"idle", "verified"}]
    /\ made \in [Clients -> Tokens]
    /\ token \in [Clients -> Tokens]
    /\ events \subseteq {"UserRegistered", "UserLoggedIn"} \X Registrations
    /\ typed \in [Clients -> [Registrations -> Time \cup {Never}]]

\* However registrations race and standbys lag, no two users have the same login
\* or the same email, so that a login names one user on every host.
OneUserPerLogin ==
    \A i, j \in 1 .. Len(commits) :
        LoginOf[commits[i]] = LoginOf[commits[j]] \/ EmailOf[commits[i]] = EmailOf[commits[j]]
        => i = j

\* What a client is told of its registration is so: its user exists after 201, and does
\* not after a refusal.  Nobody hears of a user, or holds a token of one, who does not
\* exist, though tokens are made from what a lagging standby has.
AnswersMatchTable ==
    /\ \A r \in Registrations :
        /\ rpc[r] \in {"inserted", "created"} => r \in Rows
        /\ rpc[r] \in Refused => r \notin Rows
    /\ \A e \in events : e[2] \in Rows
    /\ \A c \in Clients :
        {made[c].user, token[c].user} \subseteq Rows \cup {NoUser}

\* CheckAuth lets a client speak for a user only while no more than the lifetime of a
\* token has passed since the client gave the login and the password of that very user,
\* whatever restarts, later logins and registrations came in between.
TokenHonoured ==
    \A c \in Clients, header \in Headers :
        LET said == CheckAuth(header, token[c]) IN
        token[c] # NoToken /\ said.status = "kOk" =>
            \E r \in Registrations :
                /\ LoginOf[r] = LoginOf[said.user]
                /\ PasswordOf[r] = PasswordOf[said.user]
                /\ typed[c][r] # Never /\ now - typed[c][r] <= Lifetime

\* Each registration as Registry sees it: decided by the insert, by a refusal, or by
\* the error or the stop that ends it without a row.
Outcome ==
    [r \in Registrations |->
        CASE r \in Rows                                     -> "registered"
          [] r \notin Rows /\ rpc[r] \in Refused           -> "refused"
          [] r \notin Rows /\ rpc[r] = "failed"          -> "failed"
          [] OTHER                                          -> "undecided"]

Atomic == INSTANCE Registry WITH users <- Rows, outcome <- Outcome

\* Although a registration looks on a lagging standby first and inserts on the master
\* afterwards, racing registrations come out as if they were made one after the other:
\* a refusal is right at the instant it is decided, and a user appears at most once.
RefinesRegistry == Atomic!Spec

\* openapi.yaml answers a registration of an existing user with 409, and has no 500: no
\* registration gets as far as the UNIQUE constraint on login.
ExistingLoginIsConflict == \A r \in Registrations : rpc[r] # "loginTaken"
=============================================================================
