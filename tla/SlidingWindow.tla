---------------------------- MODULE SlidingWindow ----------------------------
(***************************************************************************)
(* SlidingWindowLimiter and the way LoginHandler uses it.                   *)
(*                                                                          *)
(* Every request is a coroutine, several of which run in parallel.          *)
(* TryAcquire is two steps under the limiter's mutex, because it reads the  *)
(* clock twice: CleanExpired takes its cutoff from the first reading, and   *)
(* the admission is recorded with the second one, and time may pass in      *)
(* between.  A refused request calls GetInfo afterwards, with the mutex     *)
(* released, so anything may happen between its refusal and its headers.    *)
(*                                                                          *)
(* windows_ creates an entry for a key on its first attempt and never       *)
(* removes it; an entry with an empty deque and no entry are answered alike *)
(* by both operations, so windows is a total function on Keys.              *)
(***************************************************************************)
EXTENDS Integers, Sequences, FiniteSets

CONSTANTS
    Clients,      \* request coroutines
    Keys,         \* client addresses (request.GetRemoteAddress())
    MaxRequests,  \* max_requests_ (5 for login_limiter)
    Window,       \* window_size_ (60 s for login_limiter), in clock ticks
    MaxTime,      \* bound: the clock stops there
    NoClient      \* nobody holds the mutex

ASSUME SlidingWindowConstants ==
    /\ MaxRequests \in Nat \ {0}
    /\ Window \in Nat
    /\ MaxTime \in Nat
    /\ NoClient \notin Clients

VARIABLES
    now,      \* std::chrono::steady_clock::now()
    windows,  \* windows_[k].requests: the deque of admission times
    mutex,    \* mutex_: the coroutine that holds it
    pc,       \* where each coroutine is in LoginHandler
    key,      \* the address each coroutine is serving
    resp,     \* the last response of each coroutine, with its limit headers
    grants    \* history: every time an attempt of the address was admitted

vars == <<now, windows, mutex, pc, key, resp, grants>>

NoResponse == [status |-> 0, remaining |-> 0, reset |-> 0, at |-> 0]

Init ==
    /\ now = 0
    /\ windows = [k \in Keys |-> <<>>]
    /\ mutex = NoClient
    /\ pc = [c \in Clients |-> "idle"]
    /\ key \in [Clients -> Keys]
    /\ resp = [c \in Clients |-> NoResponse]
    /\ grants = [k \in Keys |-> <<>>]

-----------------------------------------------------------------------------
(* The deque *)

\* Mutant: expires an entry that is exactly as old as the window.
CleanExpiredClosed(q, cutoff) ==
    LET live == {i \in DOMAIN q : q[i] > cutoff}
    IN  IF live = {} THEN <<>>
        ELSE SubSeq(q, CHOOSE i \in live : \A j \in live : i <= j, Len(q))

\* Pops from the front for as long as the front is older than the cutoff.
CleanExpired(q, cutoff) ==
    LET live == {i \in DOMAIN q : q[i] >= cutoff}
    IN  IF live = {} THEN <<>>
        ELSE SubSeq(q, CHOOSE i \in live : \A j \in live : i <= j, Len(q))

-----------------------------------------------------------------------------
(* LoginHandler *)

Tick ==
    /\ now < MaxTime
    /\ now' = now + 1
    /\ UNCHANGED <<windows, mutex, pc, key, resp, grants>>

\* Mutant: TryAcquire does not wait for the mutex.
TryAcquireUnlocked(c, k) ==
    /\ pc[c] = "idle"
    /\ mutex' = c
    /\ windows' = [windows EXCEPT ![k] = CleanExpired(@, now - Window)]
    /\ pc' = [pc EXCEPT ![c] = "cleaned"]
    /\ key' = [key EXCEPT ![c] = k]
    /\ resp' = [resp EXCEPT ![c] = NoResponse]
    /\ UNCHANGED <<now, grants>>

\* A request from k arrives and TryAcquire gets the mutex and drops what has
\* expired by the first reading of the clock.
TryAcquire(c, k) ==
    /\ pc[c] = "idle"
    /\ mutex = NoClient
    /\ mutex' = c
    /\ windows' = [windows EXCEPT ![k] = CleanExpired(@, now - Window)]
    /\ pc' = [pc EXCEPT ![c] = "cleaned"]
    /\ key' = [key EXCEPT ![c] = k]
    /\ resp' = [resp EXCEPT ![c] = NoResponse]
    /\ UNCHANGED <<now, grants>>

\* Mutant: the limit is compared with > instead of >=.
GrantOneMore(c) ==
    /\ pc[c] = "cleaned"
    /\ Len(windows[key[c]]) <= MaxRequests
    /\ windows' = [windows EXCEPT ![key[c]] = Append(@, now)]
    /\ grants' = [grants EXCEPT ![key[c]] = Append(@, now)]
    /\ mutex' = NoClient
    /\ pc' = [pc EXCEPT ![c] = "granted"]
    /\ UNCHANGED <<now, key, resp>>

\* The rest of TryAcquire when the window has room: the admission is recorded
\* with a new reading of the clock.
Grant(c) ==
    /\ pc[c] = "cleaned"
    /\ Len(windows[key[c]]) < MaxRequests
    /\ windows' = [windows EXCEPT ![key[c]] = Append(@, now)]
    /\ grants' = [grants EXCEPT ![key[c]] = Append(@, now)]
    /\ mutex' = NoClient
    /\ pc' = [pc EXCEPT ![c] = "granted"]
    /\ UNCHANGED <<now, key, resp>>

\* The rest of TryAcquire when the window is full: nothing is recorded.
Refuse(c) ==
    /\ pc[c] = "cleaned"
    /\ Len(windows[key[c]]) >= MaxRequests
    /\ mutex' = NoClient
    /\ pc' = [pc EXCEPT ![c] = "refused"]
    /\ UNCHANGED <<now, windows, key, resp, grants>>

\* An admitted request whose body is malformed or whose credentials are wrong
\* ends without limit headers: an exception, 400 or 401.
LoginFails(c) ==
    /\ pc[c] = "granted"
    /\ pc' = [pc EXCEPT ![c] = "idle"]
    /\ UNCHANGED <<now, windows, mutex, key, resp, grants>>

\* The user is read, the password matches, the token is made and the event
\* UserLoggedIn is published; the limit headers come next.
LoginSucceeds(c) ==
    /\ pc[c] = "granted"
    /\ pc' = [pc EXCEPT ![c] = "loggedin"]
    /\ UNCHANGED <<now, windows, mutex, key, resp, grants>>

Remaining(q) == IF Len(q) >= MaxRequests THEN 0 ELSE MaxRequests - Len(q)

\* Mutant: GetInfo counts the deque as the last TryAcquire left it.
GetInfoStale(c, status) ==
    /\ pc[c] = IF status = 429 THEN "refused" ELSE "loggedin"
    /\ mutex = NoClient
    /\ resp' = [resp EXCEPT ![c] = [status    |-> status,
                                    remaining |-> Remaining(windows[key[c]]),
                                    reset     |-> Window,
                                    at        |-> now]]
    /\ pc' = [pc EXCEPT ![c] = "idle"]
    /\ UNCHANGED <<now, windows, mutex, key, grants>>

\* Mutant: Retry-After is the age of the oldest admission, not the wait.
GetInfoElapsed(c, status) ==
    LET q == CleanExpired(windows[key[c]], now - Window)
    IN  /\ pc[c] = IF status = 429 THEN "refused" ELSE "loggedin"
        /\ mutex = NoClient
        /\ windows' = [windows EXCEPT ![key[c]] = q]
        /\ resp' = [resp EXCEPT ![c] = [status    |-> status,
                                        remaining |-> Remaining(q),
                                        reset     |-> IF q = <<>> THEN 0 ELSE now - q[1],
                                        at        |-> now]]
        /\ pc' = [pc EXCEPT ![c] = "idle"]
        /\ UNCHANGED <<now, mutex, key, grants>>

\* GetInfo, under the mutex again, and the answer its headers go into: 429
\* with X-RateLimit-Reset and Retry-After, or 200 with the first two only.
\* reset_seconds is the size of the window whatever the deque holds.
GetInfo(c, status) ==
    LET q == CleanExpired(windows[key[c]], now - Window)
    IN  /\ pc[c] = IF status = 429 THEN "refused" ELSE "loggedin"
        /\ mutex = NoClient
        /\ windows' = [windows EXCEPT ![key[c]] = q]
        /\ resp' = [resp EXCEPT ![c] = [status    |-> status,
                                        remaining |-> Remaining(q),
                                        reset     |-> Window,
                                        at        |-> now]]
        /\ pc' = [pc EXCEPT ![c] = "idle"]
        /\ UNCHANGED <<now, mutex, key, grants>>

Next ==
    \/ Tick
    \/ \E c \in Clients :
        \/ \E k \in Keys : TryAcquire(c, k)
        \/ Grant(c)
        \/ Refuse(c)
        \/ LoginFails(c)
        \/ LoginSucceeds(c)
        \/ GetInfo(c, 429)
        \/ GetInfo(c, 200)

Spec == Init /\ [][Next]_vars

-----------------------------------------------------------------------------
(* Properties *)

Time == 0 .. MaxTime

\* The types of the variables.  The deque of an address never holds more than
\* MaxRequests admissions, which TryAcquire's size() >= max_requests_ keeps.
TypeOK ==
    /\ now \in Time
    /\ windows \in [Keys -> Seq(Time)]
    /\ \A k \in Keys : Len(windows[k]) <= MaxRequests
    /\ mutex \in Clients \cup {NoClient}
    /\ pc \in [Clients -> {"idle", "cleaned", "granted", "refused", "loggedin"}]
    /\ key \in [Clients -> Keys]
    /\ resp \in [Clients -> [status : {0, 200, 429}, remaining : 0 .. MaxRequests,
                            reset : {0, Window}, at : Time]]
    /\ grants \in [Keys -> Seq(Time)]

\* How many admissions of k its deque has dropped.
Dropped(k) == Len(grants[k]) - Len(windows[k])

\* Only the coroutine between the two halves of TryAcquire holds the mutex.
MutexInv == \A c \in Clients : pc[c] = "cleaned" <=> mutex = c

\* What was dropped is out of the window for good, and the deque is the rest of
\* the admissions, in order: dropping from the front loses nothing because the
\* second clock reading is made under the mutex, so the deque stays sorted.
WindowsFollowGrants ==
    \A k \in Keys :
        /\ Dropped(k) \in Nat
        /\ \A i \in 1 .. Len(windows[k]) : windows[k][i] = grants[k][Dropped(k) + i]
        /\ \A i \in 1 .. Dropped(k) : now - grants[k][i] > Window
        /\ \A i, j \in 1 .. Len(grants[k]) : i <= j => grants[k][i] <= grants[k][j]
        /\ \A i \in 1 .. Len(grants[k]) : grants[k][i] <= now

\* The inductive invariant: the deque agrees with the history and the mutex is
\* held by exactly the coroutine that is deciding.
LimiterInv == MutexInv /\ WindowsFollowGrants

\* No interval of Window ticks, wherever it starts, holds more than MaxRequests
\* admitted logins of one address, however the coroutines interleave and however
\* long a coroutine takes between the two clock readings of TryAcquire.
WindowLimit ==
    \A k \in Keys : \A i \in 1 .. Len(grants[k]) :
        i + MaxRequests \in 1 .. Len(grants[k]) =>
            grants[k][i + MaxRequests] - grants[k][i] > Window

InWindow(k) == {i \in DOMAIN grants[k] : now - grants[k][i] <= Window}

\* X-RateLimit-Remaining of either answer is the number of attempts the address
\* still has at the moment GetInfo reads it, whatever was admitted, refused or
\* expired since this request's own TryAcquire.
RemainingHonest ==
    [][\A c \in Clients :
         resp'[c] # resp[c] /\ resp'[c].status # 0 =>
             resp'[c].remaining = MaxRequests - Cardinality(InWindow(key[c]))]_vars

\* A client told 429 that comes back after Retry-After has passed finds the window
\* full only if other requests of its address were admitted in the meantime.
RetryAfterSuffices ==
    [][\A c, d \in Clients :
         /\ pc[c] # "cleaned" /\ pc'[c] = "cleaned"
         /\ Len(windows'[key'[c]]) >= MaxRequests
         /\ resp[d].status = 429 /\ key[d] = key'[c]
         /\ now > resp[d].at + resp[d].reset
         => \E i \in DOMAIN grants[key'[c]] : grants[key'[c]][i] > resp[d].at]_vars

-----------------------------------------------------------------------------
(* The limiter implements RateLimit.  A refusal takes effect at the first clock
   reading of TryAcquire, an admission at the second one. *)

Verdict(c) ==
    CASE pc[c] \in {"granted", "loggedin"} -> "granted"
      [] pc[c] = "refused" -> "refused"
      [] pc[c] = "cleaned" /\ Len(windows[key[c]]) >= MaxRequests -> "refused"
      [] OTHER -> "none"

Abstract == INSTANCE RateLimit WITH verdict <- [c \in Clients |-> Verdict(c)]

\* Every step of the limiter and of its callers is a step of RateLimit or leaves
\* its variables alone: an attempt is refused exactly when the window is full.
RefinesRateLimit == Abstract!Spec
=============================================================================
