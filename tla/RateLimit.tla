------------------------------ MODULE RateLimit ------------------------------
(***************************************************************************)
(* What the login limiter promises, with no deque, no lock and no second    *)
(* reading of the clock: an attempt of a key is admitted exactly when fewer *)
(* than MaxRequests attempts of that key were admitted in the last Window   *)
(* ticks (both ends included), and it is refused exactly when that many     *)
(* were.  Refused attempts do not count.                                    *)
(***************************************************************************)
EXTENDS Integers, Sequences

CONSTANTS
    Clients,      \* the request coroutines that call the limiter
    Keys,         \* the client addresses that attempts are counted by
    MaxRequests,  \* attempts admitted per window
    Window        \* length of the window, in ticks of the steady clock

VARIABLES
    now,          \* the steady clock
    grants,       \* grants[k]: the times at which attempts of k were admitted
    verdict       \* verdict[c]: what the attempt c is making was told

rlVars == <<now, grants, verdict>>

\* Whether the MaxRequests-th most recent admission still lies in the window.
Full(k) ==
    LET n == Len(grants[k])
    IN  n >= MaxRequests /\ now - grants[k][n - MaxRequests + 1] <= Window

Init ==
    /\ now = 0
    /\ grants = [k \in Keys |-> <<>>]
    /\ verdict = [c \in Clients |-> "none"]

Tick ==
    /\ now' = now + 1
    /\ UNCHANGED <<grants, verdict>>

Admit(c, k) ==
    /\ verdict[c] = "none"
    /\ ~Full(k)
    /\ grants' = [grants EXCEPT ![k] = Append(@, now)]
    /\ verdict' = [verdict EXCEPT ![c] = "granted"]
    /\ UNCHANGED now

Refuse(c, k) ==
    /\ verdict[c] = "none"
    /\ Full(k)
    /\ verdict' = [verdict EXCEPT ![c] = "refused"]
    /\ UNCHANGED <<now, grants>>

\* The request ends; the coroutine may serve another one.
Forget(c) ==
    /\ verdict[c] # "none"
    /\ verdict' = [verdict EXCEPT ![c] = "none"]
    /\ UNCHANGED <<now, grants>>

Next ==
    \/ Tick
    \/ \E c \in Clients :
        \/ Forget(c)
        \/ \E k \in Keys : Admit(c, k) \/ Refuse(c, k)

Spec == Init /\ [][Next]_rlVars
=============================================================================
