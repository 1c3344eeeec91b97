----------------------------- MODULE CacheManager -----------------------------
(***************************************************************************)
(* The in-memory response cache.  Every operation runs under the mutex and  *)
(* reads the clock at most once, so each is one step.  An entry whose       *)
(* deadline has passed stays stored until a Get finds it, an invalidation   *)
(* removes it or a Set replaces it.                                         *)
(***************************************************************************)
EXTENDS Integers

CONSTANTS
    Keys,       \* cache keys ("projects:all", "comments:task:<id>")
    Values,     \* cached response bodies
    Ttls,       \* times to live that callers pass, in ticks
    Prefixes,   \* a prefix is the set of the keys that start with it
    MaxTime,    \* bound: the clock stops there
    Nothing     \* std::nullopt, and the absence of an entry

ASSUME CacheConstants ==
    /\ Ttls \subseteq Nat
    /\ MaxTime \in Nat
    /\ Prefixes \subseteq SUBSET Keys
    /\ Nothing \notin Values
    /\ Nothing \notin [value : Values, expires_at : Int]
    /\ Nothing \notin [value : Values, left : Int]

VARIABLES
    now,        \* std::chrono::steady_clock::now()
    cache,      \* cache_
    answer      \* what the last Get returned

vars == <<now, cache, answer>>

Init ==
    /\ now = 0
    /\ cache = [k \in Keys |-> Nothing]
    /\ answer = Nothing

Tick ==
    /\ now < MaxTime
    /\ now' = now + 1
    /\ UNCHANGED <<cache, answer>>

\* Mutant: an entry is dropped at its deadline already.
ExpiredAtDeadline(k) == now >= cache[k].expires_at

Expired(k) == now > cache[k].expires_at

Get(k) ==
    \/ /\ cache[k] = Nothing
       /\ answer' = Nothing
       /\ UNCHANGED <<now, cache>>
    \/ /\ cache[k] # Nothing
       /\ Expired(k)
       /\ cache' = [cache EXCEPT ![k] = Nothing]
       /\ answer' = Nothing
       /\ UNCHANGED now
    \/ /\ cache[k] # Nothing
       /\ ~Expired(k)
       /\ answer' = cache[k].value
       /\ UNCHANGED <<now, cache>>

\* Mutant: the lifetime is taken in minutes.
SetMinutes(k, v, ttl) ==
    /\ cache' = [cache EXCEPT ![k] = [value |-> v, expires_at |-> now + 60 * ttl]]
    /\ UNCHANGED <<now, answer>>

Set(k, v, ttl) ==
    /\ cache' = [cache EXCEPT ![k] = [value |-> v, expires_at |-> now + ttl]]
    /\ UNCHANGED <<now, answer>>

Invalidate(k) ==
    /\ cache' = [cache EXCEPT ![k] = Nothing]
    /\ UNCHANGED <<now, answer>>

InvalidateByPrefix(p) ==
    /\ cache' = [k \in Keys |-> IF k \in p THEN Nothing ELSE cache[k]]
    /\ UNCHANGED <<now, answer>>

Next ==
    \/ Tick
    \/ \E k \in Keys :
        \/ Get(k)
        \/ Invalidate(k)
        \/ \E v \in Values, ttl \in Ttls : Set(k, v, ttl)
    \/ \E p \in Prefixes : InvalidateByPrefix(p)

Spec == Init /\ [][Next]_vars

-----------------------------------------------------------------------------
(* Properties *)

\* The types of the variables; no stored deadline is further away than the
\* longest time to live.
TypeOK ==
    /\ now \in 0 .. MaxTime
    /\ cache \in [Keys -> {Nothing} \cup [value : Values, expires_at : Int]]
    /\ answer \in Values \cup {Nothing}
    /\ \A k \in Keys : cache[k] # Nothing =>
         \E ttl \in Ttls : cache[k].expires_at <= now + ttl

\* What a Get at this moment would return, as an entry with its remaining life.
Shown(k) ==
    IF cache[k] = Nothing \/ now > cache[k].expires_at THEN Nothing
    ELSE [value |-> cache[k].value, left |-> cache[k].expires_at - now]

Abstract == INSTANCE ExpiringMap WITH shown <- [k \in Keys |-> Shown(k)]

\* Lazy removal cannot be observed: every sequence of calls gets the answers it
\* would get from a map that forgets an entry the moment its time is over, and an
\* entry is shown up to and including its deadline.
RefinesExpiringMap == Abstract!Spec
=============================================================================
