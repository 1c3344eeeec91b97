----------------------------- MODULE ExpiringMap -----------------------------
(***************************************************************************)
(* What CacheManager promises its callers, without deadlines and without    *)
(* entries that have expired and are still stored: an entry set with a time *)
(* to live is shown for that long unless it is replaced or invalidated, and *)
(* not one tick longer.                                                     *)
(***************************************************************************)
EXTENDS TtlMap

CONSTANTS
    Keys,       \* cache keys
    Values,     \* cached response bodies
    Ttls,       \* times to live that callers pass
    Prefixes    \* a prefix is the set of the keys that start with it

VARIABLES
    shown,      \* what the cache shows
    answer      \* what the last Get returned

Init ==
    /\ shown = EmptyMap(Keys)
    /\ answer = Nothing

Tick ==
    /\ shown' = Aged(shown)
    /\ UNCHANGED answer

Get(k) ==
    /\ answer' = Look(shown, k)
    /\ UNCHANGED shown

Set(k, v, ttl) ==
    /\ shown' = Put(shown, k, v, ttl)
    /\ UNCHANGED answer

Invalidate(ks) ==
    /\ shown' = Drop(shown, ks)
    /\ UNCHANGED answer

Next ==
    \/ Tick
    \/ \E k \in Keys :
        \/ Get(k)
        \/ Invalidate({k})
        \/ \E v \in Values, ttl \in Ttls : Set(k, v, ttl)
    \/ \E p \in Prefixes : Invalidate(p)

Spec == Init /\ [][Next]_<<shown, answer>>
=============================================================================
