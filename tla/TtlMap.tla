-------------------------------- MODULE TtlMap --------------------------------
(***************************************************************************)
(* Maps whose entries live for a number of clock ticks: the value the cache *)
(* promises to show for each key, and for how many more ticks.  An entry    *)
(* with no tick left is still shown, and the next tick removes it.          *)
(***************************************************************************)
EXTENDS Integers

CONSTANT Nothing   \* what a key without an entry maps to

EmptyMap(keys) == [k \in keys |-> Nothing]

\* The value shown for k, or Nothing.
Look(m, k) == IF m[k] = Nothing THEN Nothing ELSE m[k].value

Put(m, k, v, ttl) == [m EXCEPT ![k] = [value |-> v, left |-> ttl]]

Drop(m, ks) == [k \in DOMAIN m |-> IF k \in ks THEN Nothing ELSE m[k]]

\* Mutant: nothing ever expires.
AgedNever(m) == m

\* One tick of the clock.
Aged(m) ==
    [k \in DOMAIN m |->
        IF m[k] = Nothing \/ m[k].left = 0 THEN Nothing
        ELSE [value |-> m[k].value, left |-> m[k].left - 1]]
=============================================================================
