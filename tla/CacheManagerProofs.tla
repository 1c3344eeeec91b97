-------------------------- MODULE CacheManagerProofs --------------------------
(***************************************************************************)
(* Proofs about CacheManager: its types, and that it implements ExpiringMap.*)
(***************************************************************************)
EXTENDS CacheManager, TLAPS

LEMMA TypeInit == Init => TypeOK
BY CacheConstants DEF Init, TypeOK

LEMMA TypeStep == TypeOK /\ [Next]_vars => TypeOK'
<1> SUFFICES ASSUME TypeOK, [Next]_vars PROVE TypeOK'
  OBVIOUS
<1> USE CacheConstants
<1>t. now \in Int /\ Ttls \subseteq Int
  BY DEF TypeOK
<1>1. CASE Tick
  <2>1. now' \in 0 .. MaxTime /\ cache' = cache /\ answer' = answer /\ now' = now + 1
    BY <1>1 DEF Tick, TypeOK
  <2>2. ASSUME NEW k \in Keys, cache[k] # Nothing
        PROVE  \E ttl \in Ttls : cache[k].expires_at <= now' + ttl
    <3>1. PICK ttl \in Ttls : cache[k].expires_at <= now + ttl
      BY <2>2 DEF TypeOK
    <3>2. cache[k].expires_at \in Int /\ ttl \in Int
      BY <2>2, <1>t DEF TypeOK
    <3>3. cache[k].expires_at <= now' + ttl
      BY <1>t, <2>1, <3>1, <3>2
    <3>4. QED
      BY <3>3
  <2>3. QED
    BY <2>1, <2>2 DEF TypeOK
<1>2. ASSUME NEW k \in Keys, Get(k) PROVE TypeOK'
  BY <1>2 DEF Get, TypeOK
<1>3. ASSUME NEW k \in Keys, NEW v \in Values, NEW ttl \in Ttls, Set(k, v, ttl)
      PROVE  TypeOK'
  <2> DEFINE e == [value |-> v, expires_at |-> now + ttl]
  <2>1. e \in [value : Values, expires_at : Int] /\ e.expires_at = now + ttl
    BY <1>t
  <2>2. e.expires_at <= now + ttl
    BY <1>t, <2>1
  <2>3. cache' = [cache EXCEPT ![k] = e] /\ now' = now /\ answer' = answer
    BY <1>3 DEF Set
  <2> HIDE DEF e
  <2>4. QED
    BY <2>1, <2>2, <2>3 DEF TypeOK
<1>4. ASSUME NEW k \in Keys, Invalidate(k) PROVE TypeOK'
  BY <1>4 DEF Invalidate, TypeOK
<1>5. ASSUME NEW p \in Prefixes, InvalidateByPrefix(p) PROVE TypeOK'
  BY <1>5 DEF InvalidateByPrefix, TypeOK
<1>6. CASE UNCHANGED vars
  BY <1>6 DEF vars, TypeOK
<1>7. QED
  BY <1>1, <1>2, <1>3, <1>4, <1>5, <1>6 DEF Next

\* The variables keep their types, and no entry outlives the longest lifetime, for
\* every set of keys, values, lifetimes and prefixes.
THEOREM TypeCorrect == Spec => []TypeOK
BY TypeInit, TypeStep, PTL DEF Spec

-----------------------------------------------------------------------------
(* The refinement *)

ShownMap == [k \in Keys |-> Shown(k)]

\* Looking a key up in the map of shown entries is what Get does to the stored one.
LEMMA LookIsGet ==
    ASSUME TypeOK, NEW k \in Keys
    PROVE  Abstract!Look(ShownMap, k)
             = IF cache[k] = Nothing \/ Expired(k) THEN Nothing ELSE cache[k].value
<1>1. [value |-> cache[k].value, left |-> cache[k].expires_at - now] # Nothing
      \/ cache[k] = Nothing \/ Expired(k)
  BY CacheConstants DEF TypeOK
<1>2. QED
  BY <1>1 DEF Abstract!Look, ShownMap, Shown, Expired

\* A tick shortens every shown entry by one tick, and removes those at their
\* deadline, which the stored ones do not notice.
LEMMA TickAges ==
    ASSUME TypeOK, Tick
    PROVE  ShownMap' = Abstract!Aged(ShownMap)
<1> SUFFICES ASSUME NEW k \in Keys
             PROVE  Shown(k)' = Abstract!Aged(ShownMap)[k]
  BY DEF ShownMap, Abstract!Aged
<1>1. Abstract!Aged(ShownMap)[k] =
        IF Shown(k) = Nothing \/ Shown(k).left = 0 THEN Nothing
        ELSE [value |-> Shown(k).value, left |-> Shown(k).left - 1]
  BY DEF Abstract!Aged, ShownMap
<1>2. now \in Int /\ now' = now + 1 /\ cache' = cache
  BY CacheConstants DEF Tick, TypeOK
<1>3. CASE cache[k] = Nothing
  BY <1>1, <1>2, <1>3 DEF Shown
<1>4. CASE cache[k] # Nothing
  <2> DEFINE d == cache[k].expires_at
  <2>1. d \in Int /\ cache[k].value \in Values
    BY <1>4 DEF TypeOK
  <2>2. Shown(k)' = IF now + 1 > d THEN Nothing
                    ELSE [value |-> cache[k].value, left |-> d - (now + 1)]
    BY <1>2, <1>4 DEF Shown
  <2>3. CASE now > d
    <3>1. Shown(k) = Nothing /\ now + 1 > d
      BY <1>2, <2>1, <2>3 DEF Shown
    <3>2. QED
      BY <1>1, <2>2, <3>1
  <2>4. CASE ~(now > d)
    <3>1. Shown(k) = [value |-> cache[k].value, left |-> d - now]
      BY <1>4, <2>4 DEF Shown
    <3>2. [value |-> cache[k].value, left |-> d - now] # Nothing
      BY <1>2, <2>1, CacheConstants
    <3>3. Shown(k) # Nothing /\ Shown(k).left = d - now /\ Shown(k).value = cache[k].value
      BY <3>1, <3>2
    <3> HIDE DEF d
    <3>4. (d - now = 0) <=> (now + 1 > d)
      BY <1>2, <2>1, <2>4
    <3>5. d - now - 1 = d - (now + 1)
      BY <1>2, <2>1
    <3>6. QED
      BY <1>1, <2>2, <3>3, <3>4, <3>5
  <2>5. QED
    BY <2>3, <2>4
<1>5. QED
  BY <1>3, <1>4

LEMMA RefinementInit == Init => Abstract!Init
BY DEF Init, Abstract!Init, Abstract!EmptyMap, Shown

LEMMA RefinementStep == TypeOK /\ [Next]_vars => [Abstract!Next]_<<ShownMap, answer>>
<1> SUFFICES ASSUME TypeOK, [Next]_vars PROVE [Abstract!Next]_<<ShownMap, answer>>
  OBVIOUS
<1>1. CASE Tick
  <2>1. Abstract!Tick
    BY <1>1, TickAges DEF Tick, Abstract!Tick, ShownMap
  <2>2. QED
    BY <2>1 DEF Abstract!Next
<1>2. ASSUME NEW k \in Keys, Get(k) PROVE Abstract!Get(k)
  <2>1. \A j \in Keys : Shown(j)' = Shown(j)
    BY <1>2 DEF Get, Shown, Expired, TypeOK
  <2>2. ShownMap' = ShownMap
    BY <2>1 DEF ShownMap
  <2>3. answer' = IF cache[k] = Nothing \/ Expired(k) THEN Nothing ELSE cache[k].value
    BY <1>2 DEF Get
  <2>4. QED
    BY <2>2, <2>3, LookIsGet DEF Abstract!Get, ShownMap
<1>3. ASSUME NEW k \in Keys, NEW v \in Values, NEW ttl \in Ttls, Set(k, v, ttl)
      PROVE  Abstract!Set(k, v, ttl)
  <2> DEFINE e == [value |-> v, expires_at |-> now + ttl]
  <2>1. e # Nothing /\ now \in Int /\ ttl \in Int /\ ttl >= 0
    BY CacheConstants DEF TypeOK
  <2>2. cache' = [cache EXCEPT ![k] = e] /\ now' = now /\ answer' = answer
    BY <1>3 DEF Set
  <2>3. ~(now > e.expires_at) /\ e.expires_at - now = ttl /\ e.value = v
    BY <2>1
  <2> HIDE DEF e
  <2>4. cache'[k] = e /\ \A j \in Keys : j # k => cache'[j] = cache[j]
    BY <2>2 DEF TypeOK
  <2>5. Shown(k)' = [value |-> v, left |-> ttl]
    BY <2>1, <2>2, <2>3, <2>4 DEF Shown
  <2>6. \A j \in Keys : j # k => Shown(j)' = Shown(j)
    BY <2>2, <2>4 DEF Shown
  <2>7. ShownMap' = [ShownMap EXCEPT ![k] = [value |-> v, left |-> ttl]]
    BY <2>5, <2>6 DEF ShownMap
  <2>8. QED
    BY <2>2, <2>7 DEF Abstract!Set, Abstract!Put, ShownMap
<1>4. ASSUME NEW ks \in SUBSET Keys, UNCHANGED <<now, answer>>,
             \A j \in Keys : cache'[j] = IF j \in ks THEN Nothing ELSE cache[j]
      PROVE  Abstract!Invalidate(ks)
  <2>1. \A j \in Keys : Shown(j)' = IF j \in ks THEN Nothing ELSE Shown(j)
    BY <1>4 DEF Shown
  <2>2. ShownMap' = [j \in Keys |-> IF j \in ks THEN Nothing ELSE Shown(j)]
    BY <2>1 DEF ShownMap
  <2>3. Abstract!Drop(ShownMap, ks) = [j \in Keys |-> IF j \in ks THEN Nothing ELSE Shown(j)]
    BY DEF Abstract!Drop, ShownMap
  <2>4. QED
    BY <1>4, <2>2, <2>3 DEF Abstract!Invalidate, ShownMap
<1>5. ASSUME NEW k \in Keys, Invalidate(k) PROVE Abstract!Invalidate({k})
  BY <1>4, <1>5 DEF Invalidate, TypeOK
<1>6. ASSUME NEW p \in Prefixes, InvalidateByPrefix(p) PROVE Abstract!Invalidate(p)
  BY <1>4, <1>6, CacheConstants DEF InvalidateByPrefix
<1>7. CASE UNCHANGED vars
  BY <1>7 DEF vars, ShownMap, Shown
<1>8. QED
  BY <1>1, <1>2, <1>3, <1>5, <1>6, <1>7 DEF Next, Abstract!Next

\* The cache with its deadlines and its lazy removal implements ExpiringMap: an
\* entry is shown until its lifetime is over or it is invalidated, and never after.
THEOREM CacheRefinesExpiringMap == Spec => RefinesExpiringMap
<1>1. Init => Abstract!Init
  BY RefinementInit
<1>2. TypeOK /\ [Next]_vars => [Abstract!Next]_<<ShownMap, answer>>
  BY RefinementStep
<1>3. QED
  BY <1>1, <1>2, TypeCorrect, PTL DEF Spec, RefinesExpiringMap, Abstract!Spec, ShownMap
=============================================================================
