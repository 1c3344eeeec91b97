------------------------- MODULE SlidingWindowProofs -------------------------
(***************************************************************************)
(* Proofs about SlidingWindow: the types, the inductive invariant, the      *)
(* limit that login_limiter keeps, and the refinement of RateLimit.         *)
(***************************************************************************)
EXTENDS SlidingWindow, SequenceTheorems, FiniteSetTheorems, WellFoundedInduction, TLAPS

\* A non-empty set of naturals has a least element, so the CHOOSE of
\* CleanExpired is defined.
LEMMA LeastIndex ==
    ASSUME NEW S, S \subseteq Nat, S # {}
    PROVE  \E i \in S : \A j \in S : i <= j
<1>1. PICK i \in S : \A j \in S : <<j, i>> \notin OpToRel(<, Nat)
  BY NatLessThanWellFounded, WFMin
<1>2. \A j \in S : ~(j < i)
  BY <1>1 DEF OpToRel
<1>3. QED
  BY <1>2

\* What the loop of CleanExpired does to a deque: it drops a prefix, all of it
\* older than the cutoff, and the front of what it leaves is not.
LEMMA CleanExpiredDropsPrefix ==
    ASSUME NEW T \in SUBSET Int, NEW q \in Seq(T), NEW cutoff \in Int
    PROVE  /\ CleanExpired(q, cutoff) \in Seq(T)
           /\ \E d \in 0 .. Len(q) :
                /\ Len(CleanExpired(q, cutoff)) = Len(q) - d
                /\ \A i \in 1 .. Len(q) - d : CleanExpired(q, cutoff)[i] = q[d + i]
                /\ \A i \in 1 .. d : q[i] < cutoff
                /\ d < Len(q) => q[d + 1] >= cutoff
<1> DEFINE live == {i \in DOMAIN q : q[i] >= cutoff}
           first == CHOOSE i \in live : \A j \in live : i <= j
<1>1. /\ DOMAIN q = 1 .. Len(q) /\ Len(q) \in Nat
      /\ \A i \in 1 .. Len(q) : q[i] \in T /\ q[i] \in Int
  <2>1. DOMAIN q = 1 .. Len(q) /\ Len(q) \in Nat
    OBVIOUS
  <2>2. \A i \in 1 .. Len(q) : q[i] \in T
    OBVIOUS
  <2>3. T \subseteq Int
    OBVIOUS
  <2>4. QED
    BY <2>1, <2>2, <2>3
<1>2. CASE live = {}
  <2>1. CleanExpired(q, cutoff) = <<>>
    BY <1>2 DEF CleanExpired
  <2>2. \A i \in 1 .. Len(q) : q[i] < cutoff
    BY <1>1, <1>2
  <2>3. Len(q) \in 0 .. Len(q) /\ Len(q) - Len(q) = 0
    BY <1>1
  <2>4. QED
    BY <2>1, <2>2, <2>3
<1>3. CASE live # {}
  <2>1. first \in live /\ \A j \in live : first <= j
    <3>1. live \subseteq Nat
      BY <1>1
    <3>2. \E i \in live : \A j \in live : i <= j
      BY <3>1, <1>3, LeastIndex
    <3>3. QED
      BY <3>2
  <2>2. CleanExpired(q, cutoff) = SubSeq(q, first, Len(q))
    BY <1>3 DEF CleanExpired
  <2>3. first \in 1 .. Len(q) /\ q[first] >= cutoff
    BY <2>1, <1>1
  <2>4. \A i \in first .. Len(q) : q[i] \in T
    BY <2>3, <1>1
  <2> HIDE DEF first
  <2>5. /\ SubSeq(q, first, Len(q)) \in Seq(T)
        /\ Len(SubSeq(q, first, Len(q))) = Len(q) - first + 1
        /\ \A i \in 1 .. Len(q) - first + 1 :
             SubSeq(q, first, Len(q))[i] = q[first + i - 1]
    BY <2>3, <2>4, <1>1, SubSeqProperties
  <2>6. \A i \in 1 .. first - 1 : q[i] < cutoff
    BY <2>1, <2>3, <1>1
  <2> DEFINE d == first - 1
  <2>7. /\ d \in 0 .. Len(q) /\ d < Len(q)
        /\ first = d + 1 /\ Len(q) - first + 1 = Len(q) - d
        /\ \A i \in 1 .. Len(q) - d : first + i - 1 = d + i
    BY <2>3, <1>1
  <2> HIDE DEF d
  <2>8. /\ Len(CleanExpired(q, cutoff)) = Len(q) - d
        /\ \A i \in 1 .. Len(q) - d : CleanExpired(q, cutoff)[i] = q[d + i]
        /\ \A i \in 1 .. d : q[i] < cutoff
        /\ q[d + 1] >= cutoff
    BY <2>2, <2>3, <2>5, <2>6, <2>7 DEF d
  <2>9. CleanExpired(q, cutoff) \in Seq(T)
    BY <2>2, <2>5
  <2>10. QED
    BY <2>7, <2>8, <2>9
<1>4. QED
  BY <1>2, <1>3

-----------------------------------------------------------------------------
(* Type correctness *)

LEMMA TypeInit == Init => TypeOK
BY SlidingWindowConstants DEF Init, TypeOK, Time, NoResponse

LEMMA TypeStep == TypeOK /\ [Next]_vars => TypeOK'
<1> SUFFICES ASSUME TypeOK, [Next]_vars PROVE TypeOK'
  OBVIOUS
<1> USE SlidingWindowConstants DEF Time
<1>t. Time \in SUBSET Int /\ now - Window \in Int
  BY DEF TypeOK
<1>r. ASSUME NEW k \in Keys
      PROVE  LET q == CleanExpired(windows[k], now - Window)
             IN  q \in Seq(Time) /\ Len(q) \in 0 .. Len(windows[k])
  <2>1. windows[k] \in Seq(Time)
    BY DEF TypeOK
  <2> DEFINE q == CleanExpired(windows[k], now - Window)
  <2>2. q \in Seq(Time) /\ \E d \in 0 .. Len(windows[k]) : Len(q) = Len(windows[k]) - d
    BY <2>1, <1>t, CleanExpiredDropsPrefix
  <2>3. Len(windows[k]) \in Nat
    BY <2>1
  <2> HIDE DEF q
  <2>4. Len(q) \in 0 .. Len(windows[k])
    BY <2>2, <2>3
  <2>5. QED
    BY <2>2, <2>4 DEF q
<1>1. CASE Tick
  BY <1>1 DEF Tick, TypeOK
<1>2. ASSUME NEW c \in Clients, NEW k \in Keys, TryAcquire(c, k)
      PROVE  TypeOK'
  <2> DEFINE q == CleanExpired(windows[k], now - Window)
  <2>1. q \in Seq(Time) /\ Len(q) <= MaxRequests
    <3>1. Len(windows[k]) <= MaxRequests /\ Len(windows[k]) \in Nat
      BY DEF TypeOK
    <3>2. q \in Seq(Time) /\ Len(q) \in 0 .. Len(windows[k])
      BY <1>r
    <3> HIDE DEF q
    <3>3. QED
      BY <3>1, <3>2
  <2> HIDE DEF q
  <2>2. windows' = [windows EXCEPT ![k] = q]
    BY <1>2 DEF TryAcquire, q
  <2>3. NoResponse \in [status : {0, 200, 429}, remaining : 0 .. MaxRequests,
                        reset : {0, Window}, at : Time]
    BY DEF NoResponse, TypeOK
  <2>4. QED
    BY <1>2, <2>1, <2>2, <2>3 DEF TryAcquire, TypeOK
<1>3. ASSUME NEW c \in Clients, Grant(c)
      PROVE  TypeOK'
  <2>1. /\ key[c] \in Keys /\ now \in Time
        /\ windows[key[c]] \in Seq(Time) /\ grants[key[c]] \in Seq(Time)
    BY DEF TypeOK
  <2>2. /\ Append(windows[key[c]], now) \in Seq(Time)
        /\ Len(Append(windows[key[c]], now)) <= MaxRequests
        /\ Append(grants[key[c]], now) \in Seq(Time)
    BY <1>3, <2>1 DEF Grant
  <2>3. QED
    BY <1>3, <2>1, <2>2 DEF Grant, TypeOK
<1>4. ASSUME NEW c \in Clients, Refuse(c)
      PROVE  TypeOK'
  BY <1>4 DEF Refuse, TypeOK
<1>5. ASSUME NEW c \in Clients, LoginFails(c)
      PROVE  TypeOK'
  BY <1>5 DEF LoginFails, TypeOK
<1>6. ASSUME NEW c \in Clients, LoginSucceeds(c)
      PROVE  TypeOK'
  BY <1>6 DEF LoginSucceeds, TypeOK
<1>7. ASSUME NEW c \in Clients, NEW status \in {200, 429}, GetInfo(c, status)
      PROVE  TypeOK'
  <2> DEFINE q == CleanExpired(windows[key[c]], now - Window)
             r == [status |-> status, remaining |-> Remaining(q),
                   reset |-> Window, at |-> now]
  <2>0. key[c] \in Keys
    BY DEF TypeOK
  <2>1. q \in Seq(Time) /\ Len(q) <= MaxRequests /\ Len(q) \in Nat
    <3>1. Len(windows[key[c]]) <= MaxRequests /\ Len(windows[key[c]]) \in Nat
      BY <2>0 DEF TypeOK
    <3>2. q \in Seq(Time) /\ Len(q) \in 0 .. Len(windows[key[c]])
      BY <1>r, <2>0
    <3> HIDE DEF q
    <3>3. QED
      BY <3>1, <3>2
  <2>2. /\ windows' = [windows EXCEPT ![key[c]] = q]
        /\ resp' = [resp EXCEPT ![c] = r]
    BY <1>7 DEF GetInfo
  <2> HIDE DEF q
  <2>3. r \in [status : {0, 200, 429}, remaining : 0 .. MaxRequests,
               reset : {0, Window}, at : Time]
    BY <2>1 DEF Remaining, TypeOK
  <2> HIDE DEF r
  <2>4. QED
    BY <1>7, <2>0, <2>1, <2>2, <2>3 DEF GetInfo, TypeOK
<1>8. CASE UNCHANGED vars
  BY <1>8 DEF vars, TypeOK
<1>9. QED
  BY <1>1, <1>2, <1>3, <1>4, <1>5, <1>6, <1>7, <1>8 DEF Next

\* The variables keep their types, and no deque outgrows MaxRequests, for every
\* number of coroutines and addresses and every limit and window.
THEOREM TypeCorrect == Spec => []TypeOK
BY TypeInit, TypeStep, PTL DEF Spec

-----------------------------------------------------------------------------
(* The deque is what is left of the history *)

\* The part of WindowsFollowGrants about one address.
Follows(k) ==
    /\ Dropped(k) \in Nat
    /\ \A i \in 1 .. Len(windows[k]) : windows[k][i] = grants[k][Dropped(k) + i]
    /\ \A i \in 1 .. Dropped(k) : now - grants[k][i] > Window
    /\ \A i, j \in 1 .. Len(grants[k]) : i <= j => grants[k][i] <= grants[k][j]
    /\ \A i \in 1 .. Len(grants[k]) : grants[k][i] <= now

LEMMA WindowsFollowGrantsByKey == WindowsFollowGrants <=> \A k \in Keys : Follows(k)
BY DEF WindowsFollowGrants, Follows

\* The sequences of one address, as the lemmas below need them.
LEMMA KeyTypes ==
    ASSUME TypeOK, NEW k \in Keys
    PROVE  /\ windows[k] \in Seq(Time) /\ Len(windows[k]) \in Nat
           /\ Len(windows[k]) <= MaxRequests
           /\ \A i \in 1 .. Len(windows[k]) : windows[k][i] \in Int
           /\ grants[k] \in Seq(Time) /\ Len(grants[k]) \in Nat
           /\ \A i \in 1 .. Len(grants[k]) : grants[k][i] \in Int
           /\ now \in Int /\ now - Window \in Int /\ Time \in SUBSET Int
<1>1. windows[k] \in Seq(Time) /\ grants[k] \in Seq(Time)
  BY DEF TypeOK
<1>2. Time \in SUBSET Int /\ now \in Int /\ now - Window \in Int
  BY SlidingWindowConstants DEF TypeOK, Time
<1>3. /\ \A i \in 1 .. Len(windows[k]) : windows[k][i] \in Time
      /\ \A i \in 1 .. Len(grants[k]) : grants[k][i] \in Time
  BY <1>1
<1>4. /\ \A i \in 1 .. Len(windows[k]) : windows[k][i] \in Int
      /\ \A i \in 1 .. Len(grants[k]) : grants[k][i] \in Int
  BY <1>2, <1>3
<1>5. Len(windows[k]) \in Nat /\ Len(grants[k]) \in Nat
  BY <1>1
<1>6. Len(windows[k]) <= MaxRequests
  BY DEF TypeOK
<1>7. QED
  BY <1>1, <1>2, <1>4, <1>5, <1>6

\* CleanExpired keeps the deque in step with the history, in TryAcquire and in
\* GetInfo: it drops only what is out of the window.
LEMMA CleaningFollows ==
    ASSUME TypeOK, NEW k \in Keys, Follows(k),
           windows'[k] = CleanExpired(windows[k], now - Window),
           grants'[k] = grants[k], now' = now
    PROVE  Follows(k)'
<1> DEFINE w == windows[k]
           q == CleanExpired(w, now - Window)
           g == grants[k]
<1>1. PICK d \in 0 .. Len(w) :
        /\ Len(q) = Len(w) - d
        /\ \A i \in 1 .. Len(w) - d : q[i] = w[d + i]
        /\ \A i \in 1 .. d : w[i] < now - Window
  <2>1. w \in Seq(Time) /\ now - Window \in Int /\ Time \in SUBSET Int
    BY KeyTypes
  <2>2. QED
    BY <2>1, CleanExpiredDropsPrefix
<1>2. /\ windows'[k] = q /\ grants'[k] = g /\ now' = now
      /\ Dropped(k) = Len(g) - Len(w) /\ Dropped(k)' = Len(g) - Len(q)
  BY DEF Dropped
<1>3. /\ Len(w) \in Nat /\ Len(g) \in Nat /\ now \in Int /\ Window \in Nat
      /\ \A i \in 1 .. Len(g) : g[i] \in Int
  BY KeyTypes, SlidingWindowConstants
<1>4. /\ Len(g) - Len(w) \in Nat
      /\ \A i \in 1 .. Len(w) : w[i] = g[(Len(g) - Len(w)) + i]
      /\ \A i \in 1 .. Len(g) - Len(w) : now - g[i] > Window
      /\ \A i, j \in 1 .. Len(g) : i <= j => g[i] <= g[j]
      /\ \A i \in 1 .. Len(g) : g[i] <= now
  BY <1>2 DEF Follows
<1> HIDE DEF q, w, g
<1>5. Len(g) - Len(q) = (Len(g) - Len(w)) + d
  BY <1>1, <1>3
<1>6. Len(g) - Len(q) \in Nat
  BY <1>1, <1>3, <1>4, <1>5
<1>7. \A i \in 1 .. Len(q) : q[i] = g[(Len(g) - Len(q)) + i]
  <2> SUFFICES ASSUME NEW i \in 1 .. Len(q) PROVE q[i] = g[(Len(g) - Len(q)) + i]
    OBVIOUS
  <2>1. d + i \in 1 .. Len(w) /\ i \in 1 .. Len(w) - d
    BY <1>1, <1>3
  <2>2. q[i] = w[d + i] /\ w[d + i] = g[(Len(g) - Len(w)) + (d + i)]
    BY <1>1, <1>4, <2>1
  <2>3. (Len(g) - Len(w)) + (d + i) = (Len(g) - Len(q)) + i
    BY <1>1, <1>3
  <2>4. QED
    BY <2>2, <2>3
<1>8. \A i \in 1 .. Len(g) - Len(q) : now - g[i] > Window
  <2> SUFFICES ASSUME NEW i \in 1 .. Len(g) - Len(q) PROVE now - g[i] > Window
    OBVIOUS
  <2>1. CASE i \in 1 .. Len(g) - Len(w)
    BY <1>4, <2>1
  <2>2. CASE i \notin 1 .. Len(g) - Len(w)
    <3> DEFINE j == i - (Len(g) - Len(w))
    <3>1. j \in 1 .. d /\ j \in 1 .. Len(w) /\ i = (Len(g) - Len(w)) + j
          /\ i \in 1 .. Len(g)
      BY <1>1, <1>3, <1>4, <1>5, <2>2
    <3> HIDE DEF j
    <3>2. w[j] = g[i] /\ w[j] < now - Window /\ g[i] \in Int
      BY <1>1, <1>3, <1>4, <3>1
    <3>3. QED
      BY <1>3, <3>2
  <2>3. QED
    BY <2>1, <2>2
<1>9. QED
  BY <1>2, <1>4, <1>6, <1>7, <1>8 DEF Follows

\* Recording an admission at the back of both keeps them in step: the new time is
\* not older than any other.
LEMMA GrantFollows ==
    ASSUME TypeOK, NEW k \in Keys, Follows(k),
           windows'[k] = Append(windows[k], now),
           grants'[k] = Append(grants[k], now), now' = now
    PROVE  Follows(k)'
<1> DEFINE w == windows[k]
           g == grants[k]
<1>1. /\ w \in Seq(Time) /\ g \in Seq(Time) /\ now \in Time
      /\ Len(w) \in Nat /\ Len(g) \in Nat /\ now \in Int
      /\ \A i \in 1 .. Len(g) : g[i] \in Int
  BY KeyTypes DEF TypeOK
<1>2. /\ windows'[k] = Append(w, now) /\ grants'[k] = Append(g, now)
      /\ Dropped(k) = Len(g) - Len(w)
      /\ Dropped(k)' = Len(Append(g, now)) - Len(Append(w, now))
  BY DEF Dropped
<1>3. /\ Len(g) - Len(w) \in Nat
      /\ \A i \in 1 .. Len(w) : w[i] = g[(Len(g) - Len(w)) + i]
      /\ \A i \in 1 .. Len(g) - Len(w) : now - g[i] > Window
      /\ \A i, j \in 1 .. Len(g) : i <= j => g[i] <= g[j]
      /\ \A i \in 1 .. Len(g) : g[i] <= now
  BY <1>2 DEF Follows
<1> HIDE DEF w, g
<1> DEFINE w2 == Append(w, now)
           g2 == Append(g, now)
<1>4. /\ Len(w2) = Len(w) + 1 /\ Len(g2) = Len(g) + 1
      /\ \A i \in 1 .. Len(w) : w2[i] = w[i]
      /\ \A i \in 1 .. Len(g) : g2[i] = g[i]
      /\ w2[Len(w) + 1] = now /\ g2[Len(g) + 1] = now
  BY <1>1
<1> HIDE DEF w2, g2
<1>5. Len(g2) - Len(w2) = Len(g) - Len(w)
  BY <1>1, <1>4
<1>6. \A i \in 1 .. Len(w2) : w2[i] = g2[(Len(g2) - Len(w2)) + i]
  <2> SUFFICES ASSUME NEW i \in 1 .. Len(w2)
               PROVE  w2[i] = g2[(Len(g) - Len(w)) + i]
    BY <1>5
  <2>1. CASE i = Len(w) + 1
    <3>1. (Len(g) - Len(w)) + i = Len(g) + 1
      BY <1>1, <2>1
    <3>2. QED
      BY <1>4, <2>1, <3>1
  <2>2. CASE i # Len(w) + 1
    <3>1. i \in 1 .. Len(w) /\ (Len(g) - Len(w)) + i \in 1 .. Len(g)
      BY <1>1, <1>3, <1>4, <2>2
    <3>2. QED
      BY <1>3, <1>4, <3>1
  <2>3. QED
    BY <2>1, <2>2
<1>7. \A i \in 1 .. Len(g2) - Len(w2) : now - g2[i] > Window
  <2> SUFFICES ASSUME NEW i \in 1 .. Len(g) - Len(w) PROVE now - g2[i] > Window
    BY <1>5
  <2>1. i \in 1 .. Len(g) /\ g2[i] = g[i]
    BY <1>1, <1>3, <1>4
  <2>2. QED
    BY <1>3, <2>1
<1>8. \A i \in 1 .. Len(g2) : g2[i] <= now
  <2> SUFFICES ASSUME NEW i \in 1 .. Len(g2) PROVE g2[i] <= now
    OBVIOUS
  <2>1. CASE i = Len(g) + 1
    BY <1>1, <1>4, <2>1
  <2>2. CASE i # Len(g) + 1
    <3>1. i \in 1 .. Len(g)
      BY <1>1, <1>4, <2>2
    <3>2. QED
      BY <1>3, <1>4, <3>1
  <2>3. QED
    BY <2>1, <2>2
<1>9. \A i, j \in 1 .. Len(g2) : i <= j => g2[i] <= g2[j]
  <2> SUFFICES ASSUME NEW i \in 1 .. Len(g2), NEW j \in 1 .. Len(g2), i <= j
               PROVE  g2[i] <= g2[j]
    OBVIOUS
  <2>1. CASE j = Len(g) + 1
    BY <1>4, <1>8, <2>1
  <2>2. CASE j # Len(g) + 1
    <3>1. i \in 1 .. Len(g) /\ j \in 1 .. Len(g)
      BY <1>1, <1>4, <2>2
    <3>2. QED
      BY <1>3, <1>4, <3>1
  <2>3. QED
    BY <2>1, <2>2
<1>10. QED
  BY <1>2, <1>3, <1>5, <1>6, <1>7, <1>8, <1>9 DEF Follows, w2, g2

LEMMA LimiterInit == Init => LimiterInv
BY SlidingWindowConstants DEF Init, LimiterInv, MutexInv, WindowsFollowGrants, Dropped

LEMMA MutexStep == TypeOK /\ MutexInv /\ [Next]_vars => MutexInv'
<1> SUFFICES ASSUME TypeOK, MutexInv, [Next]_vars PROVE MutexInv'
  OBVIOUS
<1> USE SlidingWindowConstants DEF MutexInv, TypeOK
<1>1. CASE Tick
  BY <1>1 DEF Tick
<1>2. ASSUME NEW c \in Clients, NEW k \in Keys, TryAcquire(c, k)
      PROVE  MutexInv'
  BY <1>2 DEF TryAcquire
<1>3. ASSUME NEW c \in Clients, Grant(c) \/ Refuse(c)
      PROVE  MutexInv'
  <2>1. mutex = c /\ mutex' = NoClient /\ \A d \in Clients : d # c => pc[d] # "cleaned"
    BY <1>3 DEF Grant, Refuse
  <2>2. /\ pc'[c] # "cleaned"
        /\ \A d \in Clients : d # c => pc'[d] = pc[d]
    BY <1>3 DEF Grant, Refuse
  <2>3. ASSUME NEW d \in Clients PROVE pc'[d] = "cleaned" <=> mutex' = d
    <3>1. mutex' # d
      BY <2>1
    <3>2. pc'[d] # "cleaned"
      BY <2>1, <2>2
    <3>3. QED
      BY <3>1, <3>2
  <2>4. QED
    BY <2>3
<1>4. ASSUME NEW c \in Clients, LoginFails(c) \/ LoginSucceeds(c)
      PROVE  MutexInv'
  BY <1>4 DEF LoginFails, LoginSucceeds
<1>5. ASSUME NEW c \in Clients, NEW status \in {200, 429}, GetInfo(c, status)
      PROVE  MutexInv'
  BY <1>5 DEF GetInfo
<1>6. CASE UNCHANGED vars
  BY <1>6 DEF vars
<1>7. QED
  BY <1>1, <1>2, <1>3, <1>4, <1>5, <1>6 DEF Next

LEMMA FollowsStep == TypeOK /\ WindowsFollowGrants /\ [Next]_vars => WindowsFollowGrants'
<1> SUFFICES ASSUME TypeOK, WindowsFollowGrants, [Next]_vars
             PROVE  WindowsFollowGrants'
  OBVIOUS
<1> SUFFICES ASSUME NEW k \in Keys PROVE Follows(k)'
  BY DEF WindowsFollowGrants, Follows
<1>f. Follows(k)
  BY WindowsFollowGrantsByKey
<1>u. ASSUME UNCHANGED <<now, windows, grants>> \/ UNCHANGED vars
      PROVE  Follows(k)'
  BY <1>u, <1>f DEF Follows, Dropped, vars
<1>o. ASSUME windows'[k] = windows[k], grants'[k] = grants[k], now' = now
      PROVE  Follows(k)'
  BY <1>o, <1>f DEF Follows, Dropped
<1>1. CASE Tick
  <2>1. windows' = windows /\ grants' = grants /\ now' = now + 1
    BY <1>1 DEF Tick
  <2>2. \A i \in 1 .. Dropped(k) : now + 1 - grants[k][i] > Window
    <3>1. SUFFICES ASSUME NEW i \in 1 .. Dropped(k)
                   PROVE  now + 1 - grants[k][i] > Window
      OBVIOUS
    <3>2. i \in 1 .. Len(grants[k]) /\ now \in Int /\ Window \in Nat
      BY <1>f, KeyTypes, SlidingWindowConstants DEF Follows, Dropped
    <3>3. grants[k][i] \in Int /\ now - grants[k][i] > Window
      BY <1>f, <3>2, KeyTypes DEF Follows
    <3>4. QED
      BY <3>2, <3>3
  <2>3. \A i \in 1 .. Len(grants[k]) : grants[k][i] <= now + 1
    <3>1. SUFFICES ASSUME NEW i \in 1 .. Len(grants[k])
                   PROVE  grants[k][i] <= now + 1
      OBVIOUS
    <3>2. grants[k][i] \in Int /\ grants[k][i] <= now /\ now \in Int
      BY <1>f, KeyTypes DEF Follows
    <3>3. QED
      BY <3>2
  <2>4. Dropped(k)' = Dropped(k) /\ windows'[k] = windows[k] /\ grants'[k] = grants[k]
    BY <2>1 DEF Dropped
  <2>5. /\ Dropped(k) \in Nat
        /\ \A i \in 1 .. Len(windows[k]) : windows[k][i] = grants[k][Dropped(k) + i]
        /\ \A i, j \in 1 .. Len(grants[k]) : i <= j => grants[k][i] <= grants[k][j]
    BY <1>f DEF Follows
  <2> HIDE DEF Dropped
  <2>6. /\ \A i \in 1 .. Dropped(k)' : now' - grants'[k][i] > Window
        /\ \A i \in 1 .. Len(grants'[k]) : grants'[k][i] <= now'
    <3>1. ASSUME NEW i \in 1 .. Dropped(k)' PROVE now' - grants'[k][i] > Window
      <4>1. i \in 1 .. Dropped(k)
        BY <2>4
      <4>2. now + 1 - grants[k][i] > Window
        BY <2>2, <4>1
      <4>3. now' = now + 1 /\ grants'[k][i] = grants[k][i]
        BY <2>1, <2>4
      <4>t. now \in Int /\ Window \in Int /\ grants[k][i] \in Int
        <5>1. i \in 1 .. Len(grants[k])
          BY <4>1, KeyTypes, <1>f DEF Follows, Dropped
        <5>2. QED
          BY <5>1, KeyTypes, SlidingWindowConstants
      <4>4. QED
        BY <4>2, <4>3, <4>t
    <3>2. ASSUME NEW i \in 1 .. Len(grants'[k]) PROVE grants'[k][i] <= now'
      BY <2>1, <2>3, <2>4
    <3>3. QED
      BY <3>1, <3>2
  <2>7. /\ Dropped(k)' \in Nat
        /\ \A i \in 1 .. Len(windows'[k]) : windows'[k][i] = grants'[k][Dropped(k)' + i]
        /\ \A i, j \in 1 .. Len(grants'[k]) : i <= j => grants'[k][i] <= grants'[k][j]
    BY <2>4, <2>5, Zenon
  <2>8. QED
    BY <2>6, <2>7, Zenon DEF Follows
<1>2. ASSUME NEW c \in Clients, NEW k2 \in Keys, TryAcquire(c, k2)
      PROVE  Follows(k)'
  <2>1. CASE k2 = k
    <3>1. /\ windows'[k] = CleanExpired(windows[k], now - Window)
          /\ grants'[k] = grants[k] /\ now' = now
      BY <1>2, <2>1 DEF TryAcquire, TypeOK
    <3>2. QED
      BY <3>1, <1>f, CleaningFollows
  <2>2. CASE k2 # k
    BY <1>2, <1>o, <2>2 DEF TryAcquire, TypeOK
  <2>3. QED
    BY <2>1, <2>2
<1>3. ASSUME NEW c \in Clients, Grant(c)
      PROVE  Follows(k)'
  <2>1. CASE key[c] = k
    <3>1. /\ windows'[k] = Append(windows[k], now)
          /\ grants'[k] = Append(grants[k], now) /\ now' = now
      BY <1>3, <2>1 DEF Grant, TypeOK
    <3>2. QED
      BY <3>1, <1>f, GrantFollows
  <2>2. CASE key[c] # k
    BY <1>3, <1>o, <2>2 DEF Grant, TypeOK
  <2>3. QED
    BY <2>1, <2>2
<1>4. ASSUME NEW c \in Clients, Refuse(c) \/ LoginFails(c) \/ LoginSucceeds(c)
      PROVE  Follows(k)'
  BY <1>4, <1>u DEF Refuse, LoginFails, LoginSucceeds
<1>5. ASSUME NEW c \in Clients, NEW status \in {200, 429}, GetInfo(c, status)
      PROVE  Follows(k)'
  <2>1. CASE key[c] = k
    <3>1. /\ windows'[k] = CleanExpired(windows[k], now - Window)
          /\ grants'[k] = grants[k] /\ now' = now
      BY <1>5, <2>1 DEF GetInfo, TypeOK
    <3>2. QED
      BY <3>1, <1>f, CleaningFollows
  <2>2. CASE key[c] # k
    BY <1>5, <1>o, <2>2 DEF GetInfo, TypeOK
  <2>3. QED
    BY <2>1, <2>2
<1>6. CASE UNCHANGED vars
  BY <1>6, <1>u
<1>7. QED
  BY <1>1, <1>2, <1>3, <1>4, <1>5, <1>6 DEF Next

\* In every reachable state each deque is the tail of its address's admissions,
\* everything before it has left the window, and the mutex protects the gap
\* between the two clock readings of TryAcquire.
THEOREM LimiterInvariant == Spec => []LimiterInv
<1>1. TypeOK /\ LimiterInv /\ [Next]_vars => LimiterInv'
  BY MutexStep, FollowsStep DEF LimiterInv
<1>2. QED
  BY <1>1, LimiterInit, TypeCorrect, PTL DEF Spec

-----------------------------------------------------------------------------
(* The limit *)

\* When the deque has room, the admission MaxRequests before the next one has
\* left the window.
LEMMA RoomMeansNotFull ==
    ASSUME TypeOK, NEW k \in Keys, Follows(k), Len(windows[k]) < MaxRequests,
           Len(grants[k]) - MaxRequests + 1 \in 1 .. Len(grants[k])
    PROVE  now - grants[k][Len(grants[k]) - MaxRequests + 1] > Window
<1>1. Len(windows[k]) \in Nat /\ Len(grants[k]) \in Nat
  BY KeyTypes
<1>2. Len(grants[k]) - MaxRequests + 1 \in 1 .. Dropped(k)
  <2> DEFINE n == Len(grants[k])
             m == Len(windows[k])
  <2>1. n \in Nat /\ m \in Nat /\ MaxRequests \in Nat /\ m < MaxRequests
        /\ n - MaxRequests + 1 >= 1 /\ Dropped(k) = n - m
    BY <1>1, SlidingWindowConstants DEF Dropped
  <2> HIDE DEF n, m
  <2>2. n - MaxRequests + 1 \in 1 .. n - m
    BY <2>1
  <2>3. QED
    BY <2>1, <2>2 DEF n
<1>3. QED
  BY <1>2 DEF Follows

LEMMA WindowLimitStep ==
    TypeOK /\ LimiterInv /\ WindowLimit /\ [Next]_vars => WindowLimit'
<1> SUFFICES ASSUME TypeOK, LimiterInv, WindowLimit, [Next]_vars
             PROVE  WindowLimit'
  OBVIOUS
<1>u. ASSUME grants' = grants PROVE WindowLimit'
  BY <1>u DEF WindowLimit
<1>1. ASSUME NEW c \in Clients, Grant(c) PROVE WindowLimit'
  <2> DEFINE h == key[c]
             n == Len(grants[h])
  <2>1. h \in Keys /\ n \in Nat /\ MaxRequests \in Nat \ {0} /\ now \in Time
    BY KeyTypes, SlidingWindowConstants DEF TypeOK
  <2>2. grants[h] \in Seq(Time)
    BY <2>1, KeyTypes
  <2>3. grants' = [grants EXCEPT ![h] = Append(grants[h], now)]
    BY <1>1 DEF Grant
  <2>4. /\ \A k \in Keys : k # h => grants'[k] = grants[k]
        /\ grants'[h] = Append(grants[h], now)
    BY <2>1, <2>3 DEF TypeOK
  <2>5. /\ Len(grants'[h]) = n + 1 /\ grants'[h][n + 1] = now
        /\ \A i \in 1 .. n : grants'[h][i] = grants[h][i]
    BY <2>1, <2>2, <2>4
  <2>6. n - MaxRequests + 1 \in 1 .. n => now - grants[h][n - MaxRequests + 1] > Window
    <3>1. Follows(h) /\ Len(windows[h]) < MaxRequests
      BY <1>1, <2>1, WindowsFollowGrantsByKey DEF LimiterInv, Grant
    <3>2. QED
      BY <3>1, <2>1, RoomMeansNotFull
  <2>7. \A i \in 1 .. n : i + MaxRequests \in 1 .. n =>
          grants[h][i + MaxRequests] - grants[h][i] > Window
    BY <2>1 DEF WindowLimit
  <2> HIDE DEF n, h
  <2>8. ASSUME NEW i \in 1 .. n + 1, i + MaxRequests \in 1 .. n + 1
        PROVE  grants'[h][i + MaxRequests] - grants'[h][i] > Window
    <3>1. CASE i + MaxRequests = n + 1
      <4>1. i = n - MaxRequests + 1 /\ i \in 1 .. n
        BY <2>1, <2>8, <3>1
      <4>2. grants'[h][i + MaxRequests] = now /\ grants'[h][i] = grants[h][i]
        BY <2>5, <3>1, <4>1
      <4>3. QED
        BY <2>6, <4>1, <4>2
    <3>2. CASE i + MaxRequests # n + 1
      <4>1. i \in 1 .. n /\ i + MaxRequests \in 1 .. n
        BY <2>1, <2>8, <3>2
      <4>2. /\ grants'[h][i + MaxRequests] = grants[h][i + MaxRequests]
            /\ grants'[h][i] = grants[h][i]
        BY <2>5, <4>1
      <4>3. QED
        BY <2>7, <4>1, <4>2
    <3>3. QED
      BY <3>1, <3>2
  <2>9. ASSUME NEW k \in Keys, NEW i \in 1 .. Len(grants'[k]),
               i + MaxRequests \in 1 .. Len(grants'[k])
        PROVE  grants'[k][i + MaxRequests] - grants'[k][i] > Window
    <3>1. CASE k = h
      BY <2>5, <2>8, <2>9, <3>1
    <3>2. CASE k # h
      BY <2>4, <2>9, <3>2 DEF WindowLimit
    <3>3. QED
      BY <3>1, <3>2
  <2>10. QED
    BY <2>9 DEF WindowLimit
<1>2. ASSUME [Next]_vars, ~\E c \in Clients : Grant(c) PROVE grants' = grants
  BY <1>2 DEF Next, Tick, TryAcquire, Refuse, LoginFails, LoginSucceeds, GetInfo, vars
<1>3. QED
  BY <1>1, <1>2, <1>u

\* No Window ticks hold more than MaxRequests admitted logins of an address, for
\* every number of coroutines, every limit and every window.
THEOREM WindowLimitHolds == Spec => []WindowLimit
<1>1. Init => WindowLimit
  BY SlidingWindowConstants DEF Init, WindowLimit
<1>2. QED
  BY <1>1, WindowLimitStep, TypeCorrect, LimiterInvariant, PTL DEF Spec

-----------------------------------------------------------------------------
(* The refinement of RateLimit *)

\* TryAcquire finds the deque full after cleaning it exactly when RateLimit finds
\* the window full at the same moment.
LEMMA FullWhenCleaned ==
    ASSUME TypeOK, NEW k \in Keys, Follows(k),
           Len(CleanExpired(windows[k], now - Window)) >= MaxRequests
    PROVE  Abstract!Full(k)
<1> DEFINE w == windows[k]
           g == grants[k]
           q == CleanExpired(w, now - Window)
           n == Len(g)
<1>1. /\ w \in Seq(Time) /\ Len(w) \in Nat /\ n \in Nat /\ now \in Int
      /\ now - Window \in Int /\ Time \in SUBSET Int /\ Len(w) <= MaxRequests
      /\ MaxRequests \in Nat \ {0} /\ Window \in Nat
      /\ \A i \in 1 .. n : g[i] \in Int
  BY KeyTypes, SlidingWindowConstants
<1>2. PICK d \in 0 .. Len(w) :
        /\ Len(q) = Len(w) - d
        /\ d < Len(w) => w[d + 1] >= now - Window
  BY <1>1, CleanExpiredDropsPrefix
<1>3. Len(q) >= MaxRequests
  OBVIOUS
<1>4. /\ n - Len(w) \in Nat
      /\ \A i \in 1 .. Len(w) : w[i] = g[(n - Len(w)) + i]
  BY DEF Follows, Dropped
<1> HIDE DEF w, q, n, g
<1>5. d = 0 /\ Len(w) = MaxRequests
  BY <1>1, <1>2, <1>3
<1>6. /\ n >= MaxRequests /\ n - MaxRequests + 1 \in 1 .. n
      /\ (n - Len(w)) + 1 = n - MaxRequests + 1 /\ 1 \in 1 .. Len(w)
  BY <1>1, <1>4, <1>5
<1>7. g[n - MaxRequests + 1] >= now - Window
  <2>1. w[1] >= now - Window
    BY <1>1, <1>2, <1>5
  <2>2. w[1] = g[n - MaxRequests + 1]
    BY <1>4, <1>6
  <2>3. QED
    BY <2>1, <2>2
<1>8. now - g[n - MaxRequests + 1] <= Window
  BY <1>1, <1>6, <1>7
<1>9. QED
  BY <1>6, <1>8 DEF Abstract!Full, n, g

\* When TryAcquire admits, at the second clock reading, RateLimit would too.
LEMMA NotFullWhenGranted ==
    ASSUME TypeOK, NEW k \in Keys, Follows(k), Len(windows[k]) < MaxRequests
    PROVE  ~Abstract!Full(k)
<1> DEFINE n == Len(grants[k])
           g == grants[k][n - MaxRequests + 1]
<1>1. n \in Nat /\ MaxRequests \in Nat \ {0}
  BY KeyTypes, SlidingWindowConstants
<1>2. SUFFICES ASSUME n >= MaxRequests, now - g <= Window
               PROVE  FALSE
  BY DEF Abstract!Full
<1>3. n - MaxRequests + 1 \in 1 .. n
  BY <1>1, <1>2
<1>4. now - g > Window
  BY <1>3, RoomMeansNotFull
<1>5. g \in Int /\ now \in Int /\ Window \in Int
  BY <1>3, KeyTypes, SlidingWindowConstants
<1> HIDE DEF g
<1>6. QED
  BY <1>2, <1>4, <1>5

Verdicts == [c \in Clients |-> Verdict(c)]

LEMMA RefinementInit == Init => Abstract!Init
BY SlidingWindowConstants DEF Init, Abstract!Init, Verdict

\* The verdict of every coroutine but the one that moves is left alone, because no
\* other coroutine is between the two halves of TryAcquire while it moves.
LEMMA OthersKeepTheirVerdict ==
    ASSUME TypeOK, NEW c \in Clients, NEW p, NEW k,
           pc' = [pc EXCEPT ![c] = p], key' = [key EXCEPT ![c] = k],
           \A d \in Clients : d # c => pc[d] # "cleaned"
    PROVE  Verdicts' = [Verdicts EXCEPT ![c] = Verdict(c)']
<1>1. \A d \in Clients : d # c => Verdict(d)' = Verdict(d)
  <2> SUFFICES ASSUME NEW d \in Clients, d # c PROVE Verdict(d)' = Verdict(d)
    OBVIOUS
  <2>1. pc'[d] = pc[d] /\ pc[d] # "cleaned"
    BY DEF TypeOK
  <2>2. QED
    BY <2>1 DEF Verdict
<1>2. QED
  BY <1>1 DEF Verdicts

LEMMA RefinementStep ==
    TypeOK /\ LimiterInv /\ [Next]_vars => [Abstract!Next]_(Abstract!rlVars)
<1> SUFFICES ASSUME TypeOK, LimiterInv, [Next]_vars
             PROVE  [Abstract!Next]_<<now, grants, Verdicts>>
  BY DEF Abstract!rlVars, Verdicts
<1>f. \A k \in Keys : Follows(k)
  BY WindowsFollowGrantsByKey DEF LimiterInv
<1>m. \A c \in Clients : pc[c] = "cleaned" <=> mutex = c
  BY DEF LimiterInv, MutexInv
<1>v. ASSUME NEW c \in Clients PROVE Verdicts[c] = Verdict(c)
  BY DEF Verdicts
<1>o. ASSUME NEW c \in Clients, NEW p, pc' = [pc EXCEPT ![c] = p], key' = key,
             \A d \in Clients : d # c => pc[d] # "cleaned"
      PROVE  Verdicts' = [Verdicts EXCEPT ![c] = Verdict(c)']
  <2>1. key' = [key EXCEPT ![c] = key[c]]
    BY <1>o DEF TypeOK
  <2>2. QED
    BY <1>o, <2>1, OthersKeepTheirVerdict
<1>1. CASE Tick
  <2>1. Verdicts' = Verdicts
    BY <1>1 DEF Tick, Verdicts, Verdict
  <2>2. Abstract!Tick
    BY <1>1, <2>1 DEF Tick, Abstract!Tick, Verdicts
  <2>3. QED
    BY <2>2 DEF Abstract!Next
<1>2. ASSUME NEW c \in Clients, NEW k \in Keys, TryAcquire(c, k)
      PROVE  [Abstract!Next]_<<now, grants, Verdicts>>
  <2> DEFINE q == CleanExpired(windows[k], now - Window)
  <2>1. \A d \in Clients : d # c => pc[d] # "cleaned"
    BY <1>2, <1>m, SlidingWindowConstants DEF TryAcquire
  <2>2. Verdicts' = [Verdicts EXCEPT ![c] = Verdict(c)']
    BY <1>2, <2>1, OthersKeepTheirVerdict DEF TryAcquire
  <2>3. pc'[c] = "cleaned" /\ key'[c] = k /\ windows'[k] = q
    BY <1>2 DEF TryAcquire, TypeOK
  <2>4. Verdict(c) = "none" /\ now' = now /\ grants' = grants
    BY <1>2 DEF TryAcquire, Verdict
  <2> HIDE DEF q
  <2>5. CASE Len(q) >= MaxRequests
    <3>1. Verdict(c)' = "refused"
      BY <2>3, <2>5 DEF Verdict
    <3>2. Abstract!Full(k)
      BY <1>f, <2>5, FullWhenCleaned DEF q
    <3>3. Abstract!Refuse(c, k)
      BY <2>2, <2>4, <3>1, <3>2, <1>v DEF Abstract!Refuse, Verdicts
    <3>4. QED
      BY <3>3 DEF Abstract!Next
  <2>6. CASE ~(Len(q) >= MaxRequests)
    <3>1. Verdict(c)' = "none"
      BY <2>3, <2>6 DEF Verdict
    <3>2. Verdicts' = Verdicts
      BY <2>2, <2>4, <3>1 DEF Verdicts
    <3>3. QED
      BY <2>4, <3>2
  <2>7. QED
    BY <2>5, <2>6
<1>3. ASSUME NEW c \in Clients, Grant(c)
      PROVE  [Abstract!Next]_<<now, grants, Verdicts>>
  <2>1. /\ key[c] \in Keys /\ mutex = c
        /\ pc[c] = "cleaned" /\ Len(windows[key[c]]) < MaxRequests
    BY <1>3, <1>m DEF Grant, TypeOK
  <2>2. \A d \in Clients : d # c => pc[d] # "cleaned"
    BY <2>1, <1>m
  <2>3. Verdicts' = [Verdicts EXCEPT ![c] = Verdict(c)']
    BY <1>3, <2>2, <1>o DEF Grant
  <2>4. ~(Len(windows[key[c]]) >= MaxRequests)
    BY <2>1, KeyTypes, SlidingWindowConstants
  <2>5. Verdict(c) = "none"
    BY <2>1, <2>4 DEF Verdict
  <2>6. Verdict(c)' = "granted"
    BY <1>3 DEF Grant, Verdict, TypeOK
  <2>7. ~Abstract!Full(key[c])
    BY <2>1, <1>f, NotFullWhenGranted
  <2>8. Abstract!Admit(c, key[c])
    BY <1>3, <1>v, <2>3, <2>5, <2>6, <2>7 DEF Grant, Abstract!Admit, Verdicts
  <2>9. QED
    BY <2>1, <2>8 DEF Abstract!Next
<1>4. ASSUME NEW c \in Clients, Refuse(c)
      PROVE  [Abstract!Next]_<<now, grants, Verdicts>>
  <2>1. mutex = c /\ \A d \in Clients : d # c => pc[d] # "cleaned"
    BY <1>4, <1>m DEF Refuse
  <2>2. Verdicts' = [Verdicts EXCEPT ![c] = Verdict(c)']
    BY <1>4, <2>1, <1>o DEF Refuse
  <2>3. Verdict(c) = "refused" /\ Verdict(c)' = "refused"
    BY <1>4 DEF Refuse, Verdict, TypeOK
  <2>4. Verdicts' = Verdicts
    BY <2>2, <2>3 DEF Verdicts
  <2>5. QED
    BY <1>4, <2>4 DEF Refuse
<1>5. ASSUME NEW c \in Clients, LoginSucceeds(c)
      PROVE  [Abstract!Next]_<<now, grants, Verdicts>>
  <2>1. \A d \in Clients : Verdict(d)' = Verdict(d)
    BY <1>5 DEF LoginSucceeds, Verdict, TypeOK
  <2>2. QED
    BY <1>5, <2>1 DEF LoginSucceeds, Verdicts
<1>6. ASSUME NEW c \in Clients, LoginFails(c)
      PROVE  [Abstract!Next]_<<now, grants, Verdicts>>
  <2>1. \A d \in Clients : d # c => Verdict(d)' = Verdict(d)
    BY <1>6 DEF LoginFails, Verdict, TypeOK
  <2>2. Verdict(c) = "granted" /\ Verdict(c)' = "none"
    BY <1>6 DEF LoginFails, Verdict, TypeOK
  <2>3. Verdicts' = [Verdicts EXCEPT ![c] = "none"]
    BY <2>1, <2>2 DEF Verdicts
  <2>4. Abstract!Forget(c)
    BY <1>6, <1>v, <2>2, <2>3 DEF LoginFails, Abstract!Forget, Verdicts
  <2>5. QED
    BY <2>4 DEF Abstract!Next
<1>7. ASSUME NEW c \in Clients, GetInfo(c, 200) \/ GetInfo(c, 429)
      PROVE  [Abstract!Next]_<<now, grants, Verdicts>>
  <2>1. \A d \in Clients : d # c => pc[d] # "cleaned"
    BY <1>7, <1>m, SlidingWindowConstants DEF GetInfo
  <2>2. Verdicts' = [Verdicts EXCEPT ![c] = Verdict(c)']
    BY <1>7, <2>1, <1>o DEF GetInfo
  <2>3. Verdict(c) # "none" /\ Verdict(c)' = "none"
    BY <1>7 DEF GetInfo, Verdict, TypeOK
  <2>4. Abstract!Forget(c)
    BY <1>7, <1>v, <2>2, <2>3 DEF GetInfo, Abstract!Forget, Verdicts
  <2>5. QED
    BY <2>4 DEF Abstract!Next
<1>8. CASE UNCHANGED vars
  BY <1>8 DEF vars, Verdicts, Verdict
<1>9. QED
  BY <1>1, <1>2, <1>3, <1>4, <1>5, <1>6, <1>7, <1>8 DEF Next

\* The limiter with its deques, its mutex and its two clock readings implements
\* RateLimit: every request is admitted or refused as the history demands.
THEOREM LimiterRefinesRateLimit == Spec => RefinesRateLimit
<1>1. Spec => [](TypeOK /\ LimiterInv)
  BY TypeCorrect, LimiterInvariant, PTL
<1>2. QED
  BY <1>1, RefinementInit, RefinementStep, PTL DEF Spec, RefinesRateLimit, Abstract!Spec

-----------------------------------------------------------------------------
(* What the headers tell the client *)

\* After cleaning, the deque holds exactly the admissions that are in the window:
\* the last Len(q) of the history.
LEMMA CleanedIsInWindow ==
    ASSUME TypeOK, NEW k \in Keys, Follows(k)
    PROVE  LET q == CleanExpired(windows[k], now - Window)
               n == Len(grants[k])
           IN  /\ Len(q) \in 0 .. n /\ Len(q) <= MaxRequests
               /\ InWindow(k) = (n - Len(q)) + 1 .. n
<1> DEFINE w == windows[k]
           g == grants[k]
           n == Len(g)
           q == CleanExpired(w, now - Window)
<1>1. /\ w \in Seq(Time) /\ Len(w) \in Nat /\ n \in Nat /\ now \in Int
      /\ now - Window \in Int /\ Time \in SUBSET Int /\ Len(w) <= MaxRequests
      /\ MaxRequests \in Nat /\ Window \in Nat
      /\ \A i \in 1 .. n : g[i] \in Int
      /\ \A i \in 1 .. Len(w) : w[i] \in Int
  BY KeyTypes, SlidingWindowConstants
<1>2. PICK d \in 0 .. Len(w) :
        /\ Len(q) = Len(w) - d
        /\ \A i \in 1 .. d : w[i] < now - Window
        /\ d < Len(w) => w[d + 1] >= now - Window
  BY <1>1, CleanExpiredDropsPrefix
<1>3. /\ n - Len(w) \in Nat
      /\ \A i \in 1 .. Len(w) : w[i] = g[(n - Len(w)) + i]
      /\ \A i \in 1 .. n - Len(w) : now - g[i] > Window
      /\ \A i, j \in 1 .. n : i <= j => g[i] <= g[j]
  BY DEF Follows, Dropped
<1>4. InWindow(k) = {i \in 1 .. n : now - g[i] <= Window}
  <2>1. g \in Seq(Time)
    BY KeyTypes
  <2>2. DOMAIN g = 1 .. n
    BY <2>1
  <2>3. QED
    BY <2>2 DEF InWindow
<1> HIDE DEF w, q, n, g
<1> DEFINE m == n - Len(q)
<1>5. /\ Len(q) \in Nat /\ Len(q) <= n /\ Len(q) <= MaxRequests
      /\ m = (n - Len(w)) + d /\ m \in Nat /\ m <= n
  BY <1>1, <1>2, <1>3
<1> HIDE DEF m
<1>6. ASSUME NEW i \in 1 .. n, i <= m PROVE now - g[i] > Window
  <2>1. CASE i <= n - Len(w)
    <3>1. i \in 1 .. n - Len(w)
      BY <1>1, <2>1
    <3>2. QED
      BY <1>3, <3>1
  <2>2. CASE ~(i <= n - Len(w))
    <3> DEFINE j == i - (n - Len(w))
    <3>1. j \in 1 .. d /\ j \in 1 .. Len(w) /\ i = (n - Len(w)) + j
      BY <1>1, <1>2, <1>3, <1>5, <1>6, <2>2
    <3> HIDE DEF j
    <3>2. w[j] = g[i] /\ w[j] < now - Window /\ g[i] \in Int
      BY <1>1, <1>2, <1>3, <3>1
    <3>3. QED
      BY <1>1, <3>2
  <2>3. QED
    BY <2>1, <2>2
<1>7. ASSUME NEW i \in 1 .. n, i > m PROVE now - g[i] <= Window
  <2>1. /\ d < Len(w) /\ d + 1 \in 1 .. Len(w)
        /\ m + 1 \in 1 .. n /\ m + 1 <= i /\ (n - Len(w)) + (d + 1) = m + 1
    BY <1>1, <1>2, <1>3, <1>5, <1>7
  <2>2. w[d + 1] >= now - Window /\ w[d + 1] = g[m + 1]
    BY <1>2, <1>3, <2>1
  <2>3. g[m + 1] <= g[i] /\ g[m + 1] \in Int /\ g[i] \in Int
    BY <1>1, <1>3, <2>1
  <2>4. QED
    BY <1>1, <2>2, <2>3
<1>8. InWindow(k) = m + 1 .. n
  <2>1. ASSUME NEW i \in 1 .. n PROVE now - g[i] <= Window <=> i > m
    <3>1. i \in Int /\ m \in Int /\ now - g[i] \in Int /\ Window \in Int
      BY <1>1, <1>5
    <3>2. CASE i > m
      BY <1>7, <3>2
    <3>3. CASE ~(i > m)
      <4>1. i <= m
        BY <3>1, <3>3
      <4>2. now - g[i] > Window
        BY <1>6, <4>1
      <4>3. QED
        BY <3>1, <3>3, <4>2
    <3>4. QED
      BY <3>2, <3>3
  <2>2. QED
    BY <1>1, <1>4, <1>5, <2>1
<1>9. QED
  BY <1>1, <1>5, <1>8 DEF m, n, g, q, w

\* Every answer with headers that a step gives comes from a GetInfo of that
\* coroutine.
LEMMA AnswersComeFromGetInfo ==
    ASSUME TypeOK, [Next]_vars, NEW c \in Clients,
           resp'[c] # resp[c], resp'[c].status # 0
    PROVE  GetInfo(c, 200) \/ GetInfo(c, 429)
<1>1. ASSUME NEW d \in Clients, NEW k \in Keys, TryAcquire(d, k) PROVE FALSE
  BY <1>1 DEF TryAcquire, TypeOK, NoResponse
<1>2. ASSUME NEW d \in Clients, NEW status \in {200, 429}, GetInfo(d, status)
      PROVE  d = c
  BY <1>2 DEF GetInfo, TypeOK
<1>3. QED
  BY <1>1, <1>2 DEF Next, Tick, Grant, Refuse, LoginFails, LoginSucceeds, vars

\* X-RateLimit-Remaining tells what is left of the limit at the moment GetInfo
\* reads it, for every number of coroutines, every limit and every window.
THEOREM RemainingIsHonest == Spec => RemainingHonest
<1> DEFINE Honest(c) ==
        resp'[c] # resp[c] /\ resp'[c].status # 0 =>
            resp'[c].remaining = MaxRequests - Cardinality(InWindow(key[c]))
<1>1. TypeOK /\ LimiterInv /\ [Next]_vars => \A c \in Clients : Honest(c)
  <2> SUFFICES ASSUME TypeOK, LimiterInv, [Next]_vars, NEW c \in Clients,
                      resp'[c] # resp[c], resp'[c].status # 0
               PROVE  resp'[c].remaining = MaxRequests - Cardinality(InWindow(key[c]))
    OBVIOUS
  <2> DEFINE k == key[c]
             q == CleanExpired(windows[k], now - Window)
             n == Len(grants[k])
  <2>1. k \in Keys /\ Follows(k)
    BY WindowsFollowGrantsByKey DEF TypeOK, LimiterInv
  <2>2. resp'[c].remaining = Remaining(q)
    BY AnswersComeFromGetInfo DEF GetInfo, TypeOK
  <2>3. /\ Len(q) \in 0 .. n /\ Len(q) <= MaxRequests
        /\ InWindow(k) = (n - Len(q)) + 1 .. n
    BY <2>1, CleanedIsInWindow
  <2>4. n \in Nat /\ MaxRequests \in Nat
    BY <2>1, KeyTypes, SlidingWindowConstants
  <2> HIDE DEF k, q, n
  <2>5. Cardinality(InWindow(k)) = Len(q)
    <3> DEFINE a == (n - Len(q)) + 1
    <3>1. /\ a \in Int /\ n \in Int
          /\ a > n => Len(q) = 0
          /\ ~(a > n) => Len(q) = n - a + 1
      BY <2>3, <2>4
    <3> HIDE DEF a
    <3>2. Cardinality(a .. n) = IF a > n THEN 0 ELSE n - a + 1
      BY <3>1, FS_Interval
    <3>3. QED
      BY <2>3, <3>1, <3>2 DEF a
  <2>6. Remaining(q) = MaxRequests - Len(q)
    BY <2>3, <2>4 DEF Remaining
  <2>7. QED
    BY <2>2, <2>5, <2>6 DEF k
<1>2. QED
  BY <1>1, TypeCorrect, LimiterInvariant, PTL DEF Spec, RemainingHonest

\* Every answer with headers names the whole window.
ResetIsWindow == \A c \in Clients : resp[c].status # 0 => resp[c].reset = Window

LEMMA ResetStep == TypeOK /\ ResetIsWindow /\ [Next]_vars => ResetIsWindow'
<1> SUFFICES ASSUME TypeOK, ResetIsWindow, [Next]_vars, NEW c \in Clients,
                    resp'[c].status # 0
             PROVE  resp'[c].reset = Window
  BY DEF ResetIsWindow
<1>1. CASE resp'[c] = resp[c]
  BY <1>1 DEF ResetIsWindow
<1>2. CASE resp'[c] # resp[c]
  <2>1. GetInfo(c, 200) \/ GetInfo(c, 429)
    BY <1>2, AnswersComeFromGetInfo
  <2>2. QED
    BY <2>1 DEF GetInfo, TypeOK
<1>3. QED
  BY <1>1, <1>2

LEMMA ResetInvariant == Spec => []ResetIsWindow
<1>1. Init => ResetIsWindow
  BY DEF Init, ResetIsWindow, NoResponse
<1>2. QED
  BY <1>1, ResetStep, TypeCorrect, PTL DEF Spec

\* A coroutine is between the two halves of TryAcquire only by its first half.
LEMMA OnlyTryAcquireCleans ==
    ASSUME TypeOK, [Next]_vars, NEW c \in Clients, pc[c] # "cleaned", pc'[c] = "cleaned"
    PROVE  \E k \in Keys : TryAcquire(c, k)
<1>1. ASSUME NEW d \in Clients, NEW k \in Keys, TryAcquire(d, k) PROVE d = c
  BY <1>1 DEF TryAcquire, TypeOK
<1>2. ASSUME NEW d \in Clients, Grant(d) \/ Refuse(d) PROVE FALSE
  BY <1>2 DEF Grant, Refuse, TypeOK
<1>3. ASSUME NEW d \in Clients, LoginFails(d) \/ LoginSucceeds(d) PROVE FALSE
  BY <1>3 DEF LoginFails, LoginSucceeds, TypeOK
<1>4. ASSUME NEW d \in Clients, NEW status \in {200, 429}, GetInfo(d, status) PROVE FALSE
  BY <1>4 DEF GetInfo, TypeOK
<1>5. pc' # pc
  OBVIOUS
<1>6. QED
  BY <1>1, <1>2, <1>3, <1>4, <1>5 DEF Next, Tick, vars

\* A client that waits as long as Retry-After says meets a full window only if
\* other requests of its address were admitted since its refusal.
THEOREM RetryAfterIsEnough == Spec => RetryAfterSuffices
<1> DEFINE Enough(c, d) ==
        /\ pc[c] # "cleaned" /\ pc'[c] = "cleaned"
        /\ Len(windows'[key'[c]]) >= MaxRequests
        /\ resp[d].status = 429 /\ key[d] = key'[c]
        /\ now > resp[d].at + resp[d].reset
        => \E i \in DOMAIN grants[key'[c]] : grants[key'[c]][i] > resp[d].at
<1>1. TypeOK /\ LimiterInv /\ ResetIsWindow /\ [Next]_vars
        => \A c, d \in Clients : Enough(c, d)
  <2> SUFFICES ASSUME TypeOK, LimiterInv, ResetIsWindow, [Next]_vars,
                      NEW c \in Clients, NEW d \in Clients,
                      pc[c] # "cleaned", pc'[c] = "cleaned",
                      Len(windows'[key'[c]]) >= MaxRequests,
                      resp[d].status = 429, key[d] = key'[c],
                      now > resp[d].at + resp[d].reset
               PROVE  \E i \in DOMAIN grants[key'[c]] : grants[key'[c]][i] > resp[d].at
    OBVIOUS
  <2>1. PICK k \in Keys : TryAcquire(c, k)
    BY OnlyTryAcquireCleans
  <2> DEFINE q == CleanExpired(windows[k], now - Window)
             n == Len(grants[k])
  <2>2. key'[c] = k /\ windows'[k] = q /\ Follows(k)
    BY <2>1, WindowsFollowGrantsByKey DEF TryAcquire, TypeOK, LimiterInv
  <2>3. resp[d].reset = Window /\ resp[d].at \in Int
    <3>1. resp[d].at \in Time
      BY DEF TypeOK
    <3>2. QED
      BY <3>1, SlidingWindowConstants DEF ResetIsWindow, Time
  <2>4. /\ Len(q) \in 0 .. n /\ InWindow(k) = (n - Len(q)) + 1 .. n
        /\ n \in Nat /\ now \in Int /\ Window \in Nat /\ MaxRequests \in Nat \ {0}
        /\ \A i \in 1 .. n : grants[k][i] \in Int
    <3>1. Len(q) \in 0 .. n /\ InWindow(k) = (n - Len(q)) + 1 .. n
      BY <2>2, CleanedIsInWindow
    <3>2. n \in Nat /\ now \in Int /\ \A i \in 1 .. n : grants[k][i] \in Int
      BY KeyTypes
    <3>3. QED
      BY <3>1, <3>2, SlidingWindowConstants
  <2>5. Len(q) >= MaxRequests
    BY <2>2
  <2> HIDE DEF q, n
  <2>6. n \in 1 .. n /\ n \in InWindow(k)
    BY <2>4, <2>5
  <2>7. n \in DOMAIN grants[k] /\ now - grants[k][n] <= Window
    BY <2>6 DEF InWindow
  <2>8. grants[k][n] > resp[d].at
    BY <2>3, <2>4, <2>6, <2>7
  <2>9. QED
    BY <2>2, <2>7, <2>8
<1>2. QED
  BY <1>1, TypeCorrect, LimiterInvariant, ResetInvariant, PTL
     DEF Spec, RetryAfterSuffices
=============================================================================
