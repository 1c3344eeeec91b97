--------------------------- MODULE UserSearchProofs ---------------------------
(***************************************************************************)
(* Proofs about UserSearch: that the recursion of ILIKE defines what it     *)
(* means to, for every text and pattern; that the patterns which            *)
(* MakeLikePattern makes find the texts with the mask in them; and what     *)
(* that means for the users a search answers with.                          *)
(*                                                                          *)
(* Induction over the length of a pattern is an argument about sets: a set  *)
(* of naturals that has 0 and with each number the next one has them all.   *)
(***************************************************************************)
EXTENDS UserSearch, AccountsProofs, NaturalsInduction, WellFoundedInduction

\* Induction, as a fact about a set.
LEMMA InductiveSet ==
    ASSUME NEW S, 0 \in S, \A n \in Nat : n \in S => n + 1 \in S
    PROVE  Nat \subseteq S
<1> DEFINE Missing == Nat \ S
<1> SUFFICES ASSUME Missing # {} PROVE FALSE
  OBVIOUS
<1>1. Missing \subseteq Nat
  OBVIOUS
<1> HIDE DEF Missing
<1>2. PICK n \in Missing : \A j \in Missing : <<j, n>> \notin OpToRel(<, Nat)
  BY <1>1, NatLessThanWellFounded, WFMin
<1>3. \A j \in Missing : ~(j < n)
  BY <1>1, <1>2 DEF OpToRel
<1>4. n \in Nat /\ n \notin S
  BY <1>2 DEF Missing
<1>5. n # 0
  BY <1>4
<1>6. n - 1 \in Nat /\ n - 1 < n
  BY <1>4, <1>5
<1>7. n - 1 \in S
  BY <1>3, <1>6 DEF Missing
<1>8. n - 1 + 1 \in S /\ n - 1 + 1 = n
  BY <1>4, <1>7
<1>9. QED
  BY <1>4, <1>6, <1>7, <1>8

\* The same up to a bound, starting anywhere.
LEMMA InductionUpTo ==
    ASSUME NEW a \in Int, NEW b \in Int, NEW S, a \in S,
           \A i \in a .. b - 1 : i \in S => i + 1 \in S
    PROVE  a .. b \subseteq S
<1> DEFINE T == {n \in Nat : a + n <= b => a + n \in S}
<1>1. 0 \in T
  OBVIOUS
<1>2. ASSUME NEW n \in Nat, n \in T PROVE n + 1 \in T
  <2>1. CASE a + (n + 1) <= b
    <3>1. a + n \in a .. b - 1 /\ a + n <= b /\ (a + n) + 1 = a + (n + 1)
      BY <2>1
    <3>2. a + n \in S
      BY <1>2, <3>1
    <3>3. a + (n + 1) \in S
      BY <3>1, <3>2
    <3>4. QED
      BY <3>3
  <2>2. CASE ~(a + (n + 1) <= b)
    BY <2>2
  <2>3. QED
    BY <2>1, <2>2
<1>3. Nat \subseteq T
  <2> HIDE DEF T
  <2>1. QED
    BY <1>1, <1>2, InductiveSet
<1>4. ASSUME NEW i \in a .. b PROVE i \in S
  <2>1. i - a \in Nat /\ a + (i - a) = i /\ i <= b
    OBVIOUS
  <2>2. i - a \in T
    BY <1>3, <2>1
  <2>3. QED
    BY <2>1, <2>2
<1>5. QED
  BY <1>4

\* The same downwards.
LEMMA InductionDownTo ==
    ASSUME NEW a \in Int, NEW b \in Int, NEW S, b \in S,
           \A i \in a .. b - 1 : i + 1 \in S => i \in S
    PROVE  a .. b \subseteq S
<1> DEFINE T == {n \in Nat : b - n >= a => b - n \in S}
<1>1. 0 \in T
  OBVIOUS
<1>2. ASSUME NEW n \in Nat, n \in T PROVE n + 1 \in T
  <2>1. CASE b - (n + 1) >= a
    <3>1. /\ b - (n + 1) \in a .. b - 1 /\ b - n >= a
          /\ (b - (n + 1)) + 1 = b - n
      BY <2>1
    <3>2. b - n \in S
      BY <1>2, <3>1
    <3>3. b - (n + 1) \in S
      BY <3>1, <3>2
    <3>4. QED
      BY <3>3
  <2>2. CASE ~(b - (n + 1) >= a)
    BY <2>2
  <2>3. QED
    BY <2>1, <2>2
<1>3. Nat \subseteq T
  <2> HIDE DEF T
  <2>1. QED
    BY <1>1, <1>2, InductiveSet
<1>4. ASSUME NEW i \in a .. b PROVE i \in S
  <2>1. b - i \in Nat /\ b - (b - i) = i /\ i >= a
    OBVIOUS
  <2>2. b - i \in T
    BY <1>3, <2>1
  <2>3. QED
    BY <2>1, <2>2
<1>5. QED
  BY <1>4

-----------------------------------------------------------------------------
(* The recursion of ILIKE *)

\* LikePlaces looks at the next two entries only.
LEMMA PlacesDependOnNext ==
    ASSUME NEW text \in Texts, NEW C, NEW pattern \in Seq(C), NEW i \in 1 .. Len(pattern) + 1,
           NEW f, NEW g,
           i <= Len(pattern) => f[i + 1] = g[i + 1],
           i < Len(pattern) => f[i + 2] = g[i + 2]
    PROVE  LikePlaces(text, pattern, i, f) = LikePlaces(text, pattern, i, g)
<1>1. Len(pattern) \in Nat
  OBVIOUS
<1>2. CASE i > Len(pattern)
  BY <1>2 DEF LikePlaces
<1>3. CASE ~(i > Len(pattern))
  <2>1. f[i + 1] = g[i + 1]
    BY <1>1, <1>3
  <2>2. CASE pattern[i] = "\\"
    <3>1. ASSUME i < Len(pattern) PROVE f[i + 2] = g[i + 2]
      BY <3>1
    <3>2. QED
      BY <1>3, <2>2, <3>1 DEF LikePlaces
  <2>3. CASE pattern[i] # "\\"
    BY <1>3, <2>1, <2>3 DEF LikePlaces
  <2>4. QED
    BY <2>2, <2>3
<1>4. QED
  BY <1>2, <1>3

\* There is a function that the recursion of ILike describes, so ILike means it.
LEMMA PlacesExist ==
    ASSUME NEW text \in Texts, NEW C, NEW pattern \in Seq(C)
    PROVE  \E f : f = [i \in 1 .. Len(pattern) + 1 |-> LikePlaces(text, pattern, i, f)]
<1> DEFINE m == Len(pattern)
           Right(f, i) == f[i] = LikePlaces(text, pattern, i, f)
           From(a) == \E f : \A i \in a .. m + 1 : Right(f, i)
           S == {a \in 1 .. m + 1 : From(a)}
<1>1. m \in Nat /\ m + 1 \in 1 .. m + 1
  OBVIOUS
<1>2. m + 1 \in S
  <2> DEFINE f == [i \in 1 .. m + 1 |-> {Len(text) + 1}]
  <2>1. LikePlaces(text, pattern, m + 1, f) = {Len(text) + 1}
    <3> HIDE DEF f
    <3>1. m + 1 > Len(pattern)
      BY <1>1
    <3>2. QED
      BY <3>1 DEF LikePlaces
  <2>2. f[m + 1] = {Len(text) + 1}
    BY <1>1
  <2>3. Right(f, m + 1)
    BY <2>1, <2>2
  <2>4. \A i \in m + 1 .. m + 1 : i = m + 1
    BY <1>1
  <2> HIDE DEF f, Right
  <2>5. From(m + 1)
    BY <2>3, <2>4
  <2>6. QED
    BY <1>1, <2>5
<1>3. ASSUME NEW a \in 1 .. (m + 1) - 1, a + 1 \in S PROVE a \in S
  <2>1. PICK f : \A i \in a + 1 .. m + 1 : Right(f, i)
    BY <1>3
  <2> DEFINE v == LikePlaces(text, pattern, a, f)
             g == [i \in 1 .. m + 1 |-> IF i = a THEN v ELSE f[i]]
  <2>2. ASSUME NEW i \in a .. m + 1 PROVE Right(g, i)
    <3>1. /\ i \in 1 .. m + 1 /\ i <= m => i + 1 \in a + 1 .. m + 1 /\ i + 1 \in 1 .. m + 1
          /\ i < m => i + 2 \in a + 1 .. m + 1 /\ i + 2 \in 1 .. m + 1
      BY <1>1
    <3>2. /\ i <= m => f[i + 1] = g[i + 1]
          /\ i < m => f[i + 2] = g[i + 2]
      BY <1>1, <3>1
    <3>3. LikePlaces(text, pattern, i, f) = LikePlaces(text, pattern, i, g)
      <4> HIDE DEF g
      <4>1. i \in 1 .. Len(pattern) + 1
        BY <3>1
      <4>2. QED
        BY <3>2, <4>1, PlacesDependOnNext
    <3>4. CASE i = a
      <4>1. g[i] = v
        BY <3>1, <3>4
      <4>2. QED
        BY <3>3, <3>4, <4>1
    <3>5. CASE i # a
      <4>1. g[i] = f[i]
        BY <3>1, <3>5
      <4>2. Right(f, i)
        BY <1>1, <2>1, <3>5
      <4> HIDE DEF g
      <4>3. QED
        BY <3>3, <4>1, <4>2
    <3>6. QED
      BY <3>4, <3>5
  <2>3. a \in 1 .. m + 1
    BY <1>1
  <2> HIDE DEF g, Right
  <2>4. From(a)
    BY <2>2
  <2>5. QED
    BY <2>3, <2>4
<1>4. 1 \in S
  <2> HIDE DEF S
  <2>0. 1 \in Int /\ m + 1 \in Int
    BY <1>1
  <2>00. \A i \in 1 .. (m + 1) - 1 : i + 1 \in S => i \in S
    BY <1>3
  <2> HIDE DEF m
  <2>1. 1 .. m + 1 \subseteq S
    BY <2>0, <2>00, <1>2, InductionDownTo
  <2>2. 1 \in 1 .. m + 1
    BY <1>1
  <2>3. QED
    BY <2>1, <2>2
<1>5. PICK f : \A i \in 1 .. m + 1 : Right(f, i)
  BY <1>4
<1> DEFINE g == [i \in 1 .. m + 1 |-> f[i]]
<1>6. ASSUME NEW i \in 1 .. m + 1
      PROVE  f[i] = LikePlaces(text, pattern, i, g)
  <2>1. /\ i <= m => i + 1 \in 1 .. m + 1
        /\ i < m => i + 2 \in 1 .. m + 1
    BY <1>1
  <2>2. /\ i <= m => f[i + 1] = g[i + 1]
        /\ i < m => f[i + 2] = g[i + 2]
    BY <2>1
  <2>3. i \in 1 .. Len(pattern) + 1
    OBVIOUS
  <2> HIDE DEF g
  <2>4. LikePlaces(text, pattern, i, f) = LikePlaces(text, pattern, i, g)
    BY <2>2, <2>3, PlacesDependOnNext
  <2>5. QED
    BY <1>5, <2>4
<1> DEFINE h == [i \in 1 .. m + 1 |-> LikePlaces(text, pattern, i, g)]
<1>7. g = h
  BY <1>6
<1>8. g = [i \in 1 .. Len(pattern) + 1 |-> LikePlaces(text, pattern, i, g)]
  BY <1>7
<1>9. QED
  BY <1>8

\* What ILike evaluates: the places of such a function.
LEMMA ILikeHasPlaces ==
    ASSUME NEW text \in Texts, NEW C, NEW pattern \in Seq(C)
    PROVE  \E p : /\ \A i \in 1 .. Len(pattern) + 1 : p[i] = LikePlaces(text, pattern, i, p)
                  /\ ILike(text, pattern) <=> 1 \in p[1]
<1> DEFINE p == CHOOSE f : f = [i \in 1 .. Len(pattern) + 1 |-> LikePlaces(text, pattern, i, f)]
<1>0. \E f : f = [i \in 1 .. Len(pattern) + 1 |-> LikePlaces(text, pattern, i, f)]
  BY PlacesExist
<1>1. p = [i \in 1 .. Len(pattern) + 1 |-> LikePlaces(text, pattern, i, p)]
  BY <1>0, Zenon
<1>2. ILike(text, pattern) <=> 1 \in p[1]
  BY DEF ILike
<1> HIDE DEF p
<1>3. QED
  BY <1>1, <1>2

\* The pattern of a mask that is not empty: the mask between two %.
LEMMA PatternOfMask ==
    ASSUME NEW mask \in Texts, mask # <<>>
    PROVE  /\ MakeLikePattern(mask) \in Seq(DOMAIN Lower \cup {"%"})
           /\ Len(mask) \in Nat
           /\ Len(MakeLikePattern(mask)) = Len(mask) + 2
           /\ MakeLikePattern(mask)[1] = "%"
           /\ MakeLikePattern(mask)[Len(mask) + 2] = "%"
           /\ \A i \in 2 .. Len(mask) + 1 : MakeLikePattern(mask)[i] = mask[i - 1]
<1> DEFINE C == DOMAIN Lower \cup {"%"}
           front == <<"%">> \o mask
           pattern == front \o <<"%">>
<1>1. /\ mask \in Seq(C) /\ <<"%">> \in Seq(C)
      /\ Len(mask) \in Nat /\ Len(<<"%">>) = 1 /\ <<"%">>[1] = "%"
  BY DEF Texts
<1> HIDE DEF C
<1>2. /\ front \in Seq(C) /\ Len(front) = Len(mask) + 1
      /\ front[1] = "%"
      /\ \A i \in 2 .. Len(mask) + 1 : front[i] = mask[i - 1]
  BY <1>1
<1> HIDE DEF front
<1>3. /\ pattern \in Seq(C) /\ Len(pattern) = Len(mask) + 2
      /\ \A i \in 1 .. Len(mask) + 1 : pattern[i] = front[i]
      /\ pattern[Len(mask) + 2] = "%"
  BY <1>1, <1>2
<1>4. MakeLikePattern(mask) = pattern
  BY DEF MakeLikePattern, front
<1> HIDE DEF pattern
<1>5. /\ pattern[1] = "%"
      /\ \A i \in 2 .. Len(mask) + 1 : pattern[i] = mask[i - 1]
  BY <1>1, <1>2, <1>3
<1>6. QED
  BY <1>1, <1>3, <1>4, <1>5 DEF C

\* What a mask finds when it is empty: everything, and everything has it in it.
LEMMA EmptyMask ==
    ASSUME NEW text \in Texts
    PROVE  ILike(text, MakeLikePattern(<<>>)) /\ Contains(text, <<>>)
<1> DEFINE pattern == <<"%">>
<1>1. /\ pattern \in Seq({"%"}) /\ Len(pattern) = 1 /\ pattern[1] = "%"
      /\ Len(text) \in Nat /\ Len(<<>>) = 0
  BY DEF Texts
<1>2. MakeLikePattern(<<>>) = pattern
  BY DEF MakeLikePattern
<1> HIDE DEF pattern
<1>3. PICK p : /\ \A i \in 1 .. Len(pattern) + 1 : p[i] = LikePlaces(text, pattern, i, p)
               /\ ILike(text, pattern) <=> 1 \in p[1]
  BY <1>1, ILikeHasPlaces
<1>4. p[2] = {Len(text) + 1}
  <2>1. 2 \in 1 .. Len(pattern) + 1 /\ 2 > Len(pattern)
    BY <1>1
  <2>2. LikePlaces(text, pattern, 2, p) = {Len(text) + 1}
    BY <2>1 DEF LikePlaces
  <2>3. QED
    BY <1>3, <2>1, <2>2
<1>5. 1 \in LikePlaces(text, pattern, 1, p)
  <2>1. /\ Len(text) + 1 \in p[1 + 1] /\ 1 \in 1 .. Len(text) + 1 /\ 1 <= Len(text) + 1
        /\ ~(1 > Len(pattern)) /\ pattern[1] = "%"
    BY <1>1, <1>4
  <2>2. \E k \in p[1 + 1] : 1 <= k
    BY <2>1
  <2>3. QED
    BY <2>1, <2>2 DEF LikePlaces
<1>6. ILike(text, pattern)
  BY <1>1, <1>3, <1>5
<1>7. Contains(text, <<>>)
  BY <1>1 DEF Contains
<1>8. QED
  BY <1>2, <1>6, <1>7

\* A text that has the mask in it is found, whatever the mask, as long as no character of it
\* is the one that quotes: % and _ take any character, themselves included.
THEOREM PatternFindsContaining ==
    ASSUME NEW text \in Texts, NEW mask \in Texts,
           \A i \in 1 .. Len(mask) : mask[i] # "\\",
           Contains(text, mask)
    PROVE  ILike(text, MakeLikePattern(mask))
<1>1. CASE mask = <<>>
  BY <1>1, EmptyMask
<1>2. CASE mask # <<>>
  <2> DEFINE pattern == MakeLikePattern(mask)
             m == Len(mask)
             n == Len(text)
  <2>1. /\ pattern \in Seq(DOMAIN Lower \cup {"%"}) /\ Len(pattern) = m + 2
        /\ pattern[1] = "%" /\ pattern[m + 2] = "%"
        /\ \A i \in 2 .. m + 1 : pattern[i] = mask[i - 1]
        /\ m \in Nat
    BY <1>2, PatternOfMask
  <2>2. n \in Nat
    BY DEF Texts
  <2> HIDE DEF pattern
  <2>3. PICK p : /\ \A i \in 1 .. Len(pattern) + 1 : p[i] = LikePlaces(text, pattern, i, p)
                 /\ ILike(text, pattern) <=> 1 \in p[1]
    BY <2>1, ILikeHasPlaces
  <2>4. PICK k \in 0 .. n - m : \A i \in 1 .. m : Same(text[k + i], mask[i])
    BY DEF Contains
  <2> DEFINE S == {i \in 2 .. m + 2 : k + i - 1 \in p[i]}
  <2>5. m + 2 \in S
    <3>1. m + 3 \in 1 .. Len(pattern) + 1 /\ m + 3 > Len(pattern)
      BY <2>1
    <3>2. p[m + 3] = {n + 1}
      BY <2>3, <3>1 DEF LikePlaces
    <3>3. m + 2 \in 1 .. Len(pattern) + 1 /\ ~(m + 2 > Len(pattern)) /\ (m + 2) + 1 = m + 3
      BY <2>1
    <3>4. k + (m + 2) - 1 \in 1 .. n + 1 /\ k + (m + 2) - 1 <= n + 1
      BY <2>1, <2>2, <2>4
    <3>5. k + (m + 2) - 1 \in LikePlaces(text, pattern, m + 2, p)
      BY <2>1, <3>2, <3>3, <3>4 DEF LikePlaces
    <3>6. QED
      BY <2>1, <2>3, <3>3, <3>5
  <2>6. ASSUME NEW i \in 2 .. (m + 2) - 1, i + 1 \in S PROVE i \in S
    <3> DEFINE j == k + i - 1
    <3>1. /\ i \in 1 .. Len(pattern) + 1 /\ ~(i > Len(pattern)) /\ i \in 2 .. m + 2
          /\ i \in 2 .. m + 1 /\ i - 1 \in 1 .. m
      BY <2>1
    <3>2. /\ j \in 1 .. n + 1 /\ j <= n /\ j <= j + 1
          /\ k + (i - 1) = j /\ k + (i + 1) - 1 = j + 1
      BY <2>1, <2>2, <2>4
    <3>3. j + 1 \in p[i + 1]
      BY <2>6, <3>2
    <3>4. pattern[i] = mask[i - 1] /\ pattern[i] # "\\" /\ Same(text[j], pattern[i])
      BY <2>1, <2>4, <3>1, <3>2
    <3> HIDE DEF j
    <3>5. j \in LikePlaces(text, pattern, i, p)
      BY <3>1, <3>2, <3>3, <3>4 DEF LikePlaces, Wildcards
    <3>6. j \in p[i]
      BY <2>3, <3>1, <3>5
    <3>7. QED
      BY <3>1, <3>6 DEF j
  <2>7. 2 \in S
    <3>1. 2 \in Int /\ m + 2 \in Int /\ 2 \in 2 .. m + 2
      BY <2>1
    <3>2. \A i \in 2 .. (m + 2) - 1 : i + 1 \in S => i \in S
      BY <2>6
    <3> HIDE DEF S, m
    <3>3. 2 .. m + 2 \subseteq S
      BY <2>5, <3>1, <3>2, InductionDownTo
    <3>4. QED
      BY <3>1, <3>3
  <2>8. k + 1 \in p[2] /\ 1 <= k + 1
    BY <2>2, <2>4, <2>7
  <2>9. 1 \in LikePlaces(text, pattern, 1, p)
    BY <2>1, <2>2, <2>8 DEF LikePlaces
  <2>10. QED
    BY <2>1, <2>3, <2>9 DEF pattern
<1>3. QED
  BY <1>1, <1>2

\* A text that is found has the mask in it, when no character of the mask means more than itself.
THEOREM PatternFindsOnlyContaining ==
    ASSUME NEW text \in Texts, NEW mask \in Texts,
           \A i \in 1 .. Len(mask) : mask[i] \notin Wildcards,
           ILike(text, MakeLikePattern(mask))
    PROVE  Contains(text, mask)
<1>1. CASE mask = <<>>
  BY <1>1, EmptyMask
<1>2. CASE mask # <<>>
  <2> DEFINE pattern == MakeLikePattern(mask)
             m == Len(mask)
             n == Len(text)
  <2>1. /\ pattern \in Seq(DOMAIN Lower \cup {"%"}) /\ Len(pattern) = m + 2
        /\ pattern[1] = "%" /\ pattern[m + 2] = "%"
        /\ \A i \in 2 .. m + 1 : pattern[i] = mask[i - 1]
        /\ m \in Nat
    BY <1>2, PatternOfMask
  <2>2. n \in Nat
    BY DEF Texts
  <2> HIDE DEF pattern
  <2>3. PICK p : /\ \A i \in 1 .. Len(pattern) + 1 : p[i] = LikePlaces(text, pattern, i, p)
                 /\ ILike(text, pattern) <=> 1 \in p[1]
    BY <2>1, ILikeHasPlaces
  <2>4. 1 \in LikePlaces(text, pattern, 1, p)
    BY <2>1, <2>3 DEF pattern
  <2>5. PICK j0 \in p[2] : 1 <= j0
    <3>1. ~(1 > Len(pattern)) /\ 1 + 1 = 2
      BY <2>1
    <3>2. "%" \in Wildcards /\ "%" # "_" /\ "%" # "\\"
      BY DEF Wildcards
    <3>3. \E j \in p[1 + 1] : 1 <= j
      BY <2>1, <2>4, <3>1, <3>2 DEF LikePlaces
    <3>4. QED
      BY <3>1, <3>3
  <2>6. \A i \in 1 .. m + 2 : p[i] \subseteq 1 .. n + 1
    <3>1. ASSUME NEW i \in 1 .. m + 2 PROVE p[i] \subseteq 1 .. n + 1
      <4>1. i \in 1 .. Len(pattern) + 1 /\ ~(i > Len(pattern))
        BY <2>1
      <4>2. LikePlaces(text, pattern, i, p) \subseteq 1 .. n + 1
        BY <4>1 DEF LikePlaces
      <4>3. QED
        BY <2>3, <4>1, <4>2
    <3>2. QED
      BY <3>1
  <2>7. j0 \in 1 .. n + 1
    BY <2>1, <2>5, <2>6
  <2> DEFINE S == {i \in 2 .. m + 2 : j0 + i - 2 \in p[i]}
  <2>8. 2 \in S
    BY <2>1, <2>5, <2>7
  <2>9. ASSUME NEW i \in 2 .. (m + 2) - 1, i \in S
        PROVE  i + 1 \in S /\ Same(text[j0 + i - 2], mask[i - 1])
    <3> DEFINE j == j0 + i - 2
    <3>1. /\ i \in 1 .. Len(pattern) + 1 /\ ~(i > Len(pattern))
          /\ i + 1 \in 2 .. m + 2 /\ i \in 2 .. m + 1 /\ i - 1 \in 1 .. m
          /\ j + 1 = j0 + (i + 1) - 2
      BY <2>1, <2>7
    <3>2. pattern[i] = mask[i - 1] /\ pattern[i] \notin Wildcards
      BY <2>1, <3>1
    <3>3. j \in LikePlaces(text, pattern, i, p)
      BY <2>3, <2>9, <3>1
    <3> HIDE DEF j
    <3>4. j + 1 \in p[i + 1] /\ Same(text[j], pattern[i])
      BY <3>1, <3>2, <3>3 DEF LikePlaces, Wildcards
    <3>5. QED
      BY <3>1, <3>2, <3>4 DEF j
  <2>10. 2 .. m + 2 \subseteq S
    <3>1. 2 \in Int /\ m + 2 \in Int
      BY <2>1
    <3>2. \A i \in 2 .. (m + 2) - 1 : i \in S => i + 1 \in S
      BY <2>9
    <3> HIDE DEF S, m
    <3>3. QED
      BY <2>8, <3>1, <3>2, InductionUpTo
  <2> DEFINE k == j0 - 1
  <2>11. k \in 0 .. n - m
    <3>1. m + 2 \in 2 .. m + 2 /\ m + 2 \in 1 .. m + 2
      BY <2>1
    <3>2. j0 + (m + 2) - 2 \in p[m + 2]
      BY <2>10, <3>1
    <3>3. j0 + (m + 2) - 2 \in 1 .. n + 1
      BY <2>6, <3>1, <3>2
    <3>4. QED
      BY <2>1, <2>2, <2>7, <3>3
  <2>12. ASSUME NEW i \in 1 .. m PROVE Same(text[k + i], mask[i])
    <3>1. /\ i + 1 \in 2 .. (m + 2) - 1 /\ i + 1 \in 2 .. m + 2
          /\ j0 + (i + 1) - 2 = k + i /\ (i + 1) - 1 = i
      BY <2>1, <2>7
    <3>2. i + 1 \in S
      BY <2>10, <3>1
    <3> HIDE DEF S, k
    <3>3. Same(text[j0 + (i + 1) - 2], mask[(i + 1) - 1])
      BY <2>9, <3>1, <3>2
    <3>4. QED
      BY <3>1, <3>3
  <2> HIDE DEF k
  <2>13. QED
    BY <2>11, <2>12 DEF Contains
<1>3. QED
  BY <1>1, <1>2

-----------------------------------------------------------------------------
(* The searches *)

\* The masks of a request and the columns it looks at are texts, and Special counts every
\* special character of a mask.
LEMMA MasksOfQueries ==
    ASSUME NEW q \in Queries, NEW mask \in {q.login, q.first_name, q.last_name}
    PROVE  /\ mask \in Texts
           /\ Special[q] = {} => \A i \in 1 .. Len(mask) : mask[i] \notin Wildcards
           /\ "\\" \notin Special[q] => \A i \in 1 .. Len(mask) : mask[i] # "\\"
<1>1. mask \in Texts
  BY SearchConstants
<1>2. DOMAIN mask = 1 .. Len(mask)
  BY <1>1 DEF Texts
<1>3. \A i \in 1 .. Len(mask) : mask[i] \in CharactersOf(q)
  BY <1>2 DEF CharactersOf
<1>4. Special[q] = CharactersOf(q) \cap Wildcards
  BY DEF Special
<1>5. "\\" \in Wildcards
  BY DEF Wildcards
<1>6. QED
  BY <1>1, <1>3, <1>4, <1>5

\* The users a request selects are those the client means when its masks have no special
\* character, and all of those, and perhaps others, when none of them is a backslash.
LEMMA SelectedAreWanted ==
    ASSUME NEW q \in Queries
    PROVE  /\ Special[q] = {} => Selected[q] \subseteq Wanted[q]
           /\ "\\" \notin Special[q] => Wanted[q] \subseteq Selected[q]
<1> DEFINE Means(u) == IF q.login # <<>> THEN Contains(LoginOf[u], q.login)
                       ELSE /\ Contains(FirstNameOf[u], q.first_name)
                            /\ Contains(LastNameOf[u], q.last_name)
<1>1. /\ Selected[q] = {u \in Registrations : Selects(q, u)}
      /\ Wanted[q] = {u \in Registrations : Means(u)}
  BY DEF Selected, Wanted
<1>2. /\ q.login \in {q.login, q.first_name, q.last_name}
      /\ q.first_name \in {q.login, q.first_name, q.last_name}
      /\ q.last_name \in {q.login, q.first_name, q.last_name}
  OBVIOUS
<1>3. ASSUME NEW u \in Registrations, Special[q] = {}, Selects(q, u) PROVE Means(u)
  <2>1. LoginOf[u] \in Texts /\ FirstNameOf[u] \in Texts /\ LastNameOf[u] \in Texts
    BY SearchConstants
  <2>2. \A mask \in {q.login, q.first_name, q.last_name} : \A text \in Texts :
           ILike(text, MakeLikePattern(mask)) => Contains(text, mask)
    BY <1>3, MasksOfQueries, PatternFindsOnlyContaining
  <2>3. QED
    BY <1>2, <1>3, <2>1, <2>2 DEF Selects
<1>4. ASSUME NEW u \in Registrations, "\\" \notin Special[q], Means(u) PROVE Selects(q, u)
  <2>1. LoginOf[u] \in Texts /\ FirstNameOf[u] \in Texts /\ LastNameOf[u] \in Texts
    BY SearchConstants
  <2>2. \A mask \in {q.login, q.first_name, q.last_name} : \A text \in Texts :
           Contains(text, mask) => ILike(text, MakeLikePattern(mask))
    BY <1>4, MasksOfQueries, PatternFindsContaining
  <2>3. QED
    BY <1>2, <1>4, <2>1, <2>2 DEF Selects
<1> HIDE DEF Means
<1>5. QED
  BY <1>1, <1>3, <1>4

\* In every state a search answers with users whose registration is committed; they are the
\* ones the client means when its masks have no special character; and it leaves one of those
\* out only when the limit is reached, the host is behind, or a mask has a backslash in it.
THEOREM SearchFindsUsers == Spec => []SearchFinds
<1>1. TypeOK => SearchFinds
  <2> SUFFICES ASSUME TypeOK, NEW q \in Queries, NEW n \in Positions, Asks(q),
                      NEW answer \in Search(q, RowsUpTo(n))
               PROVE  LET wanted == RowsUpTo(n) \cap Wanted[q] IN
                      /\ answer \subseteq Rows
                      /\ Special[q] = {} => answer \subseteq wanted
                      /\ "\\" \notin Special[q] =>
                           wanted \subseteq answer \/ Cardinality(answer) = SearchLimit
    BY DEF SearchFinds
  <2> DEFINE hits == RowsUpTo(n) \cap Selected[q]
  <2>1. answer = hits \/ (answer \subseteq hits /\ Cardinality(answer) = SearchLimit)
    BY DEF Search
  <2>2. RowsUpTo(n) \subseteq Rows
    BY RowsAreRegistrations
  <2>3. QED
    BY <2>1, <2>2, SelectedAreWanted
<1>2. QED
  BY <1>1, TypeCorrect, PTL
=============================================================================
