-------------------------- MODULE ProjectCacheProofs --------------------------
(***************************************************************************)
(* Proofs about ProjectCache: the types, what an acknowledged project may   *)
(* rely on, why the list may be stale, and what its LIMIT cuts off.         *)
(***************************************************************************)
EXTENDS ProjectCache, FiniteSetTheorems, SequenceTheorems, WellFoundedInduction, TLAPS

\* The entry of the cache, seen as one value rather than as a map.
Entry == cache[ListKey]
EntryType == {Nothing} \cup [value : ListValue, left : 0 .. Ttl]

-----------------------------------------------------------------------------
(* The cache operations on the one key of this module *)

LEMMA CacheIsOneEntry ==
    ASSUME TypeOK
    PROVE  /\ Entry \in EntryType
           /\ cache = [k \in {ListKey} |-> Entry]
BY DEF TypeOK, Entry, EntryType

LEMMA DropEmpties ==
    ASSUME TypeOK
    PROVE  Drop(cache, {ListKey}) = [k \in {ListKey} |-> Nothing]
BY CacheIsOneEntry DEF Drop, TypeOK

LEMMA PutStores ==
    ASSUME TypeOK, NEW v
    PROVE  Put(cache, ListKey, v, Ttl)
             = [k \in {ListKey} |-> [value |-> v, left |-> Ttl]]
BY CacheIsOneEntry DEF Put, TypeOK

LEMMA AgedKeepsOrEmpties ==
    ASSUME TypeOK
    PROVE  \/ Aged(cache) = [k \in {ListKey} |-> Nothing]
           \/ /\ Entry # Nothing
              /\ Aged(cache) = [k \in {ListKey} |->
                                  [value |-> Entry.value, left |-> Entry.left - 1]]
              /\ [value |-> Entry.value, left |-> Entry.left - 1] \in EntryType
<1>1. CASE Entry = Nothing \/ Entry.left = 0
  BY <1>1, CacheIsOneEntry DEF Aged, Entry, TypeOK
<1>2. CASE ~(Entry = Nothing \/ Entry.left = 0)
  <2>1. Aged(cache) = [k \in {ListKey} |->
                         [value |-> Entry.value, left |-> Entry.left - 1]]
    BY <1>2, CacheIsOneEntry DEF Aged, Entry, TypeOK
  <2>2. Entry \in [value : ListValue, left : 0 .. Ttl] /\ Entry.left # 0
    BY <1>2, CacheIsOneEntry DEF EntryType
  <2>3. Entry.left - 1 \in 0 .. Ttl
    BY <2>2, ProjectCacheConstants
  <2>4. QED
    BY <1>2, <2>1, <2>2, <2>3 DEF EntryType
<1>3. QED
  BY <1>1, <1>2

-----------------------------------------------------------------------------
(* The rows of the master *)

LEMMA RowsAreProjects ==
    ASSUME TypeOK, NEW n \in 0 .. Len(commits)
    PROVE  RowsUpTo(n) \subseteq Rows /\ Rows \subseteq Projects
BY DEF TypeOK, RowsUpTo, Rows

\* A committed insert adds its row and nothing else.
LEMMA CommitAddsRow ==
    ASSUME TypeOK, NEW p \in Projects, Commit(p)
    PROVE  /\ commits' \in Seq(Projects) /\ Len(commits') = Len(commits) + 1
           /\ \A i \in 1 .. Len(commits) : commits'[i] = commits[i]
           /\ commits'[Len(commits) + 1] = p
           /\ Rows' = Rows \cup {p}
<1>1. /\ commits' \in Seq(Projects) /\ Len(commits') = Len(commits) + 1
      /\ \A i \in 1 .. Len(commits) : commits'[i] = commits[i]
      /\ commits'[Len(commits) + 1] = p
      /\ Len(commits) \in Nat
  BY DEF TypeOK, Commit
<1>2. Rows' = {commits'[i] : i \in 1 .. Len(commits) + 1}
  BY <1>1 DEF Rows, RowsUpTo
<1>3. 1 .. Len(commits) + 1 = (1 .. Len(commits)) \cup {Len(commits) + 1}
  BY <1>1
<1>4. QED
  BY <1>1, <1>2, <1>3 DEF Rows, RowsUpTo

LEMMA PositionIsInLog ==
    ASSUME TypeOK, NEW n \in Positions
    PROVE  n \in 0 .. Len(commits) /\ n \in applied .. Len(commits)
<1>1. applied \in 0 .. Len(commits) /\ Len(commits) \in Nat
  BY DEF TypeOK
<1>2. QED
  BY <1>1 DEF Positions

-----------------------------------------------------------------------------
(* Type correctness *)

\* The part of TypeOK about the log of the master.
LogOK ==
    /\ commits \in Seq(Projects)
    /\ \A i, j \in 1 .. Len(commits) : commits[i] = commits[j] => i = j
    /\ applied \in 0 .. Len(commits)

LEMMA CommitKeepsLog ==
    ASSUME TypeOK, NEW p \in Projects, ~KeyTaken(p), Commit(p), applied' = applied
    PROVE  LogOK'
<1>1. p \notin Rows
  BY DEF KeyTaken
<1>2. \A i \in 1 .. Len(commits) : commits[i] # p
  BY <1>1 DEF Rows, RowsUpTo
<1>3. /\ commits' \in Seq(Projects) /\ Len(commits') = Len(commits) + 1
      /\ \A i \in 1 .. Len(commits) : commits'[i] = commits[i]
      /\ commits'[Len(commits) + 1] = p
      /\ Len(commits) \in Nat /\ applied \in 0 .. Len(commits)
      /\ \A i, j \in 1 .. Len(commits) : commits[i] = commits[j] => i = j
  <2>1. /\ commits' \in Seq(Projects) /\ Len(commits') = Len(commits) + 1
        /\ \A i \in 1 .. Len(commits) : commits'[i] = commits[i]
        /\ commits'[Len(commits) + 1] = p
    BY CommitAddsRow DEF TypeOK
  <2>2. /\ Len(commits) \in Nat /\ applied \in 0 .. Len(commits)
        /\ \A i, j \in 1 .. Len(commits) : commits[i] = commits[j] => i = j
    BY DEF TypeOK
  <2>3. QED
    BY <2>1, <2>2
<1>4. ASSUME NEW i \in 1 .. Len(commits'), NEW j \in 1 .. Len(commits'),
             commits'[i] = commits'[j]
      PROVE  i = j
  <2>1. CASE i = Len(commits) + 1 /\ j # Len(commits) + 1
    BY <1>2, <1>3, <1>4, <2>1
  <2>2. CASE j = Len(commits) + 1 /\ i # Len(commits) + 1
    BY <1>2, <1>3, <1>4, <2>2
  <2>3. CASE i # Len(commits) + 1 /\ j # Len(commits) + 1
    <3>1. i \in 1 .. Len(commits) /\ j \in 1 .. Len(commits)
      BY <1>3, <2>3
    <3>2. QED
      BY <1>3, <1>4, <3>1
  <2>4. QED
    BY <2>1, <2>2, <2>3
<1>5. applied' \in 0 .. Len(commits')
  BY <1>3
<1>6. QED
  BY <1>3, <1>4, <1>5 DEF LogOK

LEMMA TypeInit == Init => TypeOK
BY DEF Init, TypeOK, EmptyMap, Waiting

LEMMA TypeStep == TypeOK /\ [Next]_vars => TypeOK'
<1> SUFFICES ASSUME TypeOK, [Next]_vars PROVE TypeOK'
  OBVIOUS
<1> USE DEF TypeOK, Waiting, Ended
<1>e. [k \in {ListKey} |-> Nothing]
        \in [{ListKey} -> {Nothing} \cup [value : ListValue, left : 0 .. Ttl]]
  OBVIOUS
<1>b. ASSUME NEW p \in Projects, Begin(p) PROVE TypeOK'
  <2>1. Rows \subseteq Projects
    <3>1. 0 \in 0 .. Len(commits)
      OBVIOUS
    <3>2. QED
      BY <3>1, RowsAreProjects
  <2>2. QED
    BY <1>b, <2>1 DEF Begin
<1>1. ASSUME NEW p \in Projects, Insert(p) PROVE TypeOK'
  <2>1. LogOK'
    BY <1>1, CommitKeepsLog DEF Insert
  <2>2. QED
    BY <1>1, <2>1 DEF Insert, LogOK
<1>2. ASSUME NEW p \in Projects, InsertConflicts(p) PROVE TypeOK'
  BY <1>2 DEF InsertConflicts
<1>3. ASSUME NEW p \in Projects, InsertFails(p) PROVE TypeOK'
  <2>1. CASE UNCHANGED commits
    BY <1>3, <2>1 DEF InsertFails
  <2>2. CASE ~KeyTaken(p) /\ Commit(p)
    <3>1. LogOK'
      BY <1>3, <2>2, CommitKeepsLog DEF InsertFails
    <3>2. QED
      BY <1>3, <3>1 DEF InsertFails, LogOK
  <2>3. QED
    BY <1>3, <2>1, <2>2 DEF InsertFails
<1>4. ASSUME NEW p \in Projects, Invalidate(p) PROVE TypeOK'
  <2>1. cache' = [k \in {ListKey} |-> Nothing]
    BY <1>4, DropEmpties DEF Invalidate
  <2>2. excused' \in [Readers -> SUBSET Projects]
    BY <1>4 DEF Invalidate
  <2>3. QED
    BY <1>4, <1>e, <2>1, <2>2 DEF Invalidate
<1>5. ASSUME NEW p \in Projects, Publish(p) PROVE TypeOK'
  BY <1>5 DEF Publish
<1>6. ASSUME NEW r \in Readers, Miss(r) \/ QueryFails(r) PROVE TypeOK'
  BY <1>6 DEF Miss, QueryFails
<1>7. ASSUME NEW r \in Readers, Query(r) PROVE TypeOK'
  <2>1. PICK n \in Positions :
          /\ snap' = [snap EXCEPT ![r] = GetAllProjects(RowsUpTo(n))]
          /\ excused' = [excused EXCEPT ![r] =
                          (Rows \ RowsUpTo(n)) \cup (RowsUpTo(n) \ Newest(RowsUpTo(n)))]
    BY <1>7 DEF Query
  <2>2. RowsUpTo(n) \subseteq Rows /\ Rows \subseteq Projects
    BY PositionIsInLog, RowsAreProjects
  <2>3. GetAllProjects(RowsUpTo(n)) \subseteq RowsUpTo(n)
    BY DEF GetAllProjects, Newest
  <2>4. (Rows \ RowsUpTo(n)) \cup (RowsUpTo(n) \ Newest(RowsUpTo(n))) \subseteq Projects
    BY <2>2
  <2>5. snap' \in [Readers -> SUBSET Projects] /\ excused' \in [Readers -> SUBSET Projects]
    BY <2>1, <2>2, <2>3, <2>4
  <2>6. QED
    BY <1>7, <2>5 DEF Query
<1>8. ASSUME NEW r \in Readers, Fill(r) PROVE TypeOK'
  <2> DEFINE v == [rows |-> snap[r], excused |-> excused[r]]
  <2>1. v \in ListValue
    BY DEF ListValue
  <2>2. cache' = [k \in {ListKey} |-> [value |-> v, left |-> Ttl]]
    BY <1>8, PutStores DEF Fill
  <2> HIDE DEF v
  <2>3. [value |-> v, left |-> Ttl] \in [value : ListValue, left : 0 .. Ttl]
    BY <2>1, ProjectCacheConstants
  <2>4. cache' \in [{ListKey} -> {Nothing} \cup [value : ListValue, left : 0 .. Ttl]]
    BY <2>2, <2>3
  <2>5. QED
    BY <1>8, <2>4 DEF Fill
<1>9. CASE Tick
  <2>1. cache' \in [{ListKey} -> {Nothing} \cup [value : ListValue, left : 0 .. Ttl]]
    BY <1>9, <1>e, AgedKeepsOrEmpties DEF Tick, EntryType
  <2>2. QED
    BY <1>9, <2>1 DEF Tick
<1>10. CASE Replicate
  BY <1>10 DEF Replicate
<1>11. CASE Restart
  BY <1>11, <1>e DEF Restart, EmptyMap
<1>12. CASE UNCHANGED vars
  BY <1>12 DEF vars
<1>13. QED
  BY <1>b, <1>1, <1>2, <1>3, <1>4, <1>5, <1>6, <1>7, <1>8, <1>9, <1>10, <1>11, <1>12
     DEF Next, CreateStep, ListStep

\* The variables keep their types and no project is committed twice, for every set
\* of projects, requests, keys and limits.
THEOREM TypeCorrect == Spec => []TypeOK
BY TypeInit, TypeStep, PTL DEF Spec

-----------------------------------------------------------------------------
(* What an answer 201 and an event promise *)

LEMMA AcknowledgedStep ==
    TypeOK /\ AcknowledgedIsCommitted /\ [Next]_vars => AcknowledgedIsCommitted'
<1> SUFFICES ASSUME TypeOK, AcknowledgedIsCommitted, [Next]_vars
             PROVE  AcknowledgedIsCommitted'
  OBVIOUS
<1> USE DEF AcknowledgedIsCommitted
<1>r. ASSUME UNCHANGED commits PROVE Rows' = Rows
  BY <1>r DEF Rows, RowsUpTo
<1>t. wpc \in [Projects -> Waiting \cup Ended]
  BY DEF TypeOK
<1>b. ASSUME NEW p \in Projects, Begin(p) PROVE AcknowledgedIsCommitted'
  BY <1>b, <1>r, <1>t DEF Begin
<1>1. ASSUME NEW p \in Projects, Insert(p) PROVE AcknowledgedIsCommitted'
  <2>1. Rows' = Rows \cup {p}
    BY <1>1, CommitAddsRow DEF Insert
  <2>2. QED
    BY <1>1, <1>t, <2>1 DEF Insert
<1>2. ASSUME NEW p \in Projects, InsertConflicts(p) PROVE AcknowledgedIsCommitted'
  BY <1>2, <1>r, <1>t DEF InsertConflicts
<1>3. ASSUME NEW p \in Projects, InsertFails(p) PROVE AcknowledgedIsCommitted'
  <2>1. Rows \subseteq Rows'
    BY <1>3, <1>r, CommitAddsRow DEF InsertFails
  <2>2. QED
    BY <1>3, <1>t, <2>1 DEF InsertFails
<1>4. ASSUME NEW p \in Projects, Invalidate(p) PROVE AcknowledgedIsCommitted'
  BY <1>4, <1>r, <1>t DEF Invalidate
<1>5. ASSUME NEW p \in Projects, Publish(p) PROVE AcknowledgedIsCommitted'
  BY <1>5, <1>r, <1>t DEF Publish
<1>6. ASSUME NEW r \in Readers, ListStep(r) PROVE AcknowledgedIsCommitted'
  BY <1>6, <1>r DEF ListStep, Miss, Query, QueryFails, Fill
<1>7. CASE Tick \/ Replicate
  BY <1>7, <1>r DEF Tick, Replicate
<1>8. CASE Restart
  BY <1>8, <1>r, <1>t DEF Restart
<1>9. CASE UNCHANGED vars
  BY <1>9, <1>r DEF vars
<1>10. QED
  BY <1>b, <1>1, <1>2, <1>3, <1>4, <1>5, <1>6, <1>7, <1>8, <1>9 DEF Next, CreateStep

\* Whoever is told 201, and whoever receives ProjectCreated, can rely on the row.
THEOREM AcknowledgedProjectIsCommitted == Spec => []AcknowledgedIsCommitted
<1>1. Init => AcknowledgedIsCommitted
  BY DEF Init, AcknowledgedIsCommitted
<1>2. QED
  BY <1>1, AcknowledgedStep, TypeCorrect, PTL DEF Spec

-----------------------------------------------------------------------------
(* Why the list may be stale *)

LEMMA StaleStep ==
    TypeOK /\ AcknowledgedIsCommitted /\ StaleOnlyIfExcused /\ [Next]_vars
        => StaleOnlyIfExcused'
<1> SUFFICES ASSUME TypeOK, AcknowledgedIsCommitted, StaleOnlyIfExcused, [Next]_vars
             PROVE  StaleOnlyIfExcused'
  OBVIOUS
<1> USE DEF StaleOnlyIfExcused
<1>t. /\ wpc \in [Projects -> Waiting \cup Ended]
      /\ rpc \in [Readers -> {"idle", "query", "fill"}]
      /\ snap \in [Readers -> SUBSET Projects]
      /\ excused \in [Readers -> SUBSET Projects]
  BY DEF TypeOK
<1>e. ListKey \in {ListKey}
  OBVIOUS
<1>1. ASSUME NEW p \in Projects,
             Begin(p) \/ Insert(p) \/ InsertConflicts(p) \/ InsertFails(p)
      PROVE  StaleOnlyIfExcused'
  <2>1. Invalidated' = Invalidated
    BY <1>1, <1>t DEF Begin, Insert, InsertConflicts, InsertFails, Invalidated
  <2>2. UNCHANGED <<cache, rpc, snap, excused>>
    BY <1>1 DEF Begin, Insert, InsertConflicts, InsertFails
  <2>3. QED
    BY <2>1, <2>2
<1>2. ASSUME NEW p \in Projects, Invalidate(p) PROVE StaleOnlyIfExcused'
  <2>1. Invalidated' = Invalidated \cup {p}
    BY <1>2, <1>t DEF Invalidate, Invalidated
  <2>2. cache'[ListKey] = Nothing
    BY <1>2, <1>e, DropEmpties DEF Invalidate
  <2>3. \A r \in Readers : rpc[r] = "fill" =>
           excused[r] \cup ({p} \ snap[r]) \subseteq excused'[r]
    BY <1>2 DEF Invalidate
  <2>4. UNCHANGED <<rpc, snap>>
    BY <1>2 DEF Invalidate
  <2>5. QED
    BY <2>1, <2>2, <2>3, <2>4
<1>3. ASSUME NEW p \in Projects, Publish(p) PROVE StaleOnlyIfExcused'
  <2>1. Invalidated' = Invalidated
    BY <1>3, <1>t DEF Publish, Invalidated
  <2>2. QED
    BY <1>3, <2>1 DEF Publish
<1>4. ASSUME NEW r \in Readers, Miss(r) \/ QueryFails(r) PROVE StaleOnlyIfExcused'
  <2>1. Invalidated' = Invalidated /\ UNCHANGED <<cache, snap, excused>>
    BY <1>4 DEF Miss, QueryFails, Invalidated
  <2>2. \A s \in Readers : rpc'[s] = "fill" => rpc[s] = "fill"
    BY <1>4, <1>t DEF Miss, QueryFails
  <2>3. QED
    BY <2>1, <2>2
<1>5. ASSUME NEW r \in Readers, Query(r) PROVE StaleOnlyIfExcused'
  <2>1. Invalidated' = Invalidated /\ UNCHANGED cache
    BY <1>5 DEF Query, Invalidated
  <2>2. Invalidated \subseteq Rows
    BY DEF AcknowledgedIsCommitted, Invalidated
  <2>3. PICK n \in Positions :
          /\ snap' = [snap EXCEPT ![r] = GetAllProjects(RowsUpTo(n))]
          /\ excused' = [excused EXCEPT ![r] =
                          (Rows \ RowsUpTo(n)) \cup (RowsUpTo(n) \ Newest(RowsUpTo(n)))]
    BY <1>5 DEF Query
  <2>4. /\ snap'[r] = Newest(RowsUpTo(n))
        /\ excused'[r] = (Rows \ RowsUpTo(n)) \cup (RowsUpTo(n) \ Newest(RowsUpTo(n)))
    BY <1>t, <2>3 DEF GetAllProjects
  <2>5. Invalidated \ snap'[r] \subseteq excused'[r]
    BY <2>2, <2>4
  <2>6. \A s \in Readers : s # r =>
           rpc'[s] = rpc[s] /\ snap'[s] = snap[s] /\ excused'[s] = excused[s]
    BY <1>5, <1>t, <2>3 DEF Query
  <2>7. QED
    BY <2>1, <2>5, <2>6
<1>6. ASSUME NEW r \in Readers, Fill(r) PROVE StaleOnlyIfExcused'
  <2> DEFINE v == [rows |-> snap[r], excused |-> excused[r]]
  <2>1. Invalidated' = Invalidated
    BY <1>6 DEF Fill, Invalidated
  <2>2. cache' = [k \in {ListKey} |-> [value |-> v, left |-> Ttl]]
    BY <1>6, PutStores DEF Fill
  <2>3. cache'[ListKey].value = v
    BY <2>2
  <2>4. Invalidated \ v.rows \subseteq v.excused
    BY <1>6 DEF Fill
  <2>5. \A s \in Readers : rpc'[s] = "fill" =>
           rpc[s] = "fill" /\ snap'[s] = snap[s] /\ excused'[s] = excused[s]
    BY <1>6, <1>t DEF Fill
  <2> HIDE DEF v
  <2>6. QED
    BY <2>1, <2>3, <2>4, <2>5
<1>7. CASE Tick
  <2>1. Invalidated' = Invalidated /\ UNCHANGED <<rpc, snap, excused>>
    BY <1>7 DEF Tick, Invalidated
  <2>2. cache'[ListKey] = Nothing
          \/ (cache[ListKey] # Nothing /\ cache'[ListKey].value = cache[ListKey].value)
    BY <1>7, <1>e, AgedKeepsOrEmpties DEF Tick, Entry
  <2>3. QED
    BY <2>1, <2>2
<1>8. CASE Replicate
  BY <1>8 DEF Replicate, Invalidated
<1>9. CASE Restart
  <2>1. cache'[ListKey] = Nothing /\ \A r \in Readers : rpc'[r] = "idle"
    BY <1>9, <1>e DEF Restart, EmptyMap
  <2>2. QED
    BY <2>1
<1>10. CASE UNCHANGED vars
  BY <1>10 DEF vars, Invalidated
<1>11. QED
  BY <1>1, <1>2, <1>3, <1>4, <1>5, <1>6, <1>7, <1>8, <1>9, <1>10
     DEF Next, CreateStep, ListStep

\* The list misses an invalidated project only if its rows were read before the
\* invalidation, from a standby that lagged, or are cut off by the LIMIT, for every
\* number of requests however they interleave, fail or are cut short by a restart.
THEOREM StaleListIsExcused == Spec => []StaleOnlyIfExcused
<1>1. Init => StaleOnlyIfExcused
  BY DEF Init, StaleOnlyIfExcused, EmptyMap
<1>2. QED
  BY <1>1, StaleStep, TypeCorrect, AcknowledgedProjectIsCommitted, PTL DEF Spec

-----------------------------------------------------------------------------
(* What the LIMIT cuts off *)

\* The requests that have taken their created_at.
Begun == {p \in Projects : wpc[p] # "new"}

\* created_at follows the order in which requests begin, rows come from requests that
\* have begun, and so what was there when a request began has an earlier created_at.
BeforeInv ==
    /\ \A p \in Begun, q \in Projects : CreatedAt[q] < CreatedAt[p] => q \in Begun
    /\ Rows \subseteq Begun
    /\ \A p \in Projects : \A q \in before[p] : CreatedAt[q] < CreatedAt[p]

LEMMA BeforeInit == Init => BeforeInv
BY DEF Init, BeforeInv, Begun, Rows, RowsUpTo

LEMMA BeforeStep == TypeOK /\ BeforeInv /\ [Next]_vars => BeforeInv'
<1> SUFFICES ASSUME TypeOK, BeforeInv, [Next]_vars PROVE BeforeInv'
  OBVIOUS
<1>t. /\ wpc \in [Projects -> Waiting \cup Ended]
      /\ before \in [Projects -> SUBSET Projects]
      /\ Rows \subseteq Projects
  <2>1. 0 \in 0 .. Len(commits)
    BY DEF TypeOK
  <2>2. QED
    BY <2>1, RowsAreProjects DEF TypeOK
<1>r. ASSUME UNCHANGED commits PROVE Rows' = Rows
  BY <1>r DEF Rows, RowsUpTo
<1>1. ASSUME NEW p \in Projects, Begin(p) PROVE BeforeInv'
  <2>1. Begun' = Begun \cup {p} /\ p \notin Begun /\ Rows' = Rows
    BY <1>1, <1>r, <1>t DEF Begin, Begun
  <2>2. before'[p] = Rows /\ \A q \in Projects : q # p => before'[q] = before[q]
    BY <1>1, <1>t DEF Begin
  <2>3. \A q \in Projects : CreatedAt[q] < CreatedAt[p] => q \in Begun
    BY <1>1 DEF Begin, Begun
  <2>4. ASSUME NEW q \in Rows PROVE CreatedAt[q] < CreatedAt[p]
    <3>1. q \in Begun /\ q \in Projects /\ q # p
      BY <1>t, <2>1, <2>4 DEF BeforeInv
    <3>2. ~(CreatedAt[p] < CreatedAt[q])
      BY <2>1, <3>1 DEF BeforeInv
    <3>3. CreatedAt[p] \in Nat /\ CreatedAt[q] \in Nat /\ CreatedAt[p] # CreatedAt[q]
      BY <3>1, ProjectCacheConstants
    <3>4. QED
      BY <3>2, <3>3
  <2>5. QED
    BY <2>1, <2>2, <2>3, <2>4 DEF BeforeInv
<1>2. ASSUME Begun' = Begun, UNCHANGED before, Rows' \subseteq Begun PROVE BeforeInv'
  BY <1>2 DEF BeforeInv
<1>3. ASSUME NEW p \in Projects, Insert(p) \/ InsertConflicts(p) \/ InsertFails(p)
      PROVE  BeforeInv'
  <2>1. Begun' = Begun /\ p \in Begun /\ UNCHANGED before
    BY <1>3, <1>t DEF Insert, InsertConflicts, InsertFails, Begun
  <2>2. Rows' \subseteq Rows \cup {p}
    BY <1>3, <1>r, CommitAddsRow DEF Insert, InsertConflicts, InsertFails
  <2>3. QED
    BY <1>2, <2>1, <2>2 DEF BeforeInv
<1>4. ASSUME NEW p \in Projects, Invalidate(p) \/ Publish(p) PROVE BeforeInv'
  <2>1. Begun' = Begun /\ UNCHANGED <<before, commits>>
    BY <1>4, <1>t DEF Invalidate, Publish, Begun
  <2>2. QED
    BY <1>2, <1>r, <2>1 DEF BeforeInv
<1>5. CASE Restart
  <2>1. Begun' = Begun /\ UNCHANGED <<before, commits>>
    BY <1>5, <1>t DEF Restart, Begun
  <2>2. QED
    BY <1>2, <1>r, <2>1 DEF BeforeInv
<1>6. ASSUME UNCHANGED <<wpc, before, commits>> PROVE BeforeInv'
  <2>1. Begun' = Begun
    BY <1>6 DEF Begun
  <2>2. QED
    BY <1>2, <1>6, <1>r, <2>1 DEF BeforeInv
<1>7. ASSUME NEW r \in Readers, ListStep(r) PROVE BeforeInv'
  BY <1>6, <1>7 DEF ListStep, Miss, Query, QueryFails, Fill
<1>8. CASE Tick \/ Replicate \/ UNCHANGED vars
  BY <1>6, <1>8 DEF Tick, Replicate, vars
<1>9. QED
  BY <1>1, <1>3, <1>4, <1>5, <1>7, <1>8 DEF Next, CreateStep

LEMMA BeforeAlways == Spec => []BeforeInv
BY BeforeInit, BeforeStep, TypeCorrect, PTL DEF Spec

LEMMA RowsAreFinite ==
    ASSUME TypeOK, NEW n \in 0 .. Len(commits)
    PROVE  IsFiniteSet(RowsUpTo(n))
<1>1. n \in Nat
  BY DEF TypeOK
<1>2. IsFiniteSet(1 .. n)
  BY <1>1, FS_Interval
<1> DEFINE f == [i \in 1 .. n |-> commits[i]]
<1>3. f \in Surjection(1 .. n, RowsUpTo(n))
  BY DEF RowsUpTo, Surjection
<1>4. QED
  BY <1>2, <1>3, FS_Surjection

\* Newest is closed upwards: it never prefers an older row to a newer one.
LEMMA NewestIsUpwardClosed ==
    ASSUME NEW S \in SUBSET Projects, IsFiniteSet(S),
           NEW p \in S, NEW q \in Newest(S), CreatedAt[p] > CreatedAt[q]
    PROVE  p \in Newest(S)
<1> DEFINE over(x) == {y \in S : CreatedAt[y] > CreatedAt[x]}
<1>1. q \in S /\ Cardinality(over(q)) < ListLimit
  BY DEF Newest
<1>2. \A x \in S : CreatedAt[x] \in Nat
  BY ProjectCacheConstants
<1>3. over(p) \subseteq over(q)
  BY <1>1, <1>2
<1>4. /\ IsFiniteSet(over(q)) /\ IsFiniteSet(over(p))
      /\ Cardinality(over(p)) <= Cardinality(over(q))
  <2>1. IsFiniteSet(over(q))
    BY FS_Subset
  <2>2. QED
    BY <1>3, <2>1, FS_Subset
<1>5. Cardinality(over(p)) \in Nat /\ Cardinality(over(q)) \in Nat /\ ListLimit \in Nat
  BY <1>4, FS_CardinalityType, ProjectCacheConstants
<1>6. Cardinality(over(p)) < ListLimit
  <2> HIDE DEF over
  <2>1. QED
    BY <1>1, <1>4, <1>5
<1>7. QED
  BY <1>6 DEF Newest

\* Newest leaves a row out only when it holds ListLimit others.
LEMMA NewestIsFull ==
    ASSUME NEW S \in SUBSET Projects, IsFiniteSet(S), NEW p \in S \ Newest(S)
    PROVE  Cardinality(Newest(S)) >= ListLimit
<1> DEFINE over(x) == {y \in S : CreatedAt[y] > CreatedAt[x]}
           rank(x) == Cardinality(over(x))
<1>1. \A x \in S : IsFiniteSet(over(x)) /\ rank(x) \in Nat
  BY FS_Subset, FS_CardinalityType
<1>2. Newest(S) = {x \in S : rank(x) < ListLimit} /\ ListLimit \in Nat
  BY ProjectCacheConstants DEF Newest
<1>3. IsFiniteSet(Newest(S)) /\ Cardinality(Newest(S)) \in Nat
  BY <1>2, FS_Subset, FS_CardinalityType
<1>4. \A x \in S : \A y \in over(x) : y \in S /\ rank(y) < rank(x)
  <2> SUFFICES ASSUME NEW x \in S, NEW y \in over(x) PROVE y \in S /\ rank(y) < rank(x)
    OBVIOUS
  <2>1. y \in S /\ CreatedAt[y] \in Nat /\ CreatedAt[x] \in Nat
    BY ProjectCacheConstants
  <2>2. over(y) \subseteq over(x) /\ y \notin over(y)
    <3>1. \A z \in S : CreatedAt[z] \in Nat
      BY ProjectCacheConstants
    <3>2. QED
      BY <2>1, <3>1
  <2>3. IsFiniteSet(over(x)) /\ over(y) # over(x)
    BY <1>1, <2>2
  <2>4. rank(y) <= rank(x) /\ (rank(y) = rank(x) => over(y) = over(x))
    BY <2>2, <2>3, FS_Subset
  <2>5. rank(y) \in Nat /\ rank(x) \in Nat
    BY <1>1, <2>1
  <2> HIDE DEF over, rank
  <2>6. QED
    BY <2>1, <2>3, <2>4, <2>5
<1> DEFINE Ranks == {rank(x) : x \in S \ Newest(S)}
<1>5. PICK low \in Ranks : \A other \in Ranks : ~(other < low)
  <2>1. Ranks \subseteq Nat /\ Ranks # {}
    BY <1>1
  <2> HIDE DEF Ranks
  <2>2. PICK low \in Ranks : \A other \in Ranks : <<other, low>> \notin OpToRel(<, Nat)
    BY <2>1, NatLessThanWellFounded, WFMin
  <2>3. \A other \in Ranks : <<other, low>> \in OpToRel(<, Nat) <=> other < low
    BY <2>1 DEF OpToRel
  <2>4. QED
    BY <2>2, <2>3
<1>6. PICK m \in S \ Newest(S) : rank(m) = low
  OBVIOUS
<1>7. \A y \in S \ Newest(S) : ~(rank(y) < rank(m))
  BY <1>5, <1>6
<1>8. over(m) \subseteq Newest(S)
  <2> SUFFICES ASSUME NEW y \in over(m), y \notin Newest(S) PROVE FALSE
    OBVIOUS
  <2>1. y \in S /\ rank(y) < rank(m)
    BY <1>4
  <2>2. QED
    BY <1>7, <2>1
<1>9. rank(m) <= Cardinality(Newest(S))
  BY <1>3, <1>8, FS_Subset
<1>10. ~(rank(m) < ListLimit) /\ rank(m) \in Nat
  BY <1>1, <1>2
<1> HIDE DEF over, rank
<1>11. QED
  BY <1>2, <1>3, <1>9, <1>10

\* For every LIMIT and however creations and replication interleave: what a query
\* leaves out although every host has it is cut off by ListLimit projects that were
\* not there when it began.
THEOREM ProjectIsCutOnlyByLater == Spec => CutOnlyByLater
<1>1. TypeOK /\ BeforeInv /\ [Next]_vars =>
        [\A r \in Readers : rpc[r] = "query" /\ rpc'[r] = "fill" =>
           \A p \in RowsUpTo(applied) \ snap'[r] :
              /\ Cardinality(snap'[r]) >= ListLimit
              /\ snap'[r] \cap before[p] = {}]_vars
  <2> SUFFICES ASSUME TypeOK, BeforeInv, [Next]_vars, NEW r \in Readers,
                      rpc[r] = "query", rpc'[r] = "fill",
                      NEW p \in RowsUpTo(applied) \ snap'[r]
               PROVE  /\ Cardinality(snap'[r]) >= ListLimit
                      /\ snap'[r] \cap before[p] = {}
    OBVIOUS
  <2>1. Query(r)
    <3>1. rpc \in [Readers -> {"idle", "query", "fill"}]
      BY DEF TypeOK
    <3>2. QED
      BY <3>1 DEF Next, CreateStep, ListStep, Begin, Insert, InsertConflicts, InsertFails,
                  Invalidate, Publish, Miss, Query, QueryFails, Fill, Tick,
                  Replicate, Restart, vars
  <2>2. PICK n \in Positions : snap'[r] = Newest(RowsUpTo(n))
    BY <2>1 DEF Query, GetAllProjects, TypeOK
  <2>3. n \in 0 .. Len(commits) /\ n \in applied .. Len(commits)
    BY PositionIsInLog
  <2>4. RowsUpTo(n) \in SUBSET Projects /\ IsFiniteSet(RowsUpTo(n))
    BY <2>3, RowsAreProjects, RowsAreFinite
  <2>5. p \in RowsUpTo(n)
    <3>1. applied \in Nat /\ n \in Nat /\ applied <= n
      BY <2>3 DEF TypeOK
    <3>2. QED
      BY <3>1 DEF RowsUpTo
  <2>6. Cardinality(snap'[r]) >= ListLimit
    BY <2>2, <2>4, <2>5, NewestIsFull
  <2>7. ASSUME NEW q \in snap'[r], q \in before[p] PROVE FALSE
    <3>1. p \in Projects /\ CreatedAt[q] < CreatedAt[p]
      BY <2>4, <2>5, <2>7 DEF BeforeInv
    <3>2. q \in Projects
      BY <2>7, <3>1 DEF TypeOK
    <3>3. CreatedAt[p] > CreatedAt[q]
      BY <3>1, <3>2, ProjectCacheConstants
    <3>4. QED
      BY <2>2, <2>4, <2>5, <2>7, <3>3, NewestIsUpwardClosed
  <2>8. QED
    BY <2>6, <2>7
<1>2. QED
  BY <1>1, TypeCorrect, BeforeAlways, PTL DEF Spec, CutOnlyByLater

-----------------------------------------------------------------------------
(* The cache *)

Map == INSTANCE ExpiringMap
    WITH shown <- cache, answer <- Nothing, Keys <- {ListKey}, Values <- ListValue,
         Ttls <- {Ttl}, Prefixes <- {}

\* The handlers and the restart do to the entry what ExpiringMap, which CacheManager
\* implements, allows its callers, and no entry lives for another time than Ttl.
THEOREM CacheIsExpiringMap == Spec => Map!Spec
<1>1. Init => Map!Init
  BY DEF Init, Map!Init, EmptyMap, Map!EmptyMap
<1>2. TypeOK /\ [Next]_vars => [Map!Next]_<<cache, Nothing>>
  <2> SUFFICES ASSUME TypeOK, [Next]_vars PROVE Map!Next \/ cache' = cache
    OBVIOUS
  <2>1. ASSUME NEW p \in Projects, Invalidate(p) PROVE Map!Invalidate({ListKey})
    BY <2>1 DEF Invalidate, Map!Invalidate, Drop, Map!Drop
  <2>2. ASSUME NEW r \in Readers, Fill(r)
        PROVE  \E v \in ListValue : Map!Set(ListKey, v, Ttl)
    <3>1. [rows |-> snap[r], excused |-> excused[r]] \in ListValue
      BY DEF TypeOK, ListValue
    <3>2. Map!Set(ListKey, [rows |-> snap[r], excused |-> excused[r]], Ttl)
      BY <2>2 DEF Fill, Map!Set, Put, Map!Put
    <3>3. QED
      BY <3>1, <3>2
  <2>3. CASE Tick
    BY <2>3 DEF Tick, Map!Next, Map!Tick, Aged, Map!Aged
  <2>4. CASE Restart
    <3>1. DOMAIN cache = {ListKey}
      BY DEF TypeOK
    <3>2. cache' = Map!Drop(cache, {ListKey})
      BY <2>4, <3>1 DEF Restart, EmptyMap, Map!Drop
    <3>3. QED
      BY <3>2 DEF Map!Next, Map!Invalidate
  <2>5. QED
    BY <2>1, <2>2, <2>3, <2>4 DEF Next, CreateStep, ListStep, Begin, Insert, InsertConflicts,
       InsertFails, Publish, Miss, Query, QueryFails, Replicate, vars, Map!Next
<1>3. QED
  BY <1>1, <1>2, TypeCorrect, PTL DEF Spec, Map!Spec
=============================================================================
