----------------------------- MODULE ProjectCache -----------------------------
(***************************************************************************)
(* The project list: CreateProjectHandler and GetProjectsHandler around     *)
(* PostgreSQL, the cache entry "projects:all" and the event ProjectCreated. *)
(*                                                                          *)
(* Every project has one create request; list requests come and go.  A      *)
(* handler is interrupted where it waits for the database or the broker,    *)
(* and runs in parallel with the others everywhere else, so each access to  *)
(* the database, the cache and the broker is a step of its own.             *)
(*                                                                          *)
(* Inserts go to the master.  Each query asks for a standby                 *)
(* (ClusterHostType::kSlave) and is answered by any of them, or by the      *)
(* master when none can be reached: by a host that has applied some prefix  *)
(* of the master's log, and by another one, further on or behind, the next  *)
(* time.  The cache is the map that ExpiringMap specifies and CacheManager  *)
(* implements.                                                              *)
(***************************************************************************)
EXTENDS Integers, Sequences, FiniteSets, TtlMap

CONSTANTS
    Projects,     \* the projects that are created, one request each
    Readers,      \* coroutines that serve GET /api/projects
    CreatedAt,    \* created_at, which the handler takes from its own clock
    KeyOf,        \* the key of each request; "" when the client gave none
    ListLimit,    \* LIMIT of GetAllProjects (100)
    Ttl,          \* lifetime of the entry (300 s), in ticks
    HasStandby    \* whether the cluster has standbys beside the master

ASSUME ProjectCacheConstants ==
    /\ CreatedAt \in [Projects -> Nat]
    /\ \A p, q \in Projects : CreatedAt[p] = CreatedAt[q] => p = q
    /\ DOMAIN KeyOf = Projects
    /\ ListLimit \in Nat
    /\ Ttl \in Nat
    /\ HasStandby \in BOOLEAN

\* What the cached list carries: the rows, and as history the projects that may
\* be missing from them.
ListValue == [rows : SUBSET Projects, excused : SUBSET Projects]

ASSUME NothingIsNoEntry == Nothing \notin [value : ListValue, left : 0 .. Ttl]

VARIABLES
    commits,    \* the projects in the order in which the master committed them
    applied,    \* how many of them every standby has applied
    cache,      \* the response cache
    wpc,        \* where the create request of each project is, or how it ended
    rpc,        \* where each list request is
    snap,       \* the rows each list request has read and not stored yet
    excused,    \* history: see Query and Invalidate
    before,     \* history: the rows that were there when a request took created_at
    events      \* the projects whose ProjectCreated reached the broker

vars == <<commits, applied, cache, wpc, rpc, snap, excused, before, events>>

ListKey == "projects:all"

RowsUpTo(n) == {commits[i] : i \in 1 .. n}
Rows == RowsUpTo(Len(commits))

\* How far each host may be from which a query is answered.
Positions == IF HasStandby THEN applied .. Len(commits) ELSE {Len(commits)}

\* Where a create request waits, and how it ends: a response 201, a unique violation,
\* or another error or a stop of the process.
Waiting == {"new", "begun", "inserted", "invalidated"}
Ended == {"created", "conflict", "failed"}

Init ==
    /\ commits = <<>>
    /\ applied = 0
    /\ cache = EmptyMap({ListKey})
    /\ wpc = [p \in Projects |-> "new"]
    /\ rpc = [r \in Readers |-> "idle"]
    /\ snap = [r \in Readers |-> {}]
    /\ excused = [r \in Readers |-> {}]
    /\ before = [p \in Projects |-> {}]
    /\ events = {}

-----------------------------------------------------------------------------
(* CreateProjectHandler *)

\* The handler takes created_at from the clock, which does not go back: every
\* request with an earlier created_at has taken it before.
Begin(p) ==
    /\ wpc[p] = "new"
    /\ \A q \in Projects : CreatedAt[q] < CreatedAt[p] => wpc[q] # "new"
    /\ wpc' = [wpc EXCEPT ![p] = "begun"]
    /\ before' = [before EXCEPT ![p] = Rows]
    /\ UNCHANGED <<commits, applied, cache, rpc, snap, excused, events>>

KeyTaken(p) == \E q \in Rows : KeyOf[q] = KeyOf[p]

Commit(p) == commits' = Append(commits, p)

\* Mutant: a unique violation is taken for success.
InsertIgnoringConflict(p) ==
    /\ wpc[p] = "begun"
    /\ IF KeyTaken(p) THEN UNCHANGED commits ELSE Commit(p)
    /\ wpc' = [wpc EXCEPT ![p] = "inserted"]
    /\ UNCHANGED <<applied, cache, rpc, snap, excused, before, events>>

\* storage_.CreateProject returns the row.
Insert(p) ==
    /\ wpc[p] = "begun"
    /\ ~KeyTaken(p)
    /\ Commit(p)
    /\ wpc' = [wpc EXCEPT ![p] = "inserted"]
    /\ UNCHANGED <<applied, cache, rpc, snap, excused, before, events>>

\* projects.key is UNIQUE: the exception leaves the handler.
InsertConflicts(p) ==
    /\ wpc[p] = "begun"
    /\ KeyTaken(p)
    /\ wpc' = [wpc EXCEPT ![p] = "conflict"]
    /\ UNCHANGED <<commits, applied, cache, rpc, snap, excused, before, events>>

\* A timeout or a lost connection: the exception leaves the handler, and the
\* master may have committed the row all the same.
InsertFails(p) ==
    /\ wpc[p] = "begun"
    /\ \/ UNCHANGED commits
       \/ ~KeyTaken(p) /\ Commit(p)
    /\ wpc' = [wpc EXCEPT ![p] = "failed"]
    /\ UNCHANGED <<applied, cache, rpc, snap, excused, before, events>>

\* Mutant: the entry is left in the cache.
InvalidateNothing(p) ==
    /\ wpc[p] = "inserted"
    /\ excused' = [r \in Readers |->
                    IF rpc[r] = "fill" /\ p \notin snap[r]
                      THEN excused[r] \cup {p} ELSE excused[r]]
    /\ wpc' = [wpc EXCEPT ![p] = "invalidated"]
    /\ UNCHANGED <<commits, applied, cache, rpc, snap, before, events>>

\* cache_.Invalidate("projects:all").  A list request that has read the rows and
\* not stored them yet is overtaken: history notes that it may miss p.
Invalidate(p) ==
    /\ wpc[p] = "inserted"
    /\ cache' = Drop(cache, {ListKey})
    /\ excused' = [r \in Readers |->
                    IF rpc[r] = "fill" /\ p \notin snap[r]
                      THEN excused[r] \cup {p} ELSE excused[r]]
    /\ wpc' = [wpc EXCEPT ![p] = "invalidated"]
    /\ UNCHANGED <<commits, applied, rpc, snap, before, events>>

\* PublishProjectCreated, then 201.  Publish swallows what Send throws, so the
\* request ends the same way whether the broker has the event or not.
Publish(p) ==
    /\ wpc[p] = "invalidated"
    /\ \/ events' = events \cup {p}
       \/ UNCHANGED events
    /\ wpc' = [wpc EXCEPT ![p] = "created"]
    /\ UNCHANGED <<commits, applied, cache, rpc, snap, excused, before>>

-----------------------------------------------------------------------------
(* GetProjectsHandler *)

\* cache_.Get finds no entry.
Miss(r) ==
    /\ rpc[r] = "idle"
    /\ Look(cache, ListKey) = Nothing
    /\ rpc' = [rpc EXCEPT ![r] = "query"]
    /\ UNCHANGED <<commits, applied, cache, wpc, snap, excused, before, events>>

\* The newest ListLimit rows by created_at.
Newest(rows) ==
    {p \in rows : Cardinality({q \in rows : CreatedAt[q] > CreatedAt[p]}) < ListLimit}

\* Mutant: ORDER BY created_at without DESC.
GetAllProjectsOldest(rows) ==
    {p \in rows : Cardinality({q \in rows : CreatedAt[q] < CreatedAt[p]}) < ListLimit}

\* What the query of GetAllProjects returns on a host that has these rows.
GetAllProjects(rows) == Newest(rows)

\* Some host answers.  History notes the rows it could not return: not applied
\* there yet, or older than the ListLimit newest.
Query(r) ==
    /\ rpc[r] = "query"
    /\ \E n \in Positions :
         /\ snap' = [snap EXCEPT ![r] = GetAllProjects(RowsUpTo(n))]
         /\ excused' = [excused EXCEPT ![r] =
                         (Rows \ RowsUpTo(n)) \cup (RowsUpTo(n) \ Newest(RowsUpTo(n)))]
    /\ rpc' = [rpc EXCEPT ![r] = "fill"]
    /\ UNCHANGED <<commits, applied, cache, wpc, before, events>>

QueryFails(r) ==
    /\ rpc[r] = "query"
    /\ rpc' = [rpc EXCEPT ![r] = "idle"]
    /\ UNCHANGED <<commits, applied, cache, wpc, snap, excused, before, events>>

\* Mutant: the lifetime is taken in minutes.
FillMinutes(r) ==
    /\ rpc[r] = "fill"
    /\ cache' = Put(cache, ListKey, [rows |-> snap[r], excused |-> excused[r]], 60 * Ttl)
    /\ rpc' = [rpc EXCEPT ![r] = "idle"]
    /\ snap' = [snap EXCEPT ![r] = {}]
    /\ excused' = [excused EXCEPT ![r] = {}]
    /\ UNCHANGED <<commits, applied, wpc, before, events>>

\* cache_.Set with the rows read before, whatever happened to the entry since.
Fill(r) ==
    /\ rpc[r] = "fill"
    /\ cache' = Put(cache, ListKey, [rows |-> snap[r], excused |-> excused[r]], Ttl)
    /\ rpc' = [rpc EXCEPT ![r] = "idle"]
    /\ snap' = [snap EXCEPT ![r] = {}]
    /\ excused' = [excused EXCEPT ![r] = {}]
    /\ UNCHANGED <<commits, applied, wpc, before, events>>

-----------------------------------------------------------------------------
(* The environment *)

Tick ==
    /\ cache # Aged(cache)
    /\ cache' = Aged(cache)
    /\ UNCHANGED <<commits, applied, wpc, rpc, snap, excused, before, events>>

\* The standbys that are furthest behind apply the next row.
Replicate ==
    /\ applied < Len(commits)
    /\ applied' = applied + 1
    /\ UNCHANGED <<commits, cache, wpc, rpc, snap, excused, before, events>>

\* The process stops and starts again: the cache and every request are gone.
Restart ==
    /\ cache' = EmptyMap({ListKey})
    /\ wpc' = [p \in Projects |->
                IF wpc[p] \in {"begun", "inserted", "invalidated"} THEN "failed" ELSE wpc[p]]
    /\ rpc' = [r \in Readers |-> "idle"]
    /\ snap' = [r \in Readers |-> {}]
    /\ excused' = [r \in Readers |-> {}]
    /\ UNCHANGED <<commits, applied, before, events>>

CreateStep(p) ==
    \/ Begin(p)
    \/ Insert(p)
    \/ InsertConflicts(p)
    \/ InsertFails(p)
    \/ Invalidate(p)
    \/ Publish(p)

ListStep(r) ==
    \/ Miss(r)
    \/ Query(r)
    \/ QueryFails(r)
    \/ Fill(r)

Next ==
    \/ \E p \in Projects : CreateStep(p)
    \/ \E r \in Readers : ListStep(r)
    \/ Tick
    \/ Replicate
    \/ Restart

Spec == Init /\ [][Next]_vars

\* The clock advances, the standbys catch up, and a query that was sent returns
\* or fails and its rows are stored.  Nobody has to send a request.
Fairness ==
    /\ WF_vars(Tick)
    /\ WF_vars(Replicate)
    /\ \A r \in Readers : WF_vars(Query(r) \/ QueryFails(r)) /\ WF_vars(Fill(r))

FairSpec == Spec /\ Fairness

-----------------------------------------------------------------------------
(* Properties *)

\* The types of the variables; a project is committed once.
TypeOK ==
    /\ commits \in Seq(Projects)
    /\ \A i, j \in 1 .. Len(commits) : commits[i] = commits[j] => i = j
    /\ applied \in 0 .. Len(commits)
    /\ cache \in [{ListKey} -> {Nothing} \cup [value : ListValue, left : 0 .. Ttl]]
    /\ wpc \in [Projects -> Waiting \cup Ended]
    /\ rpc \in [Readers -> {"idle", "query", "fill"}]
    /\ snap \in [Readers -> SUBSET Projects]
    /\ excused \in [Readers -> SUBSET Projects]
    /\ before \in [Projects -> SUBSET Projects]
    /\ events \subseteq Projects

\* The projects whose create request has invalidated the entry.
Invalidated == {p \in Projects : wpc[p] \in {"invalidated", "created"}}

\* A request that got past the insert has a committed row, which is what a client
\* told 201 relies on, and so has every project announced to the broker.
AcknowledgedIsCommitted ==
    /\ \A p \in Projects : wpc[p] \in {"inserted", "invalidated", "created"} => p \in Rows
    /\ events \subseteq Rows

\* The entry, and rows on their way into it, miss a project whose request has
\* invalidated the entry only for one of three reasons: the rows were read before
\* the invalidation and are stored after it, the host that answered had not applied
\* the insert, or the list is longer than ListLimit.
StaleOnlyIfExcused ==
    /\ cache[ListKey] # Nothing =>
         Invalidated \ cache[ListKey].value.rows \subseteq cache[ListKey].value.excused
    /\ \A r \in Readers : rpc[r] = "fill" => Invalidated \ snap[r] \subseteq excused[r]

\* created_at is taken before the insert, so rows become visible in another order
\* than that of their created_at, and a row may be cut off by the LIMIT the moment it
\* is committed.  Only creations that overlap with its own or follow it do that: a
\* project that every host has is missing from what a query returns only when
\* ListLimit others are there, and none of them was there when it began.
CutOnlyByLater ==
    [][\A r \in Readers : rpc[r] = "query" /\ rpc'[r] = "fill" =>
         \A p \in RowsUpTo(applied) \ snap'[r] :
            /\ Cardinality(snap'[r]) >= ListLimit
            /\ snap'[r] \cap before[p] = {}]_vars

\* Whether a list request may be answered without p although p is among the
\* newest: from the entry or from rows on their way into it.
Hidden(p) ==
    /\ p \in Newest(Rows)
    /\ \/ cache[ListKey] # Nothing /\ p \notin cache[ListKey].value.rows
       \/ \E r \in Readers : rpc[r] = "fill" /\ p \notin snap[r]

\* Whatever races, lags, fails or restarts, a committed project that belongs in the
\* list is eventually in every answer, for good: the entry's lifetime repairs what
\* the invalidation missed, also for a project whose insert was reported as failed.
EventuallyListed ==
    \A p \in Projects : (p \in Rows) ~> [](~Hidden(p))

\* openapi.yaml requires nothing but a name of a create request and lists 201, 400
\* and 401 as its responses: no request with a name ends in a server error while
\* the database works.
NamedProjectIsCreated == \A p \in Projects : wpc[p] # "conflict"
=============================================================================
