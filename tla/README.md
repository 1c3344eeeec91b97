# Verification of myservice

TLA+ models, TLC checks and TLAPS proofs for the project-management service in
this repository: a userver application in C++ with PostgreSQL, MongoDB, Kafka, an
in-memory response cache and a login rate limiter. The code in `src/` is the
reference; every definition below is translated from it, and `PROJECT.json`
names its lines. Libraries (userver, librdkafka, the databases) are modelled from
how this code calls them and are marked external.

## 1. The system

### Components, their state and their operations

| Component | Code | State | Operations |
|---|---|---|---|
| Login rate limiter | `src/rate_limit/` | a mutex, and per address a deque of admission times | `TryAcquire`, `GetInfo` (both clean the deque first) |
| Login | `LoginHandler` in `src/handlers/auth_handlers.cpp` | none of its own | limiter, read the user, compare the hash, make a token, publish, read the limiter's headers |
| Registration | `RegisterHandler`, same file | rows of `users` | check the login on a standby, insert on the master, publish |
| Response cache | `src/cache/` | a mutex, and a map from keys to values with deadlines | `Get`, `Set`, `Invalidate`, `InvalidateByPrefix` |
| Projects | `src/handlers/project_handlers.cpp`, `src/storage/postgres_storage.cpp` | rows of `projects`, entry `projects:all` (300 s) | create, list |
| Tasks | `src/handlers/task_handlers.cpp`, `src/models/task.hpp` | rows of `tasks` | look up the project, create |
| Comments | `src/handlers/comment_handlers.cpp`, `src/storage/mongodb_storage.cpp` | collection `comments` with embedded replies, entries `comments:task:<id>` (60 s) | add a comment, add a reply, list |
| User search | `src/handlers/user_handlers.cpp` | none | choose a query by the arguments |
| JWT | `src/auth/` | none | make a token, check a token |
| Event producer | `src/event/event_producer.cpp`, `event_types.hpp` | none | `Publish`: send one message, swallow exceptions |
| Event consumer | `src/event/event_consumer.cpp` | position in each topic, collection `raw_events` | `ProcessBatch`, `StoreEvent` |
| Hello handlers | `hello*.cpp`, `greeting.cpp` | two tables of greeting counts | upsert |

Not part of the program: `in_memory_storage.cpp` and `auth_middleware.cpp`, which
no component list names.

### How they interact

Handlers are coroutines, many at a time on several threads. They share the limiter
(a static object) and the cache (a component), each behind one mutex; everything
else they share is in the databases and the broker. A handler that writes does so
in three steps that nothing ties together: the row or document, the invalidation
of a cache entry, the event. Projects invalidate first and publish afterwards;
comments publish first. A handler that reads asks the cache, queries on a miss and
stores what it read. Each read from PostgreSQL asks for a standby
(`ClusterHostType::kSlave`) and may be answered by another one than the read before, or by
the master when no standby is there; writes go to the master. Producer and consumer of the
events are one process; the consumer reads all four topics.

### What is hard, and what must hold

* The limiter reads the clock twice in one `TryAcquire`, and its callers read the
  headers after the mutex is released. *No interval of 60 s holds more than five
  admissions of an address; the headers are true when they are read.*
* A list request can store rows that were read before somebody else's
  invalidation; a standby lags; an insert whose client times out may be committed
  without any invalidation; `created_at`, by which the list is cut, is taken before the
  insert, so that rows are committed in another order. *A cached list is incomplete only for
  a known reason, and never for good; the limit cuts off nobody for a project that was there
  before.*
* A reply does not know its task; the lookup may fail; the id may be of no comment.
  *The right cache entry is dropped all the same.*
* Send and InsertOne may fail and are swallowed, messages of other writers may not
  parse, offsets are never committed, the process restarts, and the consumer may lose its
  place in the group while the process runs on. *Each reading of the topics stores each
  message or gives it up on its own account, once and in the order of its topic.*
* Two registrations of one login race past the lookup; the lookup and the login read a
  standby; an insert may be committed although its request fails; tokens outlive the
  process. *A login names one user; what a request was told of its user is so; a token
  speaks for nobody whose password was not given in the last 24 hours.*
* A task's project is looked up on a standby, its creator comes from a token, its status
  is converted back and forth, its priority is passed on as it came. *The table refuses
  nothing but a priority out of range (and a title that is too long, see section 5); what is
  answered and announced is what is stored, for a status that `openapi.yaml` knows; the
  creator is somebody who gave that user's password.*
* Search masks reach ILIKE as they came. *A search misses nobody it should find and, without
  special characters, finds nobody else.*
* Documents of comments are written in two places and read in a third. *Whatever is written
  can be read.*
* Expired cache entries are removed when somebody finds them. *Nobody can tell.*

`PROJECT.json` lists these hazards line by line, with the property that covers
each.

## 2. Modules

| Module | What it is |
|---|---|
| `RateLimit` | abstract: an attempt is admitted exactly when fewer than `MaxRequests` were admitted in the last `Window` ticks |
| `SlidingWindow` | the limiter and `LoginHandler`'s use of it; implements `RateLimit` |
| `SlidingWindowProofs` | proofs about it |
| `TtlMap` | maps whose entries live for a number of ticks (operators only) |
| `ExpiringMap` | abstract: the cache as a `TtlMap` that forgets each entry in time |
| `CacheManager` | the cache with deadlines and lazy removal; implements `ExpiringMap` |
| `CacheManagerProofs` | proofs about it |
| `ProjectCache` | the two project handlers over master, standby, cache and broker; uses `TtlMap` for the cache |
| `ProjectCacheProofs` | proofs about it |
| `Comments` | the three comment handlers over MongoDB, cache and broker; uses `TtlMap` |
| `CommentsProofs` | proofs about it |
| `TopicReader` | abstract: a reader that takes the messages of each topic one after the other, each once in a pass |
| `EventPipeline` | producer, topics, consumer, `raw_events`; implements `TopicReader` |
| `EventPipelineProofs` | proofs about it |
| `Registry` | abstract: each registration is decided at one instant, refused exactly when its login or email is taken |
| `Accounts` | registration, login behind the limiter, tokens and their check, over `users`; implements `Registry` |
| `AccountsProofs` | proofs about it |
| `UserSearch` | extends `Accounts` with the search and with ILIKE |
| `UserSearchProofs` | proofs about it, from those about `Accounts` |
| `TaskBook` | abstract: each request for a task is decided at one instant, for a user and in a project there are then |
| `Tasks` | the creation of tasks behind the token check, composed with `Accounts`; implements `TaskBook` |
| `TasksProofs` | proofs about it; the theorems of `AccountsProofs` come in through INSTANCE |
| `MC*` | small instances for TLC |

`ProjectCache` and `Comments` do not repeat the cache's deadlines: they use the map
that `CacheManager` is proved to implement. A definition whose comment begins with
"Mutant" is a plausible mistake in the definition that follows it; no
specification uses it. It is there so that each property can be seen to fail when
the code is wrong.

### SlidingWindow

`windows[k]` is the deque of address `k`; `mutex` its holder. `TryAcquire(c, k)` is
the part up to and including `CleanExpired` with the first clock reading, `Grant`
and `Refuse` are the rest with the second one; `Tick` may come in between.
`LoginFails` is every way to leave without headers (an exception, 400, 401),
`LoginSucceeds` the path to the second `GetInfo`. `GetInfo(c, 429)` and
`GetInfo(c, 200)` are the call and the answer its headers go into. `grants` is
history: every admission, never dropped. `windows_` never loses an entry for an
address, and an empty deque is answered like no entry, so `windows` is total.

### CacheManager

One action per operation, each under the mutex. A prefix is the set of the keys that
start with it. `answer` is what the last `Get` returned.

### ProjectCache

`commits` is the order in which the master committed, `applied` the prefix that every
standby has. A query is answered by any host, so it sees any prefix from `applied` to the
whole (`Positions`), and the next one may see a shorter prefix than the one before. With
`HasStandby = FALSE` (the deployed single host, where kSlave falls back to the master) it
sees all commits. `wpc[p]` follows the request that creates `p`: `Begin`, which takes
`created_at`, then `Insert`, `InsertConflicts` or `InsertFails`, then `Invalidate`,
`Publish`. How a request ends is one of three: answered 201, stopped by the UNIQUE key,
failed otherwise. `rpc[r]` follows a list request: `Miss`, `Query` or `QueryFails`,
`Fill`; a cache hit changes nothing. `Restart` empties the cache and ends every request.
The history `excused` notes, for rows read and for the entry made of them, the projects
that may be missing: not applied by the host that answered, cut by the limit, or overtaken,
that is, invalidated between the read and the `Set`. The history `before[p]` has the rows
that were there when the request for `p` took `created_at`. The clock is assumed not to go
back: among requests, an earlier `created_at` has been taken earlier.

### Comments

`stored` holds comments and embedded replies, `cache` one entry per task. A
reply goes `GetTaskIdByCommentId`, `AddReply`, `PublishCommentAdded`, `Invalidate`;
a comment `InsertComment` and the last two. `found[r] = NoTask` (-1) is a lookup
that found no document or threw; `EntriesToDrop` is then every task's entry. A
client cannot know an id before its document exists, so `ParentOf[r]` is a stored
comment or `NoComment`. A document is a set of fields with types: what `CommentToBson`,
`ReplyToBson`, the database and the update of a reply put there, against what the
conversions back insist on; one that fails them takes the whole list with it. The validator
of `mongodb/validation.js` is not in the model: `data.js`, which the deployment runs after
it, drops the collection and the validator with it.

### EventPipeline

`request[e]` is the request whose event `e` is. `log[t]` is topic `t`, with one
partition each (the broker's default, which nothing here changes). `Poll` collects
a batch of at most `MaxBatch` over all topics, `StartBatch` hands it to
`ProcessBatch`, `Store` and `Skip` take one message each, `EndBatch` returns.
Nothing commits an offset and `auto_offset_reset` is `earliest`, so whenever the
consumer is assigned its partitions, every position is zero again (`BeginAgain`). That is
so after a `Restart` of the process, and after a `Rejoin`: a broker that is away for longer
than the session timeout or a rebalance takes the consumer out of its group and lets it in
again, while the process, its requests and the batch in hand go on. `pass` counts these
beginnings. A message is its topic, its offset and, as history, the pass that gave it, and
`EventOf` is what it carries; a batch may hold messages of two passes. What the model
promises of order and of "once" is about one pass, because the program promises no more:
a run of the process that rejoins stores every event again. `Payload` and `Required` are
the field names that `ToPayload` writes and the `Process...` functions insist on. A failed
`InsertOne` leaves no document; `AtLeastOnce` would not change if it did.
`RefinesTopicReader` leaves the batch out: as `TopicReader` sees it, a message is taken when
it is stored, fails or is skipped, and `Taken[k][t]` counts those of topic `t` that pass `k`
gave.

### Accounts

A user is named by the registration that made it, so `commits` is both the table and
its history; `applied` is the prefix that every standby has, and each look and each login
is answered by some host, with any prefix from there on. `rpc[r]` follows registration `r`:
`Lookup`, then `CreateUser` or `CreateUserViolates`, then `PublishUserRegistered`.
`RegisterFails` is every exception on the way, with or without the row: the statement
may be committed although its answer is lost, or although the seven columns of
`RETURNING` are not taken for the eight fields of `models::User`. A refusal by 401
changes nothing and is no step. `made[c]` is the token of a login that waits for its
event, `token[c]` what the client then holds, through restarts. `CheckAuth` is an
operator, as a check changes no state; its header stands for the forms that the code
tells apart, and its token is one of this service. Nothing deletes a user, so
`is_deleted` is always false. The history `typed` has when each client last gave which
login and password. `RefinesRegistry` maps `users` to the rows of the master and the outcome
of a registration to the step that decides it: the insert, the refusal on the host that was
asked or by a constraint, the error or the restart.

### UserSearch

`Queries` are the masks of a request, texts are sequences of characters, and the searches
are operators over the state of `Accounts`, because they change nothing. `ILike` is
PostgreSQL's operator with its default escape character: from the end of the pattern to its
beginning, the places of the text where what is left of the pattern matches what is left of
the text. `Contains` is the reference it is compared with. Both are evaluated once for each
query and user (`Selected`, `Wanted`).

### Tasks

`Tasks` instantiates `Accounts` with its own variables, and a step is one of `Accounts`, one
of a request for a task, or the restart of both. `Authorize` is `CheckAuth` in front of the
handler, with the token that a client of `Accounts` holds; then `LookupProject`,
`CreateTask` or `CreateTaskViolates`, `PublishTaskCreated`, or `TaskFails`. `CommitProject`
stands for `ProjectCache`, of which only the row matters here. The standby's positions in
`projects` and in `users` are separate. `tpc[q]` ends in "created", "refused" (by a
constraint) or "failed", which is every other end: 401, 404, an exception or a stop.
`Returned` is the
row read into a `Task` and written out again for the event. `RefinesTaskBook` maps the
outcome of a request to the step that decides it: the insert of its row, also when the
request then fails or is lost; the refusal by a constraint; or what ends it without a row.
A status that is none of `Statuses` is not refused but becomes TODO on the way; `TaskBook` and
`AnnouncedTaskIsStored` say nothing of the status that is stored then (see section 3).

## 3. Checks

| Run | Instance | Shows |
|---|---|---|
| `limiter` | 2 coroutines, 2 addresses, 2 attempts per 2 ticks, clock to 4; symmetric | `TypeOK`, `LimiterInv`, `WindowLimit`, `RemainingHonest`, `RetryAfterSuffices`, `RefinesRateLimit` |
| `cache` | 3 keys (2 with the prefix), 2 values, lifetimes 1 and 2, clock to 4; symmetric | `TypeOK`, `RefinesExpiringMap` |
| `projects` | 3 projects (2 without key), 2 readers, limit 1, lifetime 1, standbys | `TypeOK`, `AcknowledgedIsCommitted`, `StaleOnlyIfExcused`, `CutOnlyByLater`, `EventuallyListed` |
| `comments` | 1 comment, 1 reply, 2 tasks, 2 readers, lifetime 1 | `TypeOK`, `AnnouncedIsStored`, `StoredIsReadable`, `StaleOnlyIfOvertaken`, `EventuallyShown` |
| `pipeline` | 4 events (2 of other writers), 2 topics, batches of 2, 1 restart or rejoin | `TypeOK`, `EveryMessageAccountedFor`, `OwnEventsAreProcessable`, `StoredInOrder`, `OnceEachPass`, `RefinesTopicReader`, `EventuallyHandled` |
| `accounts` | 3 registrations (2 with one login, 2 with one email), 1 client, lifetime 1, clock to 3, standbys; 12 searches, limit 1 | `TypeOK`, `OneUserPerLogin`, `AnswersMatchTable`, `TokenHonoured`, `SearchFinds`, `RefinesRegistry` |
| `tasks` | 2 registrations (one login), 1 client, a clock that stands still, 1 project, 3 requests, standbys | `TypeOK`, `OnlyPriorityIsRefused`, `AnnouncedTaskIsStored`, `CreatorGavePassword`, `RefinesTaskBook` |

The bounds reach the cases that matter. `limiter`: two attempts fill a window, four
ticks let it slide past its first entries while a coroutine is between two clock
readings, and the other coroutine fills it meanwhile; the proofs cover every other size.
`cache`: four ticks pass a deadline of two and leave room to replace or invalidate an
expired entry. `projects`: two of the three projects share a key, so two can be
committed, and with a limit of one the older is cut, whichever was committed first; two
readers can fill in the wrong order; with a lifetime of one tick an entry lives, is due and is gone. `comments`: the
second task's entry is what `InvalidateByPrefix` drops beyond need. `pipeline`: batches
of two mix topics and end with a bad message; one restart or rejoin, at any moment, replays
everything, and after a rejoin a batch holds messages of both passes.
`accounts`: each of the two constraints is met by a pair of registrations in either
order; a token is made, expires, and is replaced by one of another user. The searches go by
login, by either name and by both, in both cases of a letter, with each special character,
and one finds two users where the limit lets one through. `tasks`: an unknown status and two
known ones, the lowest and the highest priority and one just above the range; the project is
absent, committed, or known to some host or to all when a request looks; the token is
missing or valid, and the user behind it is one of two with the same login, of whom one only
can exist. The clock stands still there: that a token grows too old is `accounts`' matter, and
the proofs about `Tasks` hold for every clock.

Five runs expect a violation, where the code does other than its documents say:

| Run | Property | The code |
|---|---|---|
| `projects_without_key` | `NamedProjectIsCreated` | a second project without a key breaks the UNIQUE constraint: 500 |
| `comments_stray_reply` | `OnlyAddedIsAnnounced` | a reply to an id of no comment is answered 201 and announced |
| `accounts_race` | `ExistingLoginIsConflict` | two registrations of one login pass the lookup together; the second is answered 500, not 409 |
| `pipeline_at_least_once` | `AtLeastOnce` | a swallowed Send, insert or restart loses the event |
| `pipeline_stored_once` | `StoredOnce` | there is no unique index on `event_id`; a restart or a rejoin stores every event again |

`CHECK_DEADLOCK FALSE` is set for the pipeline only, where every event may be
sent, every message processed and no pass left.

Two more places where the code and its documents differ, without a run of their own.
`Retry-After` and `X-RateLimit-Reset` are always the whole window (`sliding_window.cpp:44`),
where `perfomance_design.md:123-124` describes the seconds until the next attempt: waiting
that long is enough (`RetryAfterSuffices`), but often too long. And `TaskStatusFromString`
(`models/task.hpp:34-40`) makes TODO of any word it does not know, so a request with such a
status is answered 201 and its task is stored and announced as TODO, where `openapi.yaml:243`
allows four words. The `tasks` run has such a request (`q2`, with the status "CLOSED").

### Fairness

`FairSpec` of `ProjectCache` and `Comments`: the clock advances; the standbys apply
what was committed; a query that was sent returns or fails (userver ends it after its
timeout), and a handler that has its rows goes on to `Set`, because nothing in
between waits. No request has to be sent, and no query has to succeed: what makes
`EventuallyListed` and `EventuallyShown` true is the lifetime of the entry.
`FairSpec` of `EventPipeline`: a handler goes on after its write; the consumer's own
loop hands over, processes and returns each batch (weak fairness), and polls each
topic again and again (strong fairness of `Poll(t)`, because a batch of the other
topics disables it for a while). Stores may fail, sends may fail, restarts
and rejoins may come.

## 4. Proofs

For every value of the constants that meets the modules' assumptions, by TLAPS:

* `SlidingWindowProofs`: `TypeCorrect`, `LimiterInvariant`, `WindowLimitHolds`,
  `RemainingIsHonest`, `RetryAfterIsEnough`, `LimiterRefinesRateLimit`. `WindowLimit` is not inductive. What makes it so is
  `LimiterInv`: the coroutine that is deciding, and only it, holds the mutex; the
  deque is the rest of the admissions; whatever was dropped is older than the
  window; the admissions are sorted and none is in the future. Then a grant with
  fewer than `MaxRequests` in the deque means that the admission `MaxRequests` before
  it was dropped, so it is out of the window. The same invariant gives the refinement:
  a full deque after cleaning is a full window in `RateLimit`. A refusal takes
  effect at the first clock reading, an admission at the second one.
  `LeastIndex` and `CleanExpiredDropsPrefix` say what cleaning does to a sequence, and
  `CleanedIsInWindow` that what it leaves is what was admitted in the window: hence the
  truth of the two headers.
* `CacheManagerProofs`: `TypeCorrect` and `CacheRefinesExpiringMap`. The mapping shows
  an entry with the life it has left and hides one whose deadline has passed; a `Get`
  that removes such an entry is a `Get` of an absent key.
* `ProjectCacheProofs`: `TypeCorrect`, `AcknowledgedProjectIsCommitted`,
  `StaleListIsExcused`, `ProjectIsCutOnlyByLater`. `StaleOnlyIfExcused`
  needs that an invalidated project is committed, so that a query either sees it or notes
  it, and that an overtaken reader notes it at the invalidation. `CutOnlyByLater` follows from
  `BeforeInv` (what was there when a request took `created_at` has an earlier one, because
  rows come from requests that have begun) and from two facts about `Newest`: it is full when it leaves a row out
  (`NewestIsFull`), and it leaves none out that is newer than one it has
  (`NewestIsUpwardClosed`).
* `CommentsProofs`: `TypeCorrect`, `AnnouncedPostIsStored`, `StoredPostIsReadable`,
  `StaleAnswerWasOvertaken`. `CommentsInv` adds to the properties that a request asks for a
  task there is, and that a reply on its way to its write carries either the task of its
  comment or the failure of the lookup: then what it drops from the cache contains the
  entry of its task, and a list that lacks it was read before.
* `EventPipelineProofs`: `TypeCorrect`, `NoMessageFallsBetween`, `OwnEventsPass`,
  `PassStoresInOrder`, `PassStoresOnce`, `PipelineRefinesTopicReader`. `PipelineInv` says that
  a topic has each event once; that what the consumer holds or is done with is in its topic
  and, if of the current pass, before the position; that whatever precedes a message of the
  batch in its topic and pass is done with or precedes it in the batch, and the message itself
  is neither (`BatchInOrder`); and that a pass is done with the messages of a topic from the
  first one on (`DoneFromFirst`). The last two are about every pass and not only the current
  one, which is why they survive a rejoin with a batch in hand. So the first message of the batch is the
  one after those that its pass is done with (`HeadIsNext`): order within a pass, once in a
  pass and the step of `TopicReader` (`TakenAdvances`) follow.
* `AccountsProofs`: `TypeCorrect`, `LoginNamesOneUser`, `AnswersAreTrue`,
  `TokenSpeaksForItsUser`, `RegistrationRefinesRegistry`. `AccountsInv` ties each request to
  the table (whoever is past its insert has a row, whoever is before has none, but for
  requests that failed), each token, held or being made, to a login and password typed in its
  lifetime, and each event to a row.
* `TasksProofs`: `TypeCorrect`, `OnlyPriorityRefuses`, `AnnouncedTaskExists`,
  `CreatorWasLoggedIn`. `TaskInv` says that a request past its lookups refers to rows of
  `users` and `projects` that are committed and stay so, and that rows of `tasks` come from
  requests that inserted them. That the user behind a token exists and gave the password is
  `AccountsInv`, which the steps of `Tasks` preserve: each is a step of `Accounts` or leaves
  its variables alone, but for the restart, which is both.
  `TasksRefineTaskBook` follows from `TaskInv`: an open request has no row, and one that
  reaches its insert has a user and a project behind it, so that the constraints refuse it
  for its priority only, which is what `TaskBook` allows.
* Compositions. `TasksImplementAccounts`: what `Accounts` does inside `Tasks` is a behaviour
  of `Accounts`, so its theorems hold there too (`AccountsStayRight`). `CacheIsExpiringMap`,
  in `ProjectCacheProofs` and in `CommentsProofs`: what the handlers and the restart do to
  their entries are operations of `ExpiringMap` with the lifetimes the handlers give, which
  `CacheManager` is proved to implement. A cache of deadlines may therefore stand for the map.
* `UserSearchProofs`: `PatternFindsContaining`, `PatternFindsOnlyContaining`,
  `SearchFindsUsers`. ILIKE is a recursive function from the places of one character of the
  pattern to those of the one before it, so its theory is an induction over the length of the
  pattern. Induction is taken as a fact about sets of naturals (`InductiveSet`, from the
  well-foundedness of `<`): from the end of the pattern, that each character has its places
  (`PlacesExist`) and that the mask in a text is among them; from its beginning, that a match
  walks along the mask. A mask without a backslash is found wherever it is, and without
  special characters nothing else is found. Then `LIMIT` decides between all and enough.

Assumed: the ASSUMEs of the modules (TLC evaluates each on its instance) and the
library's theorems. Only checked, not proved: liveness (`EventuallyListed`,
`EventuallyShown`, `EventuallyHandled`), which the prover does not treat. Every other property
of a passing run is a theorem.

## 5. Not modelled

* Time in milliseconds and the difference of clocks: a tick is the unit of both
  clocks. `created_at` is distinct for each project; equal ones would leave the order
  to the database.
* `windows_` growing with every address that ever attempted a login; the cache
  growing with every task. Both are unbounded by construction.
* What a client sends that does not parse: an exception or a 400 before any state
  changes. In `LoginHandler` it comes after the admission and is part of `LoginFails`.
* `GetCurrentTimestampISO` of the consumer, whose use of `Timestring` depends on
  a library that is not in the repository: were it to throw, every `Store` would
  take its failing branch.
* The comment id in `CommentAdded` is generated by the handler and is not the `_id` of
  the document; the events name requests, not ids.
* Tokens that this service did not make, signatures and issuers: the JWT library's.
* A login that is refused while the standby lags: it changes nothing, and ends when
  the standby has caught up. For the same reason a project that one host listed may be
  answered 404 by another, when a task is created in it.
* What a client does after an error: a second request for the same task or user is, to the
  code and to the models, a request like any other. Two tasks where the client wanted one,
  and a 409 for a registration that was committed the first time, are possible.
* Texts that are too long for their column end in an exception like any other failed
  statement (`RegisterFails`, `TaskFails`).
* The hello handlers are samples of the service template; `main.cpp` and the configuration
  are lists of components and settings. `in_memory_storage.cpp` and `auth_middleware.cpp`
  are not built into the program.
* Destruction of `EventConsumer`: `mongo_pool_` goes before `consumer_scope_` stops its loop
  (`event_consumer.hpp:38-39`). What a batch in flight does then is undefined; the restart that
  follows replays it in any case.

## 6. Plan

Done: the limiter, the cache, projects, comments, the pipeline, accounts with the user
search, tasks; the abstract specifications of the limiter, the cache, registration, the
consumer and the creation of tasks; the proofs of every safety property and refinement.
Left: an abstract specification of a cached list (what a reader may be shown), which both
`ProjectCache` and `Comments` implement; the safety half of the liveness properties, that is,
how long after its insert a project or post can be missing from an answer, as an invariant
over the age of the entry.
