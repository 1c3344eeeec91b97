------------------------------- MODULE Comments -------------------------------
(***************************************************************************)
(* Comments of tasks and replies to them: AddCommentHandler,                *)
(* AddReplyHandler and GetCommentsHandler around the collection "comments"  *)
(* of MongoDB, one cache entry per task and the event CommentAdded.         *)
(*                                                                          *)
(* A reply is pushed into the document of its comment, whose _id the client *)
(* names; nothing checks that a document has it.  The handler first looks   *)
(* up the task of the comment, to know which cache entry to drop, and drops *)
(* the entries of all tasks when it does not find it.  Both write handlers  *)
(* publish first and invalidate afterwards.  No request deletes a comment.  *)
(*                                                                          *)
(* MongoDB is read from its primary: a query sees every write that has been *)
(* acknowledged.  The cache is the map that ExpiringMap specifies.          *)
(***************************************************************************)
EXTENDS Integers, FiniteSets, TtlMap

CONSTANTS
    Tasks,
    Comments,    \* comments that are added, one request each
    Replies,     \* replies that are added, one request each
    Readers,     \* coroutines that serve GET /api/tasks/{taskId}/comments
    TaskOf,      \* the task of each comment
    ParentOf,    \* the comment each reply names, or NoComment
    NoComment,   \* an id that no document has
    NoTask,      \* -1 of GetTaskIdByCommentId
    Ttl          \* lifetime of an entry (60 s), in ticks

ASSUME CommentsConstants ==
    /\ TaskOf \in [Comments -> Tasks]
    /\ ParentOf \in [Replies -> Comments \cup {NoComment}]
    /\ NoComment \notin Comments \cup Replies
    /\ NoTask \notin Tasks
    /\ Comments \cap Replies = {}
    /\ Ttl \in Nat

Posts == Comments \cup Replies

\* What a cached answer carries: the comments and replies in it, and as history
\* those that may be missing from it.
Answer == [posts : SUBSET Posts, excused : SUBSET Posts]

ASSUME NothingIsNoAnswer == Nothing \notin [value : Answer, left : 0 .. Ttl]

VARIABLES
    stored,     \* the comments and embedded replies of the collection
    cache,      \* the response cache
    wpc,        \* where the request of each comment and reply is, or how it ended
    found,      \* found[r]: task_id in the request of reply r, while it lasts
    rpc,        \* where each read request is
    asked,      \* the task it reads, while it lasts
    snap,       \* the posts it has read and not stored in the cache yet
    excused,    \* history: posts invalidated since it read
    events      \* the posts whose CommentAdded reached the broker

vars == <<stored, cache, wpc, found, rpc, asked, snap, excused, events>>

readers == <<rpc, asked, snap, excused>>

Waiting == {"new", "found", "written", "published"}
Ended == {"created", "error", "lost"}

Init ==
    /\ stored = {}
    /\ cache = EmptyMap(Tasks)
    /\ wpc = [w \in Posts |-> "new"]
    /\ found = [r \in Replies |-> NoTask]
    /\ rpc = [q \in Readers |-> "idle"]
    /\ asked = [q \in Readers |-> NoTask]
    /\ snap = [q \in Readers |-> {}]
    /\ excused = [q \in Readers |-> {}]
    /\ events = {}

\* The posts of a task, stored or not.
PostsOf(t) ==
    LET cs == {c \in Comments : TaskOf[c] = t}
    IN  cs \cup {r \in Replies : ParentOf[r] \in cs}

-----------------------------------------------------------------------------
(* The documents: fields with the types of their values *)

CommentToBson ==
    {<<"task_id", "int">>, <<"author", "string">>, <<"author_id", "int">>,
     <<"text", "string">>, <<"created_at", "date">>, <<"replies", "array">>}

\* Mutant: the text of a reply is called its content.
ReplyToBsonRenamed == {<<"author", "string">>, <<"content", "string">>, <<"created_at", "date">>}

ReplyToBson == {<<"author", "string">>, <<"text", "string">>, <<"created_at", "date">>}

\* The fields that the conversions back insist on.
CommentFromBson ==
    {<<"_id", "oid">>, <<"task_id", "int">>, <<"author", "string">>, <<"author_id", "int">>,
     <<"text", "string">>, <<"created_at", "date">>, <<"replies", "array">>}
ReplyFromBson == {<<"author", "string">>, <<"text", "string">>, <<"created_at", "date">>}

\* What the database has for a comment: it adds _id, and a reply sets updated_at,
\* which must have the right type if it is there.
Document(c) ==
    CommentToBson \cup {<<"_id", "oid">>}
        \cup {<<"updated_at", "date">> : r \in {r \in stored \cap Replies : ParentOf[r] = c}}

ReadsComment(doc) ==
    /\ CommentFromBson \subseteq doc
    /\ \A field \in doc : field[1] = "updated_at" => field[2] = "date"

\* Whether the conversion of the post succeeds.
Readable(w) ==
    \/ w \in Comments /\ ReadsComment(Document(w))
    \/ w \in Replies /\ ReplyFromBson \subseteq ReplyToBson

-----------------------------------------------------------------------------
(* AddCommentHandler and AddReplyHandler *)

\* InsertComment.
InsertComment(c) ==
    /\ wpc[c] = "new"
    /\ stored' = stored \cup {c}
    /\ wpc' = [wpc EXCEPT ![c] = "written"]
    /\ UNCHANGED <<cache, found, events>> /\ UNCHANGED readers

\* GetTaskIdByCommentId: -1 when no document has the id, and when the query throws.
\* An id names a document or never will, as the client cannot know it before.
GetTaskIdByCommentId(r) ==
    /\ wpc[r] = "new"
    /\ ParentOf[r] \in stored \cup {NoComment}
    /\ \/ /\ ParentOf[r] \in stored
          /\ found' = [found EXCEPT ![r] = TaskOf[ParentOf[r]]]
       \/ UNCHANGED found
    /\ wpc' = [wpc EXCEPT ![r] = "found"]
    /\ UNCHANGED <<stored, cache, events>> /\ UNCHANGED readers

\* The update of AddReply: it changes nothing when no document has the id.
Push(r) == stored' = IF ParentOf[r] \in stored THEN stored \cup {r} ELSE stored

\* AddReply; the result of UpdateOne is not looked at.
AddReply(r) ==
    /\ wpc[r] = "found"
    /\ Push(r)
    /\ wpc' = [wpc EXCEPT ![r] = "written"]
    /\ UNCHANGED <<cache, found, events>> /\ UNCHANGED readers

\* The request of w ends.
Forget(w) == found' = [r \in Replies |-> IF r = w THEN NoTask ELSE found[r]]

\* The insert or the update throws: the exception leaves the handler before the
\* event and the invalidation, and the write may have been made all the same.
WriteFails(w) ==
    /\ wpc[w] = IF w \in Comments THEN "new" ELSE "found"
    /\ \/ UNCHANGED stored
       \/ w \in Comments /\ stored' = stored \cup {w}
       \/ w \in Replies /\ Push(w)
    /\ wpc' = [wpc EXCEPT ![w] = "error"]
    /\ Forget(w)
    /\ UNCHANGED <<cache, events>> /\ UNCHANGED readers

\* Mutant: the event is sent before the write.
PublishFirst(w) ==
    /\ wpc[w] \in {"new", "written"}
    /\ events' = events \cup {w}
    /\ wpc' = IF wpc[w] = "new" THEN wpc ELSE [wpc EXCEPT ![w] = "published"]
    /\ UNCHANGED <<stored, cache, found>> /\ UNCHANGED readers

\* PublishCommentAdded, which swallows what Send throws.
PublishCommentAdded(w) ==
    /\ wpc[w] = "written"
    /\ \/ events' = events \cup {w}
       \/ UNCHANGED events
    /\ wpc' = [wpc EXCEPT ![w] = "published"]
    /\ UNCHANGED <<stored, cache, found>> /\ UNCHANGED readers

\* Mutant: a reply whose task was not found drops the entry "comments:task:-1".
EntriesOfFound(w) == IF w \in Comments THEN {TaskOf[w]} ELSE {found[w]} \ {NoTask}

\* Invalidate of the task's entry, or InvalidateByPrefix("comments:task:") in the
\* request of a reply whose task was not found.
EntriesToDrop(w) ==
    IF w \in Comments THEN {TaskOf[w]}
    ELSE IF found[w] = NoTask THEN Tasks ELSE {found[w]}

\* The invalidation, then 201.  Read requests that have read and not stored yet are
\* overtaken: history notes that they may miss the post.
Invalidate(w) ==
    /\ wpc[w] = "published"
    /\ cache' = Drop(cache, EntriesToDrop(w))
    /\ excused' = [q \in Readers |->
                    IF rpc[q] = "fill" /\ asked[q] \in EntriesToDrop(w)
                    THEN excused[q] \cup {w} ELSE excused[q]]
    /\ wpc' = [wpc EXCEPT ![w] = "created"]
    /\ Forget(w)
    /\ UNCHANGED <<stored, rpc, asked, snap, events>>

-----------------------------------------------------------------------------
(* GetCommentsHandler *)

\* cache_.Get finds no entry for the task.
Miss(q, t) ==
    /\ rpc[q] = "idle"
    /\ Look(cache, t) = Nothing
    /\ rpc' = [rpc EXCEPT ![q] = "query"]
    /\ asked' = [asked EXCEPT ![q] = t]
    /\ UNCHANGED <<stored, cache, wpc, found, snap, excused, events>>

\* The query: the task's comments with the replies embedded in them.  One document
\* that is not converted makes it throw: then there is QueryFails only.
GetCommentsByTask(q) ==
    /\ rpc[q] = "query"
    /\ \A w \in stored \cap PostsOf(asked[q]) : Readable(w)
    /\ snap' = [snap EXCEPT ![q] = stored \cap PostsOf(asked[q])]
    /\ rpc' = [rpc EXCEPT ![q] = "fill"]
    /\ UNCHANGED <<stored, cache, wpc, found, asked, excused, events>>

QueryFails(q) ==
    /\ rpc[q] = "query"
    /\ rpc' = [rpc EXCEPT ![q] = "idle"]
    /\ asked' = [asked EXCEPT ![q] = NoTask]
    /\ UNCHANGED <<stored, cache, wpc, found, snap, excused, events>>

\* Mutant: the lifetime is taken in minutes.
FillMinutes(q) ==
    /\ rpc[q] = "fill"
    /\ cache' = Put(cache, asked[q], [posts |-> snap[q], excused |-> excused[q]], 60 * Ttl)
    /\ rpc' = [rpc EXCEPT ![q] = "idle"]
    /\ snap' = [snap EXCEPT ![q] = {}]
    /\ excused' = [excused EXCEPT ![q] = {}]
    /\ asked' = [asked EXCEPT ![q] = NoTask]
    /\ UNCHANGED <<stored, wpc, found, events>>

\* cache_.Set with what was read before, whatever happened to the entry since.
Fill(q) ==
    /\ rpc[q] = "fill"
    /\ cache' = Put(cache, asked[q], [posts |-> snap[q], excused |-> excused[q]], Ttl)
    /\ rpc' = [rpc EXCEPT ![q] = "idle"]
    /\ snap' = [snap EXCEPT ![q] = {}]
    /\ excused' = [excused EXCEPT ![q] = {}]
    /\ asked' = [asked EXCEPT ![q] = NoTask]
    /\ UNCHANGED <<stored, wpc, found, events>>

-----------------------------------------------------------------------------
(* The environment *)

Tick ==
    /\ cache # Aged(cache)
    /\ cache' = Aged(cache)
    /\ UNCHANGED <<stored, wpc, found, events>> /\ UNCHANGED readers

\* The process stops and starts again: the cache and every request are gone.
Restart ==
    /\ cache' = EmptyMap(Tasks)
    /\ wpc' = [w \in Posts |->
                IF wpc[w] \in Waiting \ {"new"} THEN "lost" ELSE wpc[w]]
    /\ rpc' = [q \in Readers |-> "idle"]
    /\ snap' = [q \in Readers |-> {}]
    /\ excused' = [q \in Readers |-> {}]
    /\ asked' = [q \in Readers |-> NoTask]
    /\ found' = [r \in Replies |-> NoTask]
    /\ UNCHANGED <<stored, events>>

WriteStep(w) ==
    \/ WriteFails(w)
    \/ PublishCommentAdded(w)
    \/ Invalidate(w)

ReadStep(q) ==
    \/ \E t \in Tasks : Miss(q, t)
    \/ GetCommentsByTask(q)
    \/ QueryFails(q)
    \/ Fill(q)

Next ==
    \/ \E c \in Comments : InsertComment(c)
    \/ \E r \in Replies : GetTaskIdByCommentId(r) \/ AddReply(r)
    \/ \E w \in Posts : WriteStep(w)
    \/ \E q \in Readers : ReadStep(q)
    \/ Tick
    \/ Restart

Spec == Init /\ [][Next]_vars

\* The clock advances, and a query that was sent returns or fails and what it
\* returned is stored.  Nobody has to send a request.
Fairness ==
    /\ WF_vars(Tick)
    /\ \A q \in Readers : WF_vars(GetCommentsByTask(q) \/ QueryFails(q)) /\ WF_vars(Fill(q))

FairSpec == Spec /\ Fairness

-----------------------------------------------------------------------------
(* Properties *)

\* The types of the variables.
TypeOK ==
    /\ stored \subseteq Posts
    /\ cache \in [Tasks -> {Nothing} \cup [value : Answer, left : 0 .. Ttl]]
    /\ wpc \in [Posts -> Waiting \cup Ended]
    /\ found \in [Replies -> Tasks \cup {NoTask}]
    /\ rpc \in [Readers -> {"idle", "query", "fill"}]
    /\ asked \in [Readers -> Tasks \cup {NoTask}]
    /\ snap \in [Readers -> SUBSET Posts]
    /\ excused \in [Readers -> SUBSET Posts]
    /\ events \subseteq Posts

\* Posts that are in the collection for certain once their write has returned.
Kept == {w \in Posts : w \in Replies => ParentOf[w] # NoComment}

\* Whoever is told 201 or hears CommentAdded finds the post in the collection,
\* except for a reply to an id that no comment has.
AnnouncedIsStored ==
    \A w \in Kept :
        w \in events \/ wpc[w] \in {"written", "published", "created"} => w \in stored

\* No comment and no reply makes the list of its task unreadable for good: what the
\* two write handlers store, the one read handler converts, also once the update of a
\* reply has changed the document of its comment.
StoredIsReadable == \A w \in stored : Readable(w)

\* The entry of a task, and an answer on its way into it, miss a post of the task
\* whose request has ended in 201 only if they were read before that post's
\* invalidation and stored after it.  A reply whose task could not be looked up is
\* covered as well, because it drops the entries of all tasks.
StaleOnlyIfOvertaken ==
    \A t \in Tasks :
        LET done == {w \in PostsOf(t) : wpc[w] = "created"}
        IN  /\ cache[t] # Nothing =>
                 done \ cache[t].value.posts \subseteq cache[t].value.excused
            /\ \A q \in Readers : rpc[q] = "fill" /\ asked[q] = t =>
                 done \ snap[q] \subseteq excused[q]

\* Whether a read request may be answered without the post w: from the entry of its
\* task or from an answer on its way into it.
Hidden(w) ==
    \E t \in Tasks :
        /\ w \in PostsOf(t)
        /\ \/ cache[t] # Nothing /\ w \notin cache[t].value.posts
           \/ \E q \in Readers : rpc[q] = "fill" /\ asked[q] = t /\ w \notin snap[q]

\* Whatever races, fails or restarts, a stored post is eventually in every answer,
\* for good, also one whose request ended in an error or with the process.
EventuallyShown == \A w \in Posts : (w \in stored) ~> [](~Hidden(w))

\* event_catalog.md gives the trigger of CommentAdded as "a comment added to a task
\* or a reply to a comment": what is announced has been added.
OnlyAddedIsAnnounced == events \subseteq stored
=============================================================================
