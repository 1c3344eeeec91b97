---------------------------- MODULE CommentsProofs ----------------------------
(***************************************************************************)
(* Proofs about Comments: the types, that what is announced is stored and   *)
(* can be read back, and the one way in which an answer may be stale.       *)
(***************************************************************************)
EXTENDS Comments, TLAPS

Entries == [value : Answer, left : 0 .. Ttl]

-----------------------------------------------------------------------------
(* The cache *)

LEMMA EntryIsSomething == \A e \in Entries : e # Nothing
BY NothingIsNoAnswer DEF Entries

LEMMA EmptyMapType == EmptyMap(Tasks) \in [Tasks -> {Nothing} \cup Entries]
BY DEF EmptyMap

LEMMA DropKeeps ==
    ASSUME TypeOK, NEW ts
    PROVE  /\ Drop(cache, ts) \in [Tasks -> {Nothing} \cup Entries]
           /\ \A t \in Tasks : Drop(cache, ts)[t] = IF t \in ts THEN Nothing ELSE cache[t]
BY DEF Drop, TypeOK, Entries

LEMMA PutStores ==
    ASSUME TypeOK, NEW k \in Tasks, NEW a \in Answer
    PROVE  /\ Put(cache, k, a, Ttl) \in [Tasks -> {Nothing} \cup Entries]
           /\ Put(cache, k, a, Ttl)[k].value = a
           /\ \A t \in Tasks : t # k => Put(cache, k, a, Ttl)[t] = cache[t]
<1>1. [value |-> a, left |-> Ttl] \in Entries
  BY CommentsConstants DEF Entries
<1>2. QED
  BY <1>1 DEF Put, TypeOK, Entries

\* A tick keeps an entry with its value, or takes it away.
LEMMA AgedKeepsOrEmpties ==
    ASSUME TypeOK
    PROVE  /\ Aged(cache) \in [Tasks -> {Nothing} \cup Entries]
           /\ \A t \in Tasks :
                \/ Aged(cache)[t] = Nothing
                \/ cache[t] # Nothing /\ Aged(cache)[t].value = cache[t].value
<1>1. DOMAIN cache = Tasks /\ \A t \in Tasks : cache[t] = Nothing \/ cache[t] \in Entries
  BY DEF TypeOK, Entries
<1>2. ASSUME NEW t \in Tasks, cache[t] # Nothing, cache[t].left # 0
      PROVE  [value |-> cache[t].value, left |-> cache[t].left - 1] \in Entries
  <2>1. cache[t].value \in Answer /\ cache[t].left \in 0 .. Ttl
    BY <1>1, <1>2 DEF Entries
  <2>2. cache[t].left - 1 \in 0 .. Ttl
    BY <1>2, <2>1, CommentsConstants
  <2>3. QED
    BY <2>1, <2>2 DEF Entries
<1>3. \A t \in Tasks :
        Aged(cache)[t] = IF cache[t] = Nothing \/ cache[t].left = 0 THEN Nothing
                         ELSE [value |-> cache[t].value, left |-> cache[t].left - 1]
  BY <1>1 DEF Aged
<1>4. Aged(cache) \in [Tasks -> {Nothing} \cup Entries]
  BY <1>1, <1>2 DEF Aged
<1>5. QED
  BY <1>3, <1>4

-----------------------------------------------------------------------------
(* The inductive invariant *)

\* A reply whose request has looked its comment up names a stored comment, or none
\* that exists, and what it found is the task of that comment.
RepliesKnowTheirComment ==
    \A r \in Replies :
        /\ wpc[r] # "new" => ParentOf[r] \in stored \cup {NoComment}
        /\ found[r] # NoTask => ParentOf[r] \in Comments /\ found[r] = TaskOf[ParentOf[r]]

RequestsAskForTasks == \A q \in Readers : rpc[q] # "idle" => asked[q] \in Tasks

CommentsInv ==
    /\ TypeOK
    /\ RequestsAskForTasks
    /\ RepliesKnowTheirComment
    /\ AnnouncedIsStored
    /\ StaleOnlyIfOvertaken

\* Every post of a task is kept once its write has returned.
LEMMA PostsAreKept == \A t \in Tasks : PostsOf(t) \subseteq Kept
BY CommentsConstants DEF PostsOf, Kept, Posts

LEMMA InvInit == Init => CommentsInv
<1> SUFFICES ASSUME Init PROVE CommentsInv
  OBVIOUS
<1>1. TypeOK
  BY EmptyMapType DEF Init, TypeOK, Waiting, Ended, Entries
<1>2. RepliesKnowTheirComment
  BY DEF Init, RepliesKnowTheirComment, Posts
<1>3. AnnouncedIsStored
  BY DEF Init, AnnouncedIsStored, Kept
<1>4. StaleOnlyIfOvertaken
  BY DEF Init, StaleOnlyIfOvertaken, EmptyMap, PostsOf, Posts
<1>5. RequestsAskForTasks
  BY DEF Init, RequestsAskForTasks
<1>6. QED
  BY <1>1, <1>2, <1>3, <1>4, <1>5 DEF CommentsInv

-----------------------------------------------------------------------------
(* Type correctness *)

LEMMA PushAdds ==
    ASSUME TypeOK, NEW r \in Replies, Push(r)
    PROVE  /\ stored \subseteq stored' /\ stored' \subseteq Posts
           /\ ParentOf[r] \in stored => r \in stored'
BY DEF Push, TypeOK, Posts

LEMMA TypeStep == TypeOK /\ RequestsAskForTasks /\ [Next]_vars => TypeOK'
<1> SUFFICES ASSUME TypeOK, RequestsAskForTasks, [Next]_vars PROVE TypeOK'
  OBVIOUS
<1> USE DEF Waiting, Ended
<1>1. ASSUME NEW c \in Comments, InsertComment(c) PROVE TypeOK'
  BY <1>1 DEF InsertComment, TypeOK, Posts, readers
<1>2. ASSUME NEW r \in Replies, GetTaskIdByCommentId(r) PROVE TypeOK'
  <2>1. found' \in [Replies -> Tasks \cup {NoTask}]
    <3>1. ParentOf[r] \in Comments => TaskOf[ParentOf[r]] \in Tasks
      BY CommentsConstants
    <3>2. ParentOf[r] \in stored => ParentOf[r] \in Comments
      BY CommentsConstants DEF TypeOK, Posts
    <3>3. QED
      BY <1>2, <3>1, <3>2 DEF GetTaskIdByCommentId, TypeOK
  <2>2. QED
    BY <1>2, <2>1 DEF GetTaskIdByCommentId, TypeOK, readers
<1>3. ASSUME NEW r \in Replies, AddReply(r) PROVE TypeOK'
  BY <1>3, PushAdds DEF AddReply, TypeOK, readers
<1>4. ASSUME NEW w \in Posts, WriteFails(w) PROVE TypeOK'
  <2>1. stored' \subseteq Posts
    BY <1>4, PushAdds DEF WriteFails, TypeOK
  <2>2. found' \in [Replies -> Tasks \cup {NoTask}]
    BY <1>4 DEF WriteFails, Forget, TypeOK
  <2>3. QED
    BY <1>4, <2>1, <2>2 DEF WriteFails, TypeOK, readers
<1>5. ASSUME NEW w \in Posts, PublishCommentAdded(w) PROVE TypeOK'
  BY <1>5 DEF PublishCommentAdded, TypeOK, readers
<1>6. ASSUME NEW w \in Posts, Invalidate(w) PROVE TypeOK'
  <2>1. cache' \in [Tasks -> {Nothing} \cup Entries]
    BY <1>6, DropKeeps DEF Invalidate
  <2>2. found' \in [Replies -> Tasks \cup {NoTask}]
    BY <1>6 DEF Invalidate, Forget, TypeOK
  <2>3. excused' \in [Readers -> SUBSET Posts]
    BY <1>6 DEF Invalidate, TypeOK
  <2>4. QED
    BY <1>6, <2>1, <2>2, <2>3 DEF Invalidate, TypeOK, Entries
<1>7. ASSUME NEW q \in Readers, NEW t \in Tasks, Miss(q, t) PROVE TypeOK'
  BY <1>7 DEF Miss, TypeOK
<1>8. ASSUME NEW q \in Readers, GetCommentsByTask(q) PROVE TypeOK'
  BY <1>8 DEF GetCommentsByTask, TypeOK
<1>9. ASSUME NEW q \in Readers, QueryFails(q) PROVE TypeOK'
  BY <1>9 DEF QueryFails, TypeOK
<1>10. ASSUME NEW q \in Readers, Fill(q) PROVE TypeOK'
  <2>1. [posts |-> snap[q], excused |-> excused[q]] \in Answer
    BY DEF TypeOK, Answer
  <2>2. cache' \in [Tasks -> {Nothing} \cup Entries]
    BY <1>10, <2>1, PutStores DEF Fill, RequestsAskForTasks
  <2>3. QED
    BY <1>10, <2>2 DEF Fill, TypeOK, Entries
<1>11. CASE Tick
  BY <1>11, AgedKeepsOrEmpties DEF Tick, TypeOK, Entries, readers
<1>12. CASE Restart
  BY <1>12, EmptyMapType DEF Restart, TypeOK, Entries
<1>13. CASE UNCHANGED vars
  BY <1>13 DEF vars, TypeOK
<1>14. QED
  BY <1>1, <1>2, <1>3, <1>4, <1>5, <1>6, <1>7, <1>8, <1>9, <1>10, <1>11, <1>12, <1>13
     DEF Next, WriteStep, ReadStep
LEMMA AskStep == TypeOK /\ RequestsAskForTasks /\ [Next]_vars => RequestsAskForTasks'
<1> SUFFICES ASSUME TypeOK, RequestsAskForTasks, [Next]_vars PROVE RequestsAskForTasks'
  OBVIOUS
<1>1. ASSUME NEW q \in Readers, ReadStep(q) PROVE RequestsAskForTasks'
  <2>1. ASSUME NEW t \in Tasks, Miss(q, t) PROVE RequestsAskForTasks'
    BY <2>1 DEF Miss, RequestsAskForTasks, TypeOK
  <2>2. CASE GetCommentsByTask(q)
    BY <2>2 DEF GetCommentsByTask, RequestsAskForTasks, TypeOK
  <2>3. CASE QueryFails(q) \/ Fill(q)
    BY <2>3 DEF QueryFails, Fill, RequestsAskForTasks, TypeOK
  <2>4. QED
    BY <1>1, <2>1, <2>2, <2>3 DEF ReadStep
<1>2. CASE UNCHANGED <<rpc, asked>>
  BY <1>2 DEF RequestsAskForTasks
<1>3. CASE Restart
  BY <1>3 DEF Restart, RequestsAskForTasks
<1>4. QED
  BY <1>1, <1>2, <1>3 DEF Next, WriteStep, InsertComment, GetTaskIdByCommentId, AddReply,
     WriteFails, PublishCommentAdded, Invalidate, Tick, vars, readers

-----------------------------------------------------------------------------
(* The collection *)

\* Nothing deletes a post, and only its own request writes it.
LEMMA StoredGrows == TypeOK /\ [Next]_vars => stored \subseteq stored'
<1> SUFFICES ASSUME TypeOK, [Next]_vars PROVE stored \subseteq stored'
  OBVIOUS
<1>1. ASSUME NEW r \in Replies, AddReply(r) PROVE stored \subseteq stored'
  BY <1>1, PushAdds DEF AddReply
<1>2. ASSUME NEW w \in Posts, WriteFails(w) PROVE stored \subseteq stored'
  BY <1>2, PushAdds DEF WriteFails
<1>3. QED
  BY <1>1, <1>2 DEF Next, WriteStep, ReadStep, InsertComment, GetTaskIdByCommentId,
     PublishCommentAdded, Invalidate, Miss, GetCommentsByTask, QueryFails, Fill, Tick,
     Restart, vars

LEMMA RepliesStep ==
    TypeOK /\ RepliesKnowTheirComment /\ [Next]_vars => RepliesKnowTheirComment'
<1> SUFFICES ASSUME TypeOK, RepliesKnowTheirComment, [Next]_vars
             PROVE  RepliesKnowTheirComment'
  OBVIOUS
<1>0. /\ stored \subseteq stored' /\ stored \subseteq Comments \cup Replies
      /\ ParentOf \in [Replies -> Comments \cup {NoComment}]
      /\ NoComment \notin Comments \cup Replies
      /\ Replies \subseteq Posts
      /\ wpc \in [Posts -> Waiting \cup Ended] /\ found \in [Replies -> Tasks \cup {NoTask}]
  BY StoredGrows, CommentsConstants DEF TypeOK, Posts
<1>1. ASSUME NEW s \in Replies, GetTaskIdByCommentId(s) PROVE RepliesKnowTheirComment'
  <2>1. ASSUME NEW r \in Replies, r # s PROVE wpc'[r] = wpc[r] /\ found'[r] = found[r]
    BY <1>0, <1>1, <2>1 DEF GetTaskIdByCommentId
  <2>2. ParentOf[s] \in stored' \cup {NoComment}
    BY <1>1 DEF GetTaskIdByCommentId
  <2>3. found'[s] # NoTask => ParentOf[s] \in Comments /\ found'[s] = TaskOf[ParentOf[s]]
    BY <1>0, <1>1 DEF GetTaskIdByCommentId, RepliesKnowTheirComment
  <2>4. QED
    BY <1>0, <2>1, <2>2, <2>3 DEF RepliesKnowTheirComment
<1>2. ASSUME \A r \in Replies :
                /\ wpc'[r] # "new" => wpc[r] # "new"
                /\ found'[r] = NoTask \/ found'[r] = found[r]
      PROVE  RepliesKnowTheirComment'
  BY <1>0, <1>2 DEF RepliesKnowTheirComment
<1>3. ASSUME NEW c \in Comments, InsertComment(c) PROVE RepliesKnowTheirComment'
  BY <1>0, <1>2, <1>3, CommentsConstants DEF InsertComment
<1>4. ASSUME NEW s \in Replies, AddReply(s) PROVE RepliesKnowTheirComment'
  BY <1>0, <1>2, <1>4 DEF AddReply
<1>5. ASSUME NEW w \in Posts, WriteStep(w) PROVE RepliesKnowTheirComment'
  <2>1. \A r \in Replies : r = w => wpc[r] # "new"
    BY <1>5, CommentsConstants DEF WriteStep, WriteFails, PublishCommentAdded, Invalidate
  <2>2. \A r \in Replies : r # w => wpc'[r] = wpc[r]
    BY <1>0, <1>5 DEF WriteStep, WriteFails, PublishCommentAdded, Invalidate
  <2>3. \A r \in Replies : found'[r] = NoTask \/ found'[r] = found[r]
    BY <1>0, <1>5 DEF WriteStep, WriteFails, PublishCommentAdded, Invalidate, Forget
  <2>4. QED
    BY <1>2, <2>1, <2>2, <2>3
<1>6. CASE UNCHANGED <<wpc, found>>
  BY <1>2, <1>6
<1>7. CASE Restart
  BY <1>0, <1>2, <1>7 DEF Restart
<1>8. QED
  BY <1>1, <1>3, <1>4, <1>5, <1>6, <1>7
     DEF Next, ReadStep, Miss, GetCommentsByTask, QueryFails, Fill, Tick, vars

LEMMA AnnouncedStep ==
    TypeOK /\ RepliesKnowTheirComment /\ AnnouncedIsStored /\ [Next]_vars
    => AnnouncedIsStored'
<1> SUFFICES ASSUME TypeOK, RepliesKnowTheirComment, AnnouncedIsStored, [Next]_vars,
                    NEW w \in Kept,
                    w \in events' \/ wpc'[w] \in {"written", "published", "created"},
                    w \notin stored
             PROVE  w \in stored'
  BY StoredGrows DEF AnnouncedIsStored, Kept, Posts
<1>0. /\ w \in Posts /\ w \notin events
      /\ wpc[w] \notin {"written", "published", "created"}
      /\ wpc \in [Posts -> Waiting \cup Ended]
  BY DEF AnnouncedIsStored, Kept, TypeOK
<1>1. ASSUME NEW c \in Comments, InsertComment(c) PROVE w \in stored'
  BY <1>0, <1>1 DEF InsertComment
<1>2. ASSUME NEW r \in Replies, AddReply(r) PROVE w \in stored'
  <2>1. w = r /\ wpc[r] = "found" /\ Push(r)
    BY <1>0, <1>2 DEF AddReply
  <2>2. ParentOf[r] \in stored
    BY <2>1 DEF RepliesKnowTheirComment, Kept
  <2>3. QED
    BY <2>1, <2>2, PushAdds
<1>3. ASSUME NEW r \in Replies, GetTaskIdByCommentId(r) PROVE FALSE
  BY <1>0, <1>3 DEF GetTaskIdByCommentId
<1>4. ASSUME NEW v \in Posts, WriteStep(v) PROVE FALSE
  BY <1>0, <1>4 DEF WriteStep, WriteFails, PublishCommentAdded, Invalidate
<1>5. CASE UNCHANGED <<wpc, events>>
  BY <1>0, <1>5
<1>6. CASE Restart
  BY <1>0, <1>6 DEF Restart
<1>7. QED
  BY <1>1, <1>2, <1>3, <1>4, <1>5, <1>6
     DEF Next, ReadStep, Miss, GetCommentsByTask, QueryFails, Fill, Tick, vars

-----------------------------------------------------------------------------
(* What an answer may miss *)

\* StaleOnlyIfOvertaken, for one post of one task.
Accounted(t, w) ==
    /\ cache[t] # Nothing => w \in cache[t].value.posts \cup cache[t].value.excused
    /\ \A q \in Readers : rpc[q] = "fill" /\ asked[q] = t => w \in snap[q] \cup excused[q]

LEMMA StaleIsPostByPost ==
    StaleOnlyIfOvertaken <=>
        \A t \in Tasks : \A w \in PostsOf(t) : wpc[w] = "created" => Accounted(t, w)
BY DEF StaleOnlyIfOvertaken, Accounted

\* The request of a post drops the entry of the post's task, also when it could not
\* look the task up.
LEMMA OwnEntryIsDropped ==
    ASSUME RepliesKnowTheirComment, NEW t \in Tasks, NEW w \in PostsOf(t)
    PROVE  t \in EntriesToDrop(w)
BY CommentsConstants DEF RepliesKnowTheirComment, PostsOf, EntriesToDrop

\* Only the end of a request makes it one that has ended in 201.
LEMMA CreatedByInvalidate ==
    ASSUME TypeOK, [Next]_vars, NEW w \in Posts, wpc'[w] = "created"
    PROVE  wpc[w] = "created" \/ Invalidate(w)
<1>0. wpc \in [Posts -> Waiting \cup Ended]
  BY DEF TypeOK
<1>1. ASSUME NEW v \in Posts, WriteStep(v) PROVE wpc[w] = "created" \/ Invalidate(w)
  BY <1>0, <1>1 DEF WriteStep, WriteFails, PublishCommentAdded, Invalidate
<1>2. ASSUME NEW c \in Comments, InsertComment(c) PROVE wpc[w] = "created"
  BY <1>0, <1>2 DEF InsertComment
<1>3. ASSUME NEW r \in Replies, GetTaskIdByCommentId(r) \/ AddReply(r)
      PROVE  wpc[w] = "created"
  BY <1>0, <1>3 DEF GetTaskIdByCommentId, AddReply
<1>4. CASE Restart
  BY <1>0, <1>4 DEF Restart
<1>5. CASE UNCHANGED wpc
  BY <1>5
<1>6. QED
  BY <1>1, <1>2, <1>3, <1>4, <1>5
     DEF Next, ReadStep, Miss, GetCommentsByTask, QueryFails, Fill, Tick, vars

LEMMA StaleStep == CommentsInv /\ [Next]_vars => StaleOnlyIfOvertaken'
<1> SUFFICES ASSUME CommentsInv, [Next]_vars,
                    NEW t \in Tasks, NEW w \in PostsOf(t), wpc'[w] = "created"
             PROVE  Accounted(t, w)'
  BY StaleIsPostByPost DEF StaleOnlyIfOvertaken, Accounted, PostsOf
<1>t. TypeOK /\ RequestsAskForTasks
  BY DEF CommentsInv
<1>p. w \in Posts /\ w \in Kept
  BY PostsAreKept DEF Kept
<1>1. CASE Invalidate(w)
  <2>1. t \in EntriesToDrop(w)
    BY OwnEntryIsDropped DEF CommentsInv
  <2>2. cache'[t] = Nothing
    BY <1>1, <1>t, <2>1, DropKeeps DEF Invalidate
  <2>3. ASSUME NEW q \in Readers, rpc'[q] = "fill", asked'[q] = t PROVE w \in excused'[q]
    BY <1>1, <2>1, <2>3 DEF Invalidate
  <2>4. QED
    BY <2>2, <2>3 DEF Accounted
<1>2. CASE wpc[w] = "created"
  <2>0. Accounted(t, w) /\ w \in stored
    BY <1>2, <1>p, StaleIsPostByPost DEF CommentsInv, AnnouncedIsStored
  <2>1. ASSUME NEW v \in Posts, Invalidate(v) PROVE Accounted(t, w)'
    <3>1. cache'[t] = Nothing \/ cache'[t] = cache[t]
      BY <1>t, <2>1, DropKeeps DEF Invalidate
    <3>2. \A q \in Readers : excused[q] \subseteq excused'[q]
      BY <2>1 DEF Invalidate
    <3>3. UNCHANGED <<rpc, asked, snap>>
      BY <2>1 DEF Invalidate
    <3>4. QED
      BY <2>0, <3>1, <3>2, <3>3 DEF Accounted
  <2>2. ASSUME NEW q \in Readers, Fill(q) PROVE Accounted(t, w)'
    <3> DEFINE a == [posts |-> snap[q], excused |-> excused[q]]
    <3>1. a \in Answer /\ asked[q] \in Tasks /\ a.posts = snap[q] /\ a.excused = excused[q]
      BY <1>t, <2>2 DEF TypeOK, Answer, Fill, RequestsAskForTasks
    <3> HIDE DEF a
    <3>2. cache' = Put(cache, asked[q], a, Ttl)
      BY <2>2 DEF Fill, a
    <3>3. cache'[t] # Nothing =>
            w \in cache'[t].value.posts \cup cache'[t].value.excused
      <4>1. CASE asked[q] = t
        <5>1. w \in a.posts \cup a.excused
          BY <2>0, <2>2, <3>1, <4>1 DEF Accounted, Fill
        <5>2. cache'[t].value = a
          BY <1>t, <3>1, <3>2, <4>1, PutStores
        <5>3. QED
          BY <5>1, <5>2
      <4>2. CASE asked[q] # t
        BY <1>t, <2>0, <3>1, <3>2, <4>2, PutStores DEF Accounted
      <4>3. QED
        BY <4>1, <4>2
    <3>4. \A d \in Readers : rpc'[d] = "fill" =>
            /\ rpc[d] = "fill" /\ asked'[d] = asked[d]
            /\ snap'[d] = snap[d] /\ excused'[d] = excused[d]
      BY <1>t, <2>2 DEF Fill, TypeOK
    <3>5. QED
      BY <2>0, <3>3, <3>4 DEF Accounted
  <2>3. ASSUME NEW q \in Readers, GetCommentsByTask(q) PROVE Accounted(t, w)'
    <3>1. cache' = cache /\ asked' = asked /\ excused' = excused
      BY <2>3 DEF GetCommentsByTask
    <3>2. asked[q] = t => w \in snap'[q]
      BY <1>t, <2>0, <2>3 DEF GetCommentsByTask, TypeOK
    <3>3. \A d \in Readers : d # q => rpc'[d] = rpc[d] /\ snap'[d] = snap[d]
      BY <1>t, <2>3 DEF GetCommentsByTask, TypeOK
    <3>4. QED
      BY <2>0, <3>1, <3>2, <3>3 DEF Accounted
  <2>4. ASSUME NEW q \in Readers, (\E s \in Tasks : Miss(q, s)) \/ QueryFails(q)
        PROVE  Accounted(t, w)'
    <3>1. cache' = cache /\ snap' = snap /\ excused' = excused
      BY <2>4 DEF Miss, QueryFails
    <3>2. \A d \in Readers : rpc'[d] = "fill" => rpc[d] = "fill" /\ asked'[d] = asked[d]
      BY <1>t, <2>4 DEF Miss, QueryFails, TypeOK
    <3>3. QED
      BY <2>0, <3>1, <3>2 DEF Accounted
  <2>5. CASE Tick
    BY <1>t, <2>0, <2>5, AgedKeepsOrEmpties DEF Tick, Accounted, readers
  <2>6. CASE Restart
    BY <2>6 DEF Restart, EmptyMap, Accounted
  <2>7. CASE UNCHANGED <<cache, rpc, asked, snap, excused>>
    BY <2>0, <2>7 DEF Accounted
  <2>8. QED
    BY <2>1, <2>2, <2>3, <2>4, <2>5, <2>6, <2>7
       DEF Next, WriteStep, ReadStep, InsertComment, GetTaskIdByCommentId, AddReply,
           WriteFails, PublishCommentAdded, vars, readers
<1>3. QED
  BY <1>1, <1>2, <1>t, <1>p, CreatedByInvalidate

-----------------------------------------------------------------------------
(* The theorems *)

LEMMA InvStep == CommentsInv /\ [Next]_vars => CommentsInv'
BY TypeStep, AskStep, RepliesStep, AnnouncedStep, StaleStep DEF CommentsInv

LEMMA InvHolds == Spec => []CommentsInv
BY InvInit, InvStep, PTL DEF Spec

\* The collection, the cache and the requests of the three handlers keep their types.
THEOREM TypeCorrect == Spec => []TypeOK
<1>1. CommentsInv => TypeOK
  BY DEF CommentsInv
<1>2. QED
  BY <1>1, InvHolds, PTL

\* 201 of AddCommentHandler and AddReplyHandler, and CommentAdded, are about posts in
\* the collection, unless a reply names an id that no comment has.
THEOREM AnnouncedPostIsStored == Spec => []AnnouncedIsStored
<1>1. CommentsInv => AnnouncedIsStored
  BY DEF CommentsInv
<1>2. QED
  BY <1>1, InvHolds, PTL

\* GetCommentsHandler misses an acknowledged post only if its query was overtaken by
\* the invalidation of that post.
THEOREM StaleAnswerWasOvertaken == Spec => []StaleOnlyIfOvertaken
<1>1. CommentsInv => StaleOnlyIfOvertaken
  BY DEF CommentsInv
<1>2. QED
  BY <1>1, InvHolds, PTL

\* CommentFromBson and ReplyFromBson accept what CommentToBson, ReplyToBson and the
\* update of AddReply leave in the collection, so no post spoils the list of its task.
THEOREM StoredPostIsReadable == Spec => []StoredIsReadable
<1>1. ReplyFromBson \subseteq ReplyToBson
  BY DEF ReplyFromBson, ReplyToBson
<1>2. ASSUME NEW c \in Comments PROVE ReadsComment(Document(c))
  <2>1. CommentFromBson \subseteq Document(c)
    BY DEF CommentFromBson, CommentToBson, Document
  <2>2. ASSUME NEW field \in Document(c), field[1] = "updated_at" PROVE field[2] = "date"
    BY <2>2 DEF CommentToBson, Document
  <2>3. QED
    BY <2>1, <2>2 DEF ReadsComment
<1>3. CommentsInv => StoredIsReadable
  BY <1>1, <1>2 DEF CommentsInv, TypeOK, StoredIsReadable, Readable, Posts
<1>4. QED
  BY <1>3, InvHolds, PTL

-----------------------------------------------------------------------------
(* The cache *)

Map == INSTANCE ExpiringMap
    WITH shown <- cache, answer <- Nothing, Keys <- Tasks, Values <- Answer,
         Ttls <- {Ttl}, Prefixes <- {Tasks}

\* The handlers and the restart do to the entries what ExpiringMap, which CacheManager
\* implements, allows its callers: one entry or all of them are dropped, and no entry lives
\* for another time than Ttl.
THEOREM CacheIsExpiringMap == Spec => Map!Spec
<1>1. Init => Map!Init
  BY DEF Init, Map!Init, EmptyMap, Map!EmptyMap
<1>2. CommentsInv /\ [Next]_vars => [Map!Next]_<<cache, Nothing>>
  <2> SUFFICES ASSUME CommentsInv, [Next]_vars PROVE Map!Next \/ cache' = cache
    OBVIOUS
  <2>t. TypeOK /\ RequestsAskForTasks
    BY DEF CommentsInv
  <2>1. ASSUME NEW w \in Posts, Invalidate(w) PROVE Map!Next
    <3>1. cache' = Map!Drop(cache, EntriesToDrop(w))
      BY <2>1 DEF Invalidate, Drop, Map!Drop
    <3>2. EntriesToDrop(w) = Tasks \/ \E t \in Tasks : EntriesToDrop(w) = {t}
      BY <2>t, CommentsConstants DEF EntriesToDrop, TypeOK, Posts
    <3>3. QED
      BY <3>1, <3>2 DEF Map!Next, Map!Invalidate
  <2>2. ASSUME NEW q \in Readers, Fill(q) PROVE Map!Next
    <3>1. [posts |-> snap[q], excused |-> excused[q]] \in Answer /\ asked[q] \in Tasks
      BY <2>t, <2>2 DEF TypeOK, Answer, RequestsAskForTasks, Fill
    <3>2. Map!Set(asked[q], [posts |-> snap[q], excused |-> excused[q]], Ttl)
      BY <2>2 DEF Fill, Map!Set, Put, Map!Put
    <3>3. QED
      BY <3>1, <3>2 DEF Map!Next
  <2>3. CASE Tick
    BY <2>3 DEF Tick, Map!Next, Map!Tick, Aged, Map!Aged
  <2>4. CASE Restart
    <3>1. DOMAIN cache = Tasks
      BY <2>t DEF TypeOK
    <3>2. cache' = Map!Drop(cache, Tasks)
      BY <2>4, <3>1 DEF Restart, EmptyMap, Map!Drop
    <3>3. QED
      BY <3>2 DEF Map!Next, Map!Invalidate
  <2>5. QED
    BY <2>1, <2>2, <2>3, <2>4 DEF Next, InsertComment, GetTaskIdByCommentId, AddReply, WriteStep,
       WriteFails, PublishCommentAdded, ReadStep, Miss, GetCommentsByTask, QueryFails, vars
<1>3. QED
  BY <1>1, <1>2, InvHolds, PTL DEF Spec, Map!Spec
=============================================================================
