---------------------------- MODULE EventPipeline ----------------------------
(***************************************************************************)
(* The events: EventProducer::Publish in the handlers, the Kafka topics,    *)
(* EventConsumer::ProcessBatch and the collection raw_events of MongoDB.    *)
(*                                                                          *)
(* Nothing commits consumer offsets: there is no call of AsyncCommit and no *)
(* enable_auto_commit in the configuration, and auto_offset_reset is        *)
(* earliest.  So whenever the consumer gets its partitions assigned, it     *)
(* begins with the first message of every topic again: after a restart of   *)
(* the process, and after it has lost its place in the group and has joined *)
(* it again while the process runs on (a broker that is away for longer     *)
(* than the session timeout, a rebalance).  A pass is the reading that      *)
(* begins with one assignment.                                              *)
(*                                                                          *)
(* Producer and consumer are one process, so a restart also cuts off        *)
(* requests between the commit of their row and the publication of its      *)
(* event, and the batch in hand.  A rejoin cuts off neither, and the batch  *)
(* may then hold messages of two passes.                                    *)
(*                                                                          *)
(* Foreign events are messages this version of the service does not write:  *)
(* of a type it does not know, or not JSON with the envelope's fields.      *)
(***************************************************************************)
EXTENDS Integers, Sequences, FiniteSets

CONSTANTS
    Events,       \* events, each with an event_id of its own
    Foreign,      \* those another writer puts into the topics
    Malformed,    \* foreign ones that do not parse
    TypeOf,       \* event_type of each event
    Topics,       \* topics the consumer subscribes to, one partition each
    TopicOf,      \* the topic each event is sent to
    MaxBatch,     \* max_batch_size (5)
    MaxPasses     \* bound: how often the reading begins anew

ASSUME PipelineConstants ==
    /\ Foreign \subseteq Events
    /\ Malformed \subseteq Foreign
    /\ TopicOf \in [Events -> Topics]
    /\ MaxBatch \in Nat \ {0}
    /\ MaxPasses \in Nat

VARIABLES
    request,    \* request[e]: the request whose event e is
    log,        \* log[t]: the messages of topic t, in offset order
    position,   \* position[t]: how many of them the consumer has been given
    batch,      \* the messages ProcessBatch still has to process; its span
    polling,    \* whether the consumer is collecting the next batch
    stored,     \* the messages whose documents are in raw_events, in insertion order
    failed,     \* history: messages whose InsertOne failed
    skipped,    \* history: messages that did not parse or lacked a field
    pass        \* how often the reading has begun anew

vars == <<request, log, position, batch, polling, stored, failed, skipped, pass>>

consumer == <<position, batch, polling, stored, failed, skipped>>

Init ==
    /\ request = [e \in Events |-> "new"]
    /\ log = [t \in Topics |-> <<>>]
    /\ position = [t \in Topics |-> 0]
    /\ batch = <<>>
    /\ polling = TRUE
    /\ stored = <<>>
    /\ failed = {}
    /\ skipped = {}
    /\ pass = 0

\* A message as the consumer is given it: its topic, its offset, counted from 1 here,
\* and, as history, the pass that gave it.
Message(t, i, k) == [topic |-> t, offset |-> i, pass |-> k]

EventOf(m) == log[m.topic][m.offset]

-----------------------------------------------------------------------------
(* What a message carries and what its processor insists on *)

Envelope == {"event_id", "event_type", "timestamp", "version", "payload", "metadata"}
RequiredOfEnvelope == {"event_id", "event_type", "timestamp", "payload"}

EventTypes ==
    {"UserRegistered", "UserLoggedIn", "ProjectCreated", "TaskCreated", "CommentAdded"}

\* ToPayload of each event structure.
Payload(type) ==
    CASE type = "UserRegistered" -> {"user_id", "login", "email", "first_name", "last_name"}
      [] type = "UserLoggedIn"   -> {"user_id", "login", "ip_address"}
      [] type = "ProjectCreated" -> {"project_id", "name", "key", "owner_id"}
      [] type = "TaskCreated"    -> {"task_id", "project_id", "title", "description",
                                     "priority", "creator_id", "status"}
      [] type = "CommentAdded"   -> {"comment_id", "task_id", "author", "text"}
      [] OTHER                   -> {}

\* Mutant: the processor reads the address under another name.
RequiredRenamed(type) ==
    CASE type = "UserRegistered" -> {"user_id", "login", "email", "first_name", "last_name"}
      [] type = "UserLoggedIn"   -> {"user_id", "login", "ip"}
      [] type = "ProjectCreated" -> {"project_id", "name", "key", "owner_id"}
      [] type = "TaskCreated"    -> {"task_id", "project_id", "title", "priority", "status"}
      [] type = "CommentAdded"   -> {"comment_id", "task_id", "author", "text"}
      [] OTHER                   -> {}

\* The fields each Process... function converts; a missing one is an exception.
\* A type without a function is only warned about.
Required(type) ==
    CASE type = "UserRegistered" -> {"user_id", "login", "email", "first_name", "last_name"}
      [] type = "UserLoggedIn"   -> {"user_id", "login", "ip_address"}
      [] type = "ProjectCreated" -> {"project_id", "name", "key", "owner_id"}
      [] type = "TaskCreated"    -> {"task_id", "project_id", "title", "priority", "status"}
      [] type = "CommentAdded"   -> {"comment_id", "task_id", "author", "text"}
      [] OTHER                   -> {}

Processable(e) ==
    /\ e \notin Malformed
    /\ RequiredOfEnvelope \subseteq Envelope
    /\ Required(TypeOf[e]) \subseteq Payload(TypeOf[e])

-----------------------------------------------------------------------------
(* The producer *)

\* The handler's own write is committed; the event comes next.
CommitRow(e) ==
    /\ e \notin Foreign
    /\ request[e] = "new"
    /\ request' = [request EXCEPT ![e] = "committed"]
    /\ UNCHANGED <<log, pass>> /\ UNCHANGED consumer

Deliver(e) == log' = [log EXCEPT ![TopicOf[e]] = Append(@, e)]

\* Mutant: a Send that throws is repeated without the idempotent producer.
PublishTwice(e) ==
    /\ request[e] = "committed"
    /\ \/ Deliver(e)
       \/ log' = [log EXCEPT ![TopicOf[e]] = @ \o <<e, e>>]
    /\ request' = [request EXCEPT ![e] = "answered"]
    /\ UNCHANGED pass /\ UNCHANGED consumer

\* Publish: Send waits for the delivery report, for delivery_timeout at most.
\* Publish swallows an exception, after which the message may be in the topic or
\* not; the idempotent producer never writes it twice.
Publish(e) ==
    /\ request[e] = "committed"
    /\ \/ Deliver(e)
       \/ UNCHANGED log
    /\ request' = [request EXCEPT ![e] = "answered"]
    /\ UNCHANGED pass /\ UNCHANGED consumer

\* Another writer sends an event.
PublishForeign(e) ==
    /\ e \in Foreign
    /\ request[e] = "new"
    /\ Deliver(e)
    /\ request' = [request EXCEPT ![e] = "answered"]
    /\ UNCHANGED pass /\ UNCHANGED consumer

-----------------------------------------------------------------------------
(* The consumer *)

\* Mutant: max_batch_size is not observed.
PollOn(t) ==
    /\ polling
    /\ position[t] < Len(log[t])
    /\ batch' = Append(batch, Message(t, position[t] + 1, pass))
    /\ position' = [position EXCEPT ![t] = @ + 1]
    /\ UNCHANGED <<request, log, polling, stored, failed, skipped, pass>>

\* The next message of a topic joins the batch that is being collected.
Poll(t) ==
    /\ polling
    /\ Len(batch) < MaxBatch
    /\ position[t] < Len(log[t])
    /\ batch' = Append(batch, Message(t, position[t] + 1, pass))
    /\ position' = [position EXCEPT ![t] = @ + 1]
    /\ UNCHANGED <<request, log, polling, stored, failed, skipped, pass>>

\* Mutant: only a full batch is handed over.
StartFullBatch ==
    /\ polling
    /\ Len(batch) = MaxBatch
    /\ polling' = FALSE
    /\ UNCHANGED <<request, log, position, batch, stored, failed, skipped, pass>>

\* poll_timeout has passed or the batch is full: ProcessBatch is called.
StartBatch ==
    /\ polling
    /\ batch # <<>>
    /\ polling' = FALSE
    /\ UNCHANGED <<request, log, position, batch, stored, failed, skipped, pass>>

\* Mutant: the try block is around the loop, so a bad message ends the batch.
SkipRest ==
    /\ ~polling
    /\ batch # <<>>
    /\ ~Processable(EventOf(Head(batch)))
    /\ skipped' = skipped \cup {Head(batch)}
    /\ batch' = <<>>
    /\ UNCHANGED <<request, log, position, polling, stored, failed, pass>>

\* A message that does not parse, or whose processor throws: logged and left.
Skip ==
    /\ ~polling
    /\ batch # <<>>
    /\ ~Processable(EventOf(Head(batch)))
    /\ skipped' = skipped \cup {Head(batch)}
    /\ batch' = Tail(batch)
    /\ UNCHANGED <<request, log, position, polling, stored, failed, pass>>

\* Mutant: the batch is processed from its last message on.
StoreLast ==
    /\ ~polling
    /\ batch # <<>>
    /\ Processable(EventOf(batch[Len(batch)]))
    /\ \/ /\ stored' = Append(stored, batch[Len(batch)])
          /\ UNCHANGED failed
       \/ /\ failed' = failed \cup {batch[Len(batch)]}
          /\ UNCHANGED stored
    /\ batch' = SubSeq(batch, 1, Len(batch) - 1)
    /\ UNCHANGED <<request, log, position, polling, skipped, pass>>

\* StoreEvent: one InsertOne without an upsert or a unique index.  It swallows its
\* exceptions, after which the message is not tried again in this pass.
Store ==
    /\ ~polling
    /\ batch # <<>>
    /\ Processable(EventOf(Head(batch)))
    /\ \/ /\ stored' = Append(stored, Head(batch))
          /\ UNCHANGED failed
       \/ /\ failed' = failed \cup {Head(batch)}
          /\ UNCHANGED stored
    /\ batch' = Tail(batch)
    /\ UNCHANGED <<request, log, position, polling, skipped, pass>>

\* ProcessBatch returns; nothing is committed to the broker.
EndBatch ==
    /\ ~polling
    /\ batch = <<>>
    /\ polling' = TRUE
    /\ UNCHANGED <<request, log, position, batch, stored, failed, skipped, pass>>

\* Mutant: the consumer goes on where it was, losing the batch in hand.
RestartInPlace ==
    /\ pass < MaxPasses
    /\ pass' = pass + 1
    /\ batch' = <<>>
    /\ polling' = TRUE
    /\ request' = [e \in Events |-> IF request[e] = "committed" THEN "lost" ELSE request[e]]
    /\ UNCHANGED <<log, position, stored, failed, skipped>>

\* The group has no committed offset, so the consumer begins with the earliest message
\* of every topic.
BeginAgain ==
    /\ pass < MaxPasses
    /\ pass' = pass + 1
    /\ position' = [t \in Topics |-> 0]

\* The process restarts.
Restart ==
    /\ BeginAgain
    /\ batch' = <<>>
    /\ polling' = TRUE
    /\ request' = [e \in Events |-> IF request[e] = "committed" THEN "lost" ELSE request[e]]
    /\ UNCHANGED <<log, stored, failed, skipped>>

\* The consumer joins its group again while the process runs on.  What has been polled
\* is still processed.
Rejoin ==
    /\ BeginAgain
    /\ UNCHANGED <<request, log, batch, polling, stored, failed, skipped>>

Next ==
    \/ \E e \in Events : CommitRow(e) \/ Publish(e) \/ PublishForeign(e)
    \/ \E t \in Topics : Poll(t)
    \/ StartBatch
    \/ Skip
    \/ Store
    \/ EndBatch
    \/ Restart
    \/ Rejoin

Spec == Init /\ [][Next]_vars

\* A request goes on once its row is committed; the consumer polls every topic and
\* processes what it has polled.
FairSpec ==
    /\ Spec
    /\ \A e \in Events : WF_vars(Publish(e))
    /\ \A t \in Topics : SF_vars(Poll(t))
    /\ WF_vars(StartBatch) /\ WF_vars(Skip) /\ WF_vars(Store) /\ WF_vars(EndBatch)

-----------------------------------------------------------------------------
(* Properties *)

InLog(e) == \E i \in 1 .. Len(log[TopicOf[e]]) : log[TopicOf[e]][i] = e

Messages == [topic : Topics, offset : Nat \ {0}, pass : 0 .. MaxPasses]

\* The types of the variables.
TypeOK ==
    /\ request \in [Events -> {"new", "committed", "answered", "lost"}]
    /\ log \in [Topics -> Seq(Events)]
    /\ position \in [Topics -> Nat] /\ \A t \in Topics : position[t] <= Len(log[t])
    /\ batch \in Seq(Messages) /\ Len(batch) <= MaxBatch
    /\ polling \in BOOLEAN
    /\ stored \in Seq(Messages)
    /\ failed \subseteq Messages
    /\ skipped \subseteq Messages
    /\ pass \in 0 .. MaxPasses

InBatch == {batch[i] : i \in 1 .. Len(batch)}
Stored == {stored[i] : i \in 1 .. Len(stored)}
GivenUp == failed \cup skipped
Handled == Stored \cup GivenUp

\* No message falls between two others: each message the consumer has been given in
\* this pass waits in the batch, is stored, or failed on its own account.  One bad
\* message or failed insert costs no other message, and neither a restart nor a rejoin
\* costs any, because every topic is read again.
EveryMessageAccountedFor ==
    \A t \in Topics : \A i \in 1 .. position[t] :
        Message(t, i, pass) \in InBatch \cup Handled

\* Whatever the requests publish has the fields its processor converts, so that
\* only a message of another writer is ever skipped; that no type of event lacks a
\* field is checked for the types without an event in the run, too.
OwnEventsAreProcessable ==
    /\ \A m \in skipped : EventOf(m) \in Foreign
    /\ \A type \in EventTypes : Required(type) \subseteq Payload(type)

\* The messages of one topic that one pass gave are stored in the order of their
\* offsets, however the batches mix the topics, and though a batch of an earlier pass
\* may be finished in a later one.
StoredInOrder ==
    \A i, j \in 1 .. Len(stored) :
        i < j /\ stored[i].pass = stored[j].pass /\ stored[i].topic = stored[j].topic
            => stored[i].offset < stored[j].offset

\* A pass stores an event at most once: copies come from a restart or a rejoin alone,
\* neither from the producer nor from a batch that is finished after a rejoin.
OnceEachPass ==
    \A i, j \in 1 .. Len(stored) :
        stored[i].pass = stored[j].pass /\ EventOf(stored[i]) = EventOf(stored[j]) => i = j

\* How many messages of each topic each pass is done with.
Taken ==
    [k \in 0 .. MaxPasses |-> [t \in Topics |->
        Cardinality({i \in 1 .. Len(log[t]) : Message(t, i, k) \in Handled})]]

Reader == INSTANCE TopicReader WITH taken <- Taken, givenUp <- GivenUp

\* Although the consumer collects batches that mix the topics, and after a rejoin the
\* passes, each pass comes out as a reader that takes the messages of each topic one by
\* one, passing over none and taking none twice.
RefinesTopicReader == Reader!Spec

\* A message in a topic is eventually dealt with: stored, or given up in the current
\* pass because its insert failed or it does not parse.
EventuallyHandled ==
    \A e \in Events :
        InLog(e) ~> (\E m \in Handled : m.pass = pass /\ EventOf(m) = e)

\* event_driven_design.md promises at-least-once delivery and event_catalog.md states
\* it of every event: a committed change is eventually among the stored events.
AtLeastOnce ==
    \A e \in Events :
        request[e] = "committed" ~> (\E m \in Stored : EventOf(m) = e)

\* event_driven_design.md promises that the consumer is idempotent, with event_id as a
\* unique index in MongoDB.
StoredOnce ==
    \A i, j \in 1 .. Len(stored) : EventOf(stored[i]) = EventOf(stored[j]) => i = j
=============================================================================
