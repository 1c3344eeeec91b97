SPECIFICATION FairSpec
CONSTANTS
    loggedin = loggedin
    project = project
    closed = closed
    garbage = garbage
    Events <- MCEvents
    Foreign <- MCForeign
    Malformed <- MCMalformed
    TypeOf <- MCTypeOf
    Topics <- MCTopics
    TopicOf <- MCTopicOf
    MaxBatch = 2
    MaxPasses = 1
INVARIANTS
    TypeOK
    EveryMessageAccountedFor
    OwnEventsAreProcessable
    StoredInOrder
    OnceEachPass
PROPERTIES
    RefinesTopicReader
    EventuallyHandled
\* Every event sent, every message processed, no pass left.
CHECK_DEADLOCK FALSE
