SPECIFICATION Spec
CONSTANTS
    loggedin = loggedin
    project = project
    closed = closed
    garbage = garbage
    Events <- MCOwnEvents
    Foreign <- Nobody
    Malformed <- Nobody
    TypeOf <- MCOwnTypeOf
    Topics <- MCTopics
    TopicOf <- MCOwnTopicOf
    MaxBatch = 2
    MaxPasses = 1
INVARIANTS
    StoredOnce
\* Every event sent, every message processed, no pass left.
CHECK_DEADLOCK FALSE
