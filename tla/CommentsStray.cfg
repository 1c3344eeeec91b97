SPECIFICATION Spec
CONSTANTS
    t1 = t1
    t2 = t2
    c1 = c1
    c2 = c2
    reply = reply
    stray = stray
    NoComment = NoComment
    NoTask = NoTask
    Nothing = Nothing
    Tasks <- MCTasks
    Comments <- MCComments
    Replies <- MCReplies
    Readers = {q1}
    TaskOf <- MCTaskOf
    ParentOf <- MCParentOf
    Ttl = 1
INVARIANTS
    OnlyAddedIsAnnounced
