SPECIFICATION FairSpec
CONSTANTS
    t1 = t1
    t2 = t2
    c1 = c1
    c2 = c2
    reply = reply
    stray = stray
    NoComment = NoComment
    NoTask = NoTask
    Nothing = Nothing
    Tasks <- MCTasks
    Comments <- MCOneComment
    Replies <- MCOneReply
    Readers = {q1, q2}
    TaskOf <- MCOneTaskOf
    ParentOf <- MCOneParentOf
    Ttl = 1
INVARIANTS
    TypeOK
    AnnouncedIsStored
    StoredIsReadable
    StaleOnlyIfOvertaken
PROPERTIES
    EventuallyShown
