SPECIFICATION FairSpec
CONSTANTS
    p1 = p1
    p2 = p2
    p3 = p3
    Projects <- MCProjects
    Readers = {r1, r2}
    CreatedAt <- MCCreatedAt
    KeyOf <- MCKeyOf
    ListLimit = 1
    Ttl = 1
    HasStandby = TRUE
    Nothing = Nothing
INVARIANTS
    TypeOK
    AcknowledgedIsCommitted
    StaleOnlyIfExcused
PROPERTIES
    CutOnlyByLater
    EventuallyListed
