SPECIFICATION Spec
CONSTANTS
    p1 = p1
    p2 = p2
    p3 = p3
    Projects <- MCProjects
    Readers = {r1, r2}
    CreatedAt <- MCCreatedAt
    KeyOf <- MCKeyOf
    ListLimit = 3
    Ttl = 1
    HasStandby = FALSE
    Nothing = Nothing
INVARIANTS
    NamedProjectIsCreated
