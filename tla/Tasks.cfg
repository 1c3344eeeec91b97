SPECIFICATION Spec
CONSTANTS
    ann = ann
    ann2 = ann2
    p1 = p1
    q1 = q1
    q2 = q2
    q3 = q3
    Registrations <- MCRegistrations
    LoginOf <- MCLoginOf
    EmailOf <- MCEmailOf
    PasswordOf <- MCPasswordOf
    Clients = {c1}
    Lifetime = 0
    MaxTime = 0
    HasStandby = TRUE
    NoUser = NoUser
    Projects = {p1}
    Requests <- MCRequests
    ProjectOf <- MCProjectOf
    StatusOf <- MCStatusOf
    PriorityOf <- MCPriorityOf
INVARIANTS
    TypeOK
    OnlyPriorityIsRefused
    AnnouncedTaskIsStored
    CreatorGavePassword
PROPERTIES
    RefinesTaskBook
