SPECIFICATION Spec
CONSTANTS
    ann = ann
    ann2 = ann2
    bob = bob
    Registrations <- MCRegistrations
    LoginOf <- MCLoginOf
    EmailOf <- MCEmailOf
    PasswordOf <- MCPasswordOf
    Clients = {c1}
    Lifetime = 1
    MaxTime = 3
    HasStandby = TRUE
    NoUser = NoUser
    FirstNameOf <- MCFirstNameOf
    LastNameOf <- MCLastNameOf
    Lower <- MCLower
    Queries <- MCQueries
    SearchLimit = 1
INVARIANTS
    TypeOK
    OneUserPerLogin
    AnswersMatchTable
    TokenHonoured
    SearchFinds
PROPERTIES
    RefinesRegistry
