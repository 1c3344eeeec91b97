SPECIFICATION Spec
CONSTANTS
    ann = ann
    ann2 = ann2
    bob = bob
    Registrations <- MCRegistrations
    LoginOf <- MCLoginOf
    EmailOf <- MCEmailOf
    PasswordOf <- MCPasswordOf
    Clients = {c1}
    Lifetime = 1
    MaxTime = 2
    HasStandby = FALSE
    NoUser = NoUser
    FirstNameOf <- MCFirstNameOf
    LastNameOf <- MCLastNameOf
    Lower <- MCLower
    Queries <- MCQueries
    SearchLimit = 1
INVARIANTS
    ExistingLoginIsConflict
