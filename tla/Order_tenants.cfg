\* A user of one tenant, one of none and an admin of none, records of two tenants, two attempts
CONSTANTS
    t1 = t1
    t2 = t2
    o1 = o1
    o2 = o2
    l1 = l1
    l2 = l2
    alice = alice
    bob = bob
    guest = guest
    root = root
    chief = chief
    NoTenant = NoTenant
    Unknown = Unknown
    Missing = Missing
    Tenant <- SomeTenants
    Owner <- SomeOwners
    Calls = {c1, c2}
    Users = {alice, guest, root}
    Admins = {root}
    Orders = {o1, o2}
    Lots = {l1, l2}
    MaxTries = 2
SPECIFICATION FairSpec
INVARIANTS TypeOK TenantIsolation
PROPERTIES AnswersByContract TenantRequestsAnswered
