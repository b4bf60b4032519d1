\* An admin whose token names no tenant
CONSTANTS
    t1 = t1
    t2 = t2
    o1 = o1
    o2 = o2
    l1 = l1
    l2 = l2
    alice = alice
    bob = bob
    guest = guest
    root = root
    chief = chief
    NoTenant = NoTenant
    Unknown = Unknown
    Missing = Missing
    Tenant <- SomeTenants
    Owner <- SomeOwners
    Calls = {c1}
    Users = {root}
    Admins = {root}
    Orders = {o1}
    Lots = {l1}
    MaxTries = 1
SPECIFICATION FairSpec
PROPERTY EveryRequestAnswered
