\* Production: two instances on one Redis, connects that reject or hang, crashes
CONSTANTS
    i1 = i1
    i2 = i2
    c1 = c1
    c2 = c2
    c3 = c3
    k1 = k1
    Instances = {i1, i2}
    Calls = {c1, c2, c3}
    Host <- TwoInstances
    Env = "production"
    RedisUrl = TRUE
    ConnectMayReject = TRUE
    MayCrash = {i1, i2}
    Keys = {k1}
    Ttl = 2
    Unsynced = 1
    MaxTime = 5
SPECIFICATION FairMarkerSpec
INVARIANTS MarkerTypeOK ProductionFailsClosed NobodyStranded
PROPERTIES MarksOnce EveryCallEnds
