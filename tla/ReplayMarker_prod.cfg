\* SHOPFLOW_ENV=PRODUCTION: production for security-config.js, not for redis-state.js
CONSTANTS
    i1 = i1
    i2 = i2
    c1 = c1
    c2 = c2
    c3 = c3
    k1 = k1
    Instances = {i1}
    Calls = {c1, c2}
    Host <- OneInstance
    Env = "PRODUCTION"
    RedisUrl = TRUE
    ConnectMayReject = TRUE
    MayCrash = {i1}
    Keys = {k1}
    Ttl = 2
    Unsynced = 1
    MaxTime = 3
SPECIFICATION MarkerSpec
INVARIANT ProductionFailsClosed
