\* The lab: counters in one Redis and in two processes, one of which may crash;
\* two requests share a process and its client
CONSTANTS
    i1 = i1
    i2 = i2
    c1 = c1
    c2 = c2
    t1 = t1
    Instances = {i1, i2}
    Calls = {c1, c2}
    Host <- OneEach
    Env = "lab"
    RedisUrl = TRUE
    ConnectMayReject = TRUE
    MayCrash = {i2}
    Tenants = {t1}
    Rpm = 1
    Minute = 2
    Expire = 2
    Linger = 1
    MaxAsked = 2
    LastAsk = 2
    MaxTime = 5
SPECIFICATION FairSpec
INVARIANTS TypeOK LimitedOnlyBeyondQuota OldCountersLapse
PROPERTIES DecidesByQuota EveryRequestDecided
