\* Two instances, a login that is refreshed, tokens that expire
CONSTANTS
    i1 = i1
    i2 = i2
    c1 = c1
    c2 = c2
    t1 = t1
    t2 = t2
    t3 = t3
    NoToken = NoToken
    Instances = {i1, i2}
    Calls = {c1, c2}
    Host <- OneEach
    Env = "production"
    RedisUrl = TRUE
    ConnectMayReject = FALSE
    MayCrash = {}
    Keys = {t1, t2, t3}
    Ttl = 2
    MaxTime = 3
    LoginTokens = {t1}
    Idle = 2
    MaxExchanges = 2
SPECIFICATION Spec
INVARIANTS TypeOK RedeemedAtMostOnce
PROPERTY TokensRotate
SYMMETRY Symmetry
VIEW Seen
