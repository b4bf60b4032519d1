\* Two instances, a nonce TTL long enough for the accepted interval and the
\* mark's delay, SETs whose replies are lost, connects that reject or hang
CONSTANTS
    i1 = i1
    i2 = i2
    c1 = c1
    c2 = c2
    n1 = n1
    Instances = {i1, i2}
    Calls = {c1, c2}
    Host <- OneEach
    Env = "production"
    RedisUrl = TRUE
    ConnectMayReject = TRUE
    MayCrash = {i2}
    Keys = {n1}
    Ttl = 4
    MaxTime = 5
    Window = 1
    Skews <- SomeSkews
    Kind <- AllValid
    TokensMatch = TRUE
    MarkDelay = 1
    MaxForwards = 2
SPECIFICATION FairSpec
INVARIANTS TypeOK AtMostOnceForwarded SlotsOnlyForVerified StatusesAreTruthful
PROPERTIES DeliversInStages EveryDeliveryEnds
