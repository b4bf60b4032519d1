\* The defaults of the code: nonce TTL equal to the timestamp window
CONSTANTS
    i1 = i1
    i2 = i2
    c1 = c1
    c2 = c2
    n1 = n1
    Instances = {i1, i2}
    Calls = {c1, c2}
    Host <- OneEach
    Env = "production"
    RedisUrl = TRUE
    ConnectMayReject = FALSE
    MayCrash = {}
    Keys = {n1}
    Ttl = 2
    MaxTime = 6
    Window = 2
    Skews <- Ahead
    Kind <- AllValid
    TokensMatch = TRUE
    MarkDelay = 0
    MaxForwards = 2
SPECIFICATION Spec
INVARIANT AtMostOnceForwarded
