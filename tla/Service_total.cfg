\* One request is enough for the total to count it twice
CONSTANTS
    c1 = c1
    c2 = c2
    k1 = k1
    NoToken = NoToken
    Calls = {c1, c2}
    Keys = {k1}
    Tokens <- SomeTokens
    CacheAge = 2
    LoadTime = 1
    MaxTime = 3
    Allowlist <- SomeHosts
    Urls <- SomeUrls
    Answers <- SomeAnswers
    Production = FALSE
    VaultSet = TRUE
    MaxRequests = 1
SPECIFICATION Spec
INVARIANT TotalCountsFailures
SYMMETRY Symmetry
