\* Two calls share the cache while the key is rotated twice
CONSTANTS
    Calls = {c1, c2}
    Lifetime = 2
    Margin = 1
    MaxTime = 2
    MaxRotations = 2
SPECIFICATION FairSpec
INVARIANTS TypeOK MarginHolds RetrySettles
PROPERTIES CallsDoNotInterfere EveryFetchEnds
