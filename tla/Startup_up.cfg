\* One service in ten configurations, two faults, two values of each entry
CONSTANTS
    Services = {s}
    Configs <- Tried
    Paths = {"hmac", "db"}
    MaxVersion = 2
    MaxTokens = 2
    MaxFaults = 2
SPECIFICATION FairSpec
INVARIANTS TypeOK RequiredFromVault KeysBeforeSecrets
PROPERTIES StartsEnd RerunCompletes
