\* A connection under drop_oldest and HTTP requests under drop_newest, each with its own source; two attempts.
SPECIFICATION Spec
CONSTANTS
    l1 = l1
    h2 = h2
    h1 = h1
    s1 = s1
    s2 = s2
    w1 = w1
    NoEntry = NoEntry
    Producers = {l1, h1}
    HttpProducers = {h1}
    Sources = {s1, s2}
    SourceOf <- TwoSources
    Policy <- MixedPolicies
    Workers = {w1}
    QueueCap = 1
    InCap = 1
    MaxEntries = 2
    WriteAttempts = 2
    StoreUnknown = TRUE
    MaxMsgs = 2
INVARIANTS
    TypeOK
    CountersMatchStorage
    ProducerOrder
    LoneProducerKeepsNew
