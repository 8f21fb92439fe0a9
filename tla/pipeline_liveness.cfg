\* A connection and two HTTP requests share one source under the block policy.
SPECIFICATION FairSpec
CONSTANTS
    l1 = l1
    h2 = h2
    h1 = h1
    s1 = s1
    s2 = s2
    w1 = w1
    NoEntry = NoEntry
    Producers = {l1, h1, h2}
    HttpProducers = {h1, h2}
    Sources = {s1}
    SourceOf <- OneSource
    Policy <- Block
    Workers = {w1}
    QueueCap = 1
    InCap = 1
    MaxEntries = 2
    WriteAttempts = 1
    StoreUnknown = TRUE
    MaxMsgs = 1
INVARIANT
    LossNeedsDeadline
PROPERTIES
    IngestReturns
    ShutdownCompletes
    EntriesSettle
