\* A connection and HTTP requests contend for one source under drop_oldest.
SPECIFICATION Spec
CONSTANTS
    l1 = l1
    h2 = h2
    h1 = h1
    s1 = s1
    s2 = s2
    w1 = w1
    NoEntry = NoEntry
    Producers = {l1, h1}
    HttpProducers = {h1}
    Sources = {s1}
    SourceOf <- OneSource
    Policy <- DropOldest
    Workers = {w1}
    QueueCap = 1
    InCap = 1
    MaxEntries = 2
    WriteAttempts = 1
    StoreUnknown = FALSE
    MaxMsgs = 2
INVARIANTS
    AccountedOnce
    NothingLeftBehind
    NoSendOnClosed
PROPERTY
    ImplementsAccounting
