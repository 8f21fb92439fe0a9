\* Two connections against a limit of one; Manager.Close at any moment.
SPECIFICATION FairSpec
CONSTANTS
    c1 = c1
    c2 = c2
    Conns = {c1, c2}
    Limit = 1
    IdleOn = TRUE
    MaxMsgs = 1
    NoConn = NoConn
INVARIANTS
    TypeOK
    LimitRespected
    NothingLeaks
    AtMostOneEscapes
    ListenersQuiet
PROPERTIES
    CloseReturnsUnlessEscaped
    ReadinessAnswers
    SilentAfterTrafficCloses
