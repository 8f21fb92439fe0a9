SPECIFICATION Spec
CONSTANTS
    Names <- MCNames
    Sources <- MCSources
    Json <- MCJson
    Reserved <- MCReserved
    MaxTag = 3
    MaxHost = 2
    MaxMessage = 6
    MaxFields = 2
    MaxValue = 3
    MaxEntry = 80
    Overhead = 1
    Slack = 20
    Senders <- MCSenders
    Wire <- MCWire
    Typed <- MCTyped
    Exprs <- MCExprs
    Facets <- MCFacets
    Narrowed <- MCNarrowed
    Browsed = {"json", "rfc5424"}
    MaxQuery = 30
INVARIANTS
    MeaningKept
    AskedAsTyped
    FacetNarrows
    FoundByItsFields
    SentIsStored
    NothingLost
    OnlyRivalsDisplace
    EntryFits
    RowKeepsEntry
