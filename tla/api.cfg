SPECIFICATION Spec
CONSTANTS
    viewer = viewer
    operator = operator
    reader = reader
    other = other
    Slots <- MCSlots
    Users <- MCUsers
    RoleOf <- MCRoleOf
    Tokens = {t1}
    NoToken = NoToken
    Nobody = Nobody
    Does <- MCDoes
    Needs <- MCNeeds
    Open = {"ingest"}
    Rows = {1, 2, 3, 4}
    TimeOf <- MCTimeOf
    Ranges <- MCRanges
    Limits = {0, 9}
    PageSize = 2
    MaxHits = 2
    MaxOffset = 3
    MaxExport = 3
    MaxBuckets = 2
    Buckets <- MCBuckets
    Day = 2
    Zero = 4
    Bodies <- MCBodies
    MaxEntries = 2
    MaxReceived = 5
INVARIANTS
    LogoutIsFinal
    NoRowSkipped
    RepeatsAreArrivals
    VolumeAddsUp
    RefusedLeavesNothing
