SPECIFICATION Spec
CONSTANTS
    a = a
    b = b
    c = c
    same = same
    other = other
    Writers = {a, b}
    Digests = {same, other}
    Payload <- DistinctPayloads
    Strays <- ForeignObjects
    MaxPutSize = 7
    NoObject = NoObject
    NoValue = NoValue
    OtherTool = OtherTool
    MaxAttempts = 3
    StoreStatuses = {200, 403, 409, 412, 503}
INVARIANTS
    TypeOK
    SuccessMeansStored
    CollisionIsForeign
    SettledFailureLeavesNothing
    RequestsWhole
PROPERTIES
    NeverOverwritten
    KeepsPromise
