SPECIFICATION FairSpec
CONSTANTS
    a = a
    b = b
    c = c
    same = same
    other = other
    Writers = {a, b, c}
    Digests = {same, other}
    Payload <- EqualPayloads
    Strays <- ForeignObjects
    MaxPutSize = 7
    NoObject = NoObject
    NoValue = NoValue
    OtherTool = OtherTool
    MaxAttempts = 3
    StoreStatuses = {204, 403, 409, 412, 500}
INVARIANTS
    IInv
PROPERTIES
    EveryCallReturns
    KeepsPromise
