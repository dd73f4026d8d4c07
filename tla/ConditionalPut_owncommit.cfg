SPECIFICATION Spec
CONSTANTS
    a = a
    b = b
    c = c
    same = same
    other = other
    Writers = {a, b}
    Digests = {same, other}
    Payload <- EqualPayloads
    Strays <- NoStrays
    MaxPutSize = 7
    NoObject = NoObject
    NoValue = NoValue
    OtherTool = OtherTool
    MaxAttempts = 2
    StoreStatuses = {200, 412, 503}
INVARIANT
    MatchMeansOwnCommit
