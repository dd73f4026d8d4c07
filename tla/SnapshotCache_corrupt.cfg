SPECIFICATION Spec
CONSTANTS
    Sessions = {a}
    Inodes = {1, 2, 3, 4}
    Versions = {v1, v2}
    Chunks = 1
    MaxAttempts = 1
    MaxStarts = 3
    MaxEvents = 1
    None = None
    Undecodable = Undecodable
INVARIANTS
    CorruptCacheIsReplaced
CHECK_DEADLOCK FALSE
