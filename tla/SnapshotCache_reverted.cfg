SPECIFICATION Spec
CONSTANTS
    Sessions = {a}
    Inodes = {1, 2, 3, 4}
    Versions = {v1, v2}
    Chunks = 1
    MaxAttempts = 2
    MaxStarts = 2
    MaxEvents = 2
    None = None
    Undecodable = Undecodable
INVARIANTS
    NotModifiedReusesVerified
CHECK_DEADLOCK FALSE
