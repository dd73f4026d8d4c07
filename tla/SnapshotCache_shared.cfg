SPECIFICATION Spec
CONSTANTS
    Sessions = {a, b}
    Inodes = {1, 2, 3, 4}
    Versions = {v1, v2}
    Chunks = 2
    MaxAttempts = 2
    MaxStarts = 3
    MaxEvents = 2
    None = None
    Undecodable = Undecodable
VIEW Essentials
SYMMETRY Interchangeable
INVARIANTS
    TypeOK
    SoloSnapshotIsTrue
    ValidatorsMatch
    NeverStale
PROPERTIES
    ReplacedWhole
CHECK_DEADLOCK FALSE
