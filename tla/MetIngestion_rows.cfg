SPECIFICATION Spec
CONSTANTS
    MaxRows = 4
    Required <- MCRequired
    Known <- MCKnown
    Blank = Blank
    NoId = NoId
    Files <- MCFiles
    Unreadable = Unreadable
    BatchSize = 2
    MaxLines = 3
    NoObject = NoObject
INVARIANTS
    TypeOK
    EvidenceIsTheFiles
    RecordsDistinct
    SidecarCoversFile
    CommitCoversFile
    ResultIsTheManifests
    TypedFailureUncommitted
PROPERTIES
    KeepsLedger
