SPECIFICATION Spec
CONSTANTS
    MaxRows = 1
    Required <- MCRequired
    Known <- MCKnown
    Blank = Blank
    NoId = NoId
    Files <- MCFiles
    Unreadable = Unreadable
    BatchSize = 2
    MaxLines = 2
    NoObject = NoObject
INVARIANTS
    ParseErrorsAreTyped
