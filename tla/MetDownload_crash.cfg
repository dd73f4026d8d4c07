SPECIFICATION FairSpec
CONSTANTS
    MaxAttempts = 3
    MaxRedirects = 2
    MaxSize = 2
    Conditional = TRUE
    MaxKills = 1
    NoFile = NoFile
INVARIANTS
    TypeOK
    DownloadedIsWhole
    NoPartialFileLeft
PROPERTIES
    ReplacedOnlyWhole
    DownloadReturns
