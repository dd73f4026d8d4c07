SPECIFICATION Spec
CONSTANTS
    a = a
    b = b
    good = good
    bad = bad
    Names <- MCNames
    Backslashed <- MCBackslashed
    Calls = {a, b}
    Contents = {good, bad}
    Oversized = {}
    Checksum <- OneChecked
    Extension <- SameKeys
    Version <- SameVersion
    Outcomes = {"accepted", "quarantined"}
    MaxLines = 1
    NoValue = NoValue
    NoObject = NoObject
    Edited = {a}
INVARIANTS
    TypeOK
    CommittedBundleComplete
    ReceiptMeansCommitted
    OnlyStoreErrorsLeaveDoubt
    StoredArtifactsVerified
    IInv
PROPERTIES
    KeepsLedger
