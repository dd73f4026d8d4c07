SPECIFICATION FairSpec
CONSTANTS
    a = a
    b = b
    good = good
    bad = bad
    Names <- MCNames
    Backslashed <- MCBackslashed
    Calls = {a, b}
    Contents = {good, bad}
    Oversized = {bad}
    Checksum <- OneChecked
    Extension <- OwnArtifacts
    Version <- OwnVersion
    Outcomes = {"accepted", "quarantined"}
    MaxLines = 2
    NoValue = NoValue
    NoObject = NoObject
    Edited = {}
INVARIANT
    CollisionsNotMutual
PROPERTIES
    KeepsLedger
    LateCallsAddNothing
    EveryCallReturns
