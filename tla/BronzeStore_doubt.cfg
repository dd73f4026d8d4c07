SPECIFICATION Spec
CONSTANTS
    a = a
    b = b
    good = good
    bad = bad
    Names <- MCNames
    Backslashed <- MCBackslashed
    Calls = {a}
    Contents = {good, bad}
    Oversized = {}
    Checksum <- OneChecked
    Extension <- SameKeys
    Version <- SameVersion
    Outcomes = {"accepted", "quarantined"}
    MaxLines = 1
    NoValue = NoValue
    NoObject = NoObject
    Edited = {a}
INVARIANT
    FailedRunUncommitted
