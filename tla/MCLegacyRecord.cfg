CONSTANTS
    Records <- MCRecords
    LegacyRecords <- MCLegacyRecords
    Replacements <- MCReplacements
    MaxRecordExpiry = 3
    UintMax = 15
    MaxChanges = 2
    MaxClock = 10
SPECIFICATION Spec
INVARIANT DocumentedSignaturesVerify
CHECK_DEADLOCK FALSE
