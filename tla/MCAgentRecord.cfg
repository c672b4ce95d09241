CONSTANTS
    Records <- MCRecords
    LegacyRecords <- MCLegacyRecords
    Replacements <- MCReplacements
    MaxRecordExpiry = 3
    UintMax = 15
    MaxChanges = 2
    MaxClock = 10
SPECIFICATION Spec
INVARIANTS VerifiedMeansSigned WarningForetells
CHECK_DEADLOCK FALSE
