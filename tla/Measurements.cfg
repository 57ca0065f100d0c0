CONSTANTS
    Keys <- MCKeys
    Values <- MCValues
    MaxEvents = 3
    MaxReads = 3
SPECIFICATION Spec
INVARIANTS
    TypeOK
    ReadMatchesDevice
CHECK_DEADLOCK FALSE
