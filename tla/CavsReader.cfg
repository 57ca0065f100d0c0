CONSTANTS
    Files <- MCFiles
    Sections <- MCSections
    Elements <- MCElements
SPECIFICATION Spec
INVARIANTS
    TypeOK
    RecordsInOrder
    AllRecordsPresented
CHECK_DEADLOCK FALSE
