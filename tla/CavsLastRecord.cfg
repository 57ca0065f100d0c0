CONSTANTS
    Files <- MCFilesNoFinalBlank
    Sections <- MCSections
    Elements <- MCElements
SPECIFICATION Spec
INVARIANT AllRecordsPresented
CHECK_DEADLOCK FALSE
