CONSTANTS
    Apps <- MCApps
    FilesOf <- MCFilesOf
    SectionLists <- MCSectionLists
    EccSectionLists <- MCEccSectionLists
    EccGenNum <- MCEccGenNum
    AesModes <- MCAesModes
    GenLengths <- MCGenLengths
    PkSizeLists <- MCPkSizeLists
    CcmSectionPlen <- MCCcmSectionPlen
    ByteLen <- MCByteLen
    Decimal <- MCDecimal
    ShaLengthLists <- MCShaLengthLists
    Analyses <- MCAnalyses
    MaxLoads = 2
    Cycles <- MCCycles
    DeviceFaulty = TRUE
    DeviceInPlace = {FALSE, TRUE}
SPECIFICATION Spec
INVARIANTS
    TypeOK
    EveryVectorRun
    CorrectDeviceFailsOnlyOnStaleBuffer
    CcmTimesOwnVector
    GeneratedVectorsConsistent
    MeasurementsKept
    SumKeepsTotals
    AggregateKeepsAll
CHECK_DEADLOCK FALSE
