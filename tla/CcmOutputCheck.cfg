CONSTANTS
    Apps = {"ccm"}
    FilesOf <- MCNistFilesOf
    EccSectionLists <- MCEccSectionLists
    EccGenNum <- MCEccGenNum
    SectionLists <- MCSectionLists
    AesModes <- MCAesModes
    GenLengths <- MCGenLengths
    PkSizeLists <- MCPkSizeLists
    CcmSectionPlen <- MCCcmSectionPlen
    ByteLen <- MCByteLen
    Decimal <- MCDecimal
    ShaLengthLists <- MCShaLengthLists
    Analyses <- MCAnalyses
    MaxLoads = 2
    Cycles <- MCCycles
    DeviceFaulty = FALSE
    DeviceInPlace = {FALSE, TRUE}
SPECIFICATION Spec
INVARIANTS
    CheckMatchesDevice
CHECK_DEADLOCK FALSE
