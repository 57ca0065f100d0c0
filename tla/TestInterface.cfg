CONSTANTS
    Commands <- MCCommands
    ResultCodes <- MCResultCodes
    MaxCmds = 2
    MaxDebug = 1
    Transports = {"serial", "tcp"}
    Resets = {TRUE, FALSE}
SPECIFICATION Spec
INVARIANT TypeOK
INVARIANT ResponsePairing
INVARIANT NoSpuriousFailure
PROPERTY SerialSessionEnds
PROPERTY ImplementsCommandRPC
CHECK_DEADLOCK FALSE
