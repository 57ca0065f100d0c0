CONSTANTS
    Commands <- MCCommands
    ResultCodes <- MCResultCodes
    MaxCmds = 1
    MaxDebug = 0
    Transports = {"tcp"}
    Resets = {FALSE}
SPECIFICATION Spec
PROPERTY ClosedReadEnds
CHECK_DEADLOCK FALSE
