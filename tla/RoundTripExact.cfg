CONSTANTS
    Inputs <- MCInputs
    Sizes = {1, 2}
    ByteCounts = {64}
    Commands = {"setPrivateKey"}
SPECIFICATION Spec
INVARIANT RoundTripExact
CHECK_DEADLOCK FALSE
