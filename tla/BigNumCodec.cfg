CONSTANTS
    Inputs <- MCInputs
    Sizes = {1, 2, 3}
    ByteCounts = {64, 70000}
    Commands = {"setCurve", "setPublicKey", "multiply", "verifySignature", "calculatePublicKey"}
SPECIFICATION Spec
INVARIANTS
    TypeOK
    LayoutMatchesSpec
    RoundTripValue
CHECK_DEADLOCK FALSE
