CONSTANTS
    ArmRequests <- OnlyArm
    CallsMayFail = FALSE
    MayReset = FALSE
SPECIFICATION Spec
INVARIANTS
    TakingOffIsATakeoff
