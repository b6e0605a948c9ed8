CONSTANTS
    ArmRequests <- AnyArming
    CallsMayFail = TRUE
    MayReset = TRUE
SPECIFICATION Spec
INVARIANTS
    TypeOK
    MotionsExclude
PROPERTIES
    CallbacksReturn
    DisarmAfterLanded
    SuccessIsRecorded
    FailureIsEmergency
