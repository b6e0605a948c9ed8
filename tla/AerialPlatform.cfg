CONSTANTS
    odom = odom
    base = base
    NoFrame = NoFrame
    Frames <- MCFrames
    available_control_modes <- MCAvailable
    Requests <- MCRequests
    ClientEvents <- MCClientEvents
SPECIFICATION Spec
INVARIANTS
    TypeOK
    ModeFramesDeclared
    ReferencesFollowTheMode
PROPERTIES
    CommandsAreInTheirFrames
    ImplementsFlightState
    EmergencyStopsTheVehicle
