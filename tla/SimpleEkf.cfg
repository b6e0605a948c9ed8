CONSTANTS
    imu = imu
    standing = standing
    mocap = mocap
    twist = twist
    Imu = imu
    Preflight = standing
    Sources <- MCSources
    AbsoluteSources <- MCAbsoluteSources
    Times <- MCTimes
    Position <- MCPosition
    set_earth_map <- MCSetEarthMap
    VelocityTopics <- MCVelocityTopics
    update_period <- MCUpdatePeriod
    innovation_gate_timeout <- MCGateTimeout
    MaxUpdateLatency = 1
    max_imu_dt = 1
    imu_timeout = 0
    MaxTime = 3
    MaxDelay = 2
    MaxImuDelay = 2
    MaxEvents = 4
    MaxCorrections = 1
SPECIFICATION Spec
INVARIANTS
    TypeOK
    HistoryChains
    Chronological
    RateIsRespected
    PredictionsMoveForward
PROPERTIES
    OdometryIsContinuous
    ImplementsTimeline
    ReadingsResume
CHECK_DEADLOCK FALSE
