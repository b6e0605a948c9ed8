CONSTANTS
    imu = imu
    standing = standing
    mocap = mocap
    twist = twist
    Imu = imu
    Preflight = standing
    Sources <- MCSources
    AbsoluteSources <- MCAbsoluteSources
    Times <- MCTimes
    Position <- MCPosition
    set_earth_map <- MCSetEarthMap
    VelocityTopics <- MCVelocityTopics
    update_period <- MCUpdatePeriod
    innovation_gate_timeout <- MCGateTimeout
    MaxUpdateLatency = 1
    max_imu_dt = 1
    imu_timeout = 0
    MaxTime = 4
    MaxDelay = 0
    MaxImuDelay = 0
    MaxEvents = 4
    MaxCorrections = 1
SPECIFICATION Spec
PROPERTIES
    OnlyOneReadingIsLost
CHECK_DEADLOCK FALSE
