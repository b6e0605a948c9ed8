------------------------------- MODULE SimpleEkf -------------------------------
(* The simple EKF plugin: the callbacks of the node (simple_ekf.cpp) and the   *)
(* filter behind them (filter.cpp), on top of the history of EkfHistory.  The  *)
(* callbacks run one at a time.  Whether an innovation is within the gate, or  *)
(* a position repeats the last one, is up to the data.  The smoothing of what  *)
(* is published and the lag of the modelled readings are left out.            *)
EXTENDS EkfHistory

CONSTANTS
    Preflight,            \* the source of the pre-flight correction
    update_period,        \* per topic: 1 / update_rate_hz, 0 without a limit
    innovation_gate_timeout,    \* per topic, in Times
    set_earth_map,        \* the pose topics that may set earth->map
    VelocityTopics,       \* the topics of twists
    max_imu_dt,           \* a longer step between readings is a correction of the clock
    imu_timeout,          \* the silence after which readings are modelled
    MaxTime,              \* bound: the last time of the clock
    MaxDelay,             \* bound: how old a measurement is when it arrives
    MaxImuDelay,          \* bound: how old a reading of the IMU is
    MaxCorrections,       \* bound: how often the clock is set back
    MaxEvents             \* bound: operations recorded and corrections of the clock

Topics == Sources \ {Imu, Preflight}

ASSUME EkfAssumption ==
    /\ Preflight \in AbsoluteSources
    /\ update_period \in [Topics -> Nat]
    /\ innovation_gate_timeout \in [Topics -> Nat]
    /\ VelocityTopics \subseteq Topics
    /\ set_earth_map \subseteq Topics \ VelocityTopics
    /\ {max_imu_dt, imu_timeout, MaxDelay, MaxImuDelay,
        MaxCorrections, MaxEvents} \subseteq Nat
    /\ MaxTime \in Nat \ {0}
    /\ 0..MaxTime \subseteq Times

VARIABLES
    now,                        \* the ROS clock
    corrections,                \* how often it was set back
    set_earth_map_from_topic,   \* a parameter: earth->map comes from a topic
    imu_model_fallback_enabled, \* a parameter: both command topics are configured
    earth_to_map_set,
    drone_has_been_offboard,
    last_imu,                   \* stamp of the filter's last reading, 0 before the first
    last_imu_receive_time,      \* 0 before the first
    last_fed_imu_stamp,
    using_imu_model_fallback,
    last_fused_stamp,           \* per topic, 0 before the first
    first_rejection_stamp,      \* per topic, 0 when the last one was accepted
    last_reading                \* stamp of the last message of the IMU, where no reading
                                \* is ever modelled

parameters == <<set_earth_map_from_topic, imu_model_fallback_enabled>>
imu_vars == <<last_imu, last_imu_receive_time, last_fed_imu_stamp,
              using_imu_model_fallback, last_reading>>
topic_vars == <<last_fused_stamp, first_rejection_stamp>>
vars == <<history, now, corrections, parameters, earth_to_map_set,
          drone_has_been_offboard, imu_vars, topic_vars>>

TypeOK ==
    /\ HistoryTypeOK
    /\ now \in 1..MaxTime
    /\ corrections \in 0..MaxCorrections
    /\ {set_earth_map_from_topic, imu_model_fallback_enabled, earth_to_map_set,
        drone_has_been_offboard, using_imu_model_fallback} \subseteq BOOLEAN
    /\ {last_imu, last_imu_receive_time, last_fed_imu_stamp, last_reading} \subseteq 0..MaxTime
    /\ last_fused_stamp \in [Topics -> 0..MaxTime]
    /\ first_rejection_stamp \in [Topics -> 0..MaxTime]

Init ==
    /\ HistoryInit
    /\ now = 1
    /\ corrections = 0
    /\ set_earth_map_from_topic \in {set_earth_map # {}, FALSE}
    /\ imu_model_fallback_enabled \in BOOLEAN
    /\ earth_to_map_set = FALSE
    /\ drone_has_been_offboard = FALSE
    /\ last_imu = 0
    /\ last_imu_receive_time = 0
    /\ last_fed_imu_stamp = 0
    /\ using_imu_model_fallback = FALSE
    /\ last_fused_stamp = [s \in Topics |-> 0]
    /\ first_rejection_stamp = [s \in Topics |-> 0]
    /\ last_reading = 0

(* What a message that arrives now may be stamped with.  One that was on its  *)
(* way when the clock was set back is stamped ahead of it; how long it may     *)
(* still take is left open.                                                   *)
Stamps(delay) ==
    {t \in 1..MaxTime :
        /\ now - t <= delay
        /\ t <= now \/ (delay > 0 /\ corrections > 0)}

-----------------------------------------------------------------------------
(* The filter *)

(* A step that no IMU can make is a correction of the clock: the reading is    *)
(* not predicted with, and the history, on the old clock, is forgotten.        *)
ClockJumped(stamp) ==
    last_imu # 0 /\ (stamp < last_imu \/ stamp - last_imu > max_imu_dt)

(* Mutation: the reading that is skipped is not what the next is measured from. *)
onImu_KeepsTheOldStamp(stamp) ==
    IF ClockJumped(stamp)
    THEN clear /\ UNCHANGED last_imu
    ELSE last_imu' = stamp /\ predictAndRecord(stamp)

onImu(stamp) ==
    /\ last_imu' = stamp
    /\ IF ClockJumped(stamp) THEN clear ELSE predictAndRecord(stamp)

Throttled(s, stamp) ==
    /\ update_period[s] > 0
    /\ last_fused_stamp[s] # 0
    /\ stamp - last_fused_stamp[s] < update_period[s]

(* Mutation: the latest of the stamps is not the last one, the first is kept.  *)
keepStamp_First(s, stamp) ==
    last_fused_stamp' = IF update_period[s] > 0 /\ last_fused_stamp[s] = 0
                        THEN [last_fused_stamp EXCEPT ![s] = stamp]
                        ELSE last_fused_stamp

(* Only a topic with a rate has its last stamp kept; the measurement counts as  *)
(* fused even if it is dropped afterwards.                                    *)
keepStamp(s, stamp) ==
    last_fused_stamp' = IF update_period[s] > 0
                        THEN [last_fused_stamp EXCEPT ![s] = stamp]
                        ELSE last_fused_stamp

(* A topic rejected for as long as its timeout is accepted all the same.       *)
acceptsInnovation(s, within, stamp) ==
    LET first == IF first_rejection_stamp[s] = 0 THEN stamp ELSE first_rejection_stamp[s]
    IN  within \/ stamp - first >= innovation_gate_timeout[s]

(* Mutation: what is kept of a rejection is the age of the measurement.        *)
process_KeepsAge(s, within, stamp) ==
    IF acceptsInnovation(s, within, stamp)
    THEN /\ first_rejection_stamp' = [first_rejection_stamp EXCEPT ![s] = 0]
         /\ updateAndRecord(s, stamp, now)
    ELSE /\ first_rejection_stamp' =
               [first_rejection_stamp EXCEPT ![s] = IF @ = 0 THEN stamp - now ELSE @]
         /\ UNCHANGED history

process(s, within, stamp) ==
    IF acceptsInnovation(s, within, stamp)
    THEN /\ first_rejection_stamp' = [first_rejection_stamp EXCEPT ![s] = 0]
         /\ updateAndRecord(s, stamp, now)
    ELSE /\ first_rejection_stamp' =
               [first_rejection_stamp EXCEPT ![s] = IF @ = 0 THEN stamp ELSE @]
         /\ UNCHANGED history

-----------------------------------------------------------------------------
(* The node.  earth->map is set once, from the parameters at the first reading *)
(* of the IMU, or from the first pose of a topic that may set it; nothing is    *)
(* fused before.                                                              *)

(* A pose in earth is earth->map, a pose in map sets the state as well.        *)
setEarthToMapFromFirstPose(frame) ==
    IF frame \in {"earth", "map"}
    THEN /\ earth_to_map_set' = TRUE
         /\ IF frame = "map" THEN resetStateToPose ELSE UNCHANGED history
    ELSE UNCHANGED <<earth_to_map_set, history>>

(* Mutation: a pose of a topic that sets earth->map sets it again.             *)
fusePose_SetsAgain(s, within, frame, stamp) ==
    /\ UNCHANGED first_rejection_stamp
    /\ IF s \in set_earth_map /\ set_earth_map_from_topic
       THEN setEarthToMapFromFirstPose(frame)
       ELSE UNCHANGED <<earth_to_map_set, history>>

fusePose(s, within, frame, stamp) ==
    IF earth_to_map_set
    THEN process(s, within, stamp) /\ UNCHANGED earth_to_map_set
    ELSE /\ UNCHANGED first_rejection_stamp
         /\ IF s \in set_earth_map /\ set_earth_map_from_topic
            THEN setEarthToMapFromFirstPose(frame)
            ELSE UNCHANGED <<earth_to_map_set, history>>

(* poseCallback, poseWithCovarianceCallback, odometryCallback and              *)
(* mocapCallback: a repeated position is dropped after its stamp was kept.     *)
PoseCallback(s, stamp) ==
    \E within, repeated \in BOOLEAN, frame \in {"earth", "map", "other"} :
        /\ ~Throttled(s, stamp)
        /\ keepStamp(s, stamp)
        /\ IF repeated THEN UNCHANGED <<history, first_rejection_stamp, earth_to_map_set>>
           ELSE fusePose(s, within, frame, stamp)
        /\ UNCHANGED <<now, corrections, parameters, drone_has_been_offboard, imu_vars>>

twistWithCovarianceCallback(s, stamp) ==
    \E within \in BOOLEAN :
        /\ ~Throttled(s, stamp)
        /\ keepStamp(s, stamp)
        /\ IF earth_to_map_set THEN process(s, within, stamp)
           ELSE UNCHANGED <<history, first_rejection_stamp>>
        /\ UNCHANGED <<now, corrections, parameters, earth_to_map_set,
                       drone_has_been_offboard, imu_vars>>

(* Mutation: it is fed to the filter like any other.                          *)
DroppedReading_Never(stamp) == FALSE

(* A reading older than the last one fed, which may be a modelled one, is      *)
(* dropped where readings may be modelled.                                    *)
DroppedReading(stamp) == imu_model_fallback_enabled /\ stamp <= last_fed_imu_stamp

imuCallback(stamp) ==
    /\ last_imu_receive_time' = now
    /\ last_reading' = IF imu_model_fallback_enabled THEN 0 ELSE stamp
    /\ earth_to_map_set' = (earth_to_map_set \/ ~set_earth_map_from_topic)
    /\ IF ~earth_to_map_set' \/ DroppedReading(stamp)
       THEN UNCHANGED <<history, last_imu, last_fed_imu_stamp, using_imu_model_fallback>>
       ELSE /\ onImu(stamp)
            /\ last_fed_imu_stamp' =
                  IF imu_model_fallback_enabled THEN stamp ELSE last_fed_imu_stamp
            /\ using_imu_model_fallback' = FALSE
    /\ UNCHANGED <<now, corrections, parameters, drone_has_been_offboard, topic_vars>>

(* A reading is modelled from the commands when the IMU has been silent.       *)
bodyRatesCallback ==
    /\ imu_model_fallback_enabled
    /\ last_imu_receive_time # 0
    /\ earth_to_map_set
    /\ now - last_imu_receive_time > imu_timeout
    /\ now > last_fed_imu_stamp
    /\ using_imu_model_fallback' = TRUE
    /\ last_fed_imu_stamp' = now
    /\ onImu(now)
    /\ UNCHANGED <<now, corrections, parameters, earth_to_map_set, drone_has_been_offboard,
                   last_imu_receive_time, last_reading, topic_vars>>

(* Before the first flight the drone stands at a known pose of the map.        *)
timerCallback ==
    /\ earth_to_map_set
    /\ ~drone_has_been_offboard
    /\ updateAndRecord(Preflight, now, now)
    /\ UNCHANGED <<now, corrections, parameters, earth_to_map_set, drone_has_been_offboard,
                   imu_vars, topic_vars>>

(* drone_offboard_ itself is read only together with the latch.               *)
platformInfoCallback ==
    /\ ~drone_has_been_offboard
    /\ drone_has_been_offboard' = TRUE
    /\ UNCHANGED <<history, now, corrections, parameters, earth_to_map_set, imu_vars, topic_vars>>

-----------------------------------------------------------------------------
Tick ==
    /\ now < MaxTime
    /\ now' = now + 1
    /\ UNCHANGED <<history, corrections, parameters, earth_to_map_set,
                   drone_has_been_offboard, imu_vars, topic_vars>>

(* The clock is synchronised: a step forward is a number of ticks.            *)
SetBack ==
    /\ corrections < MaxCorrections
    /\ corrections' = corrections + 1
    /\ now' \in 1..(now - 1)
    /\ UNCHANGED <<history, parameters, earth_to_map_set, drone_has_been_offboard,
                   imu_vars, topic_vars>>

Next ==
    \/ Tick
    \/ SetBack
    \/ platformInfoCallback
    \/ /\ recorded + corrections < MaxEvents
       /\ \/ \E stamp \in Stamps(MaxImuDelay) : imuCallback(stamp)
          \/ \E s \in Topics \ VelocityTopics, stamp \in Stamps(MaxDelay) : PoseCallback(s, stamp)
          \/ \E s \in VelocityTopics, stamp \in Stamps(MaxDelay) : twistWithCovarianceCallback(s, stamp)
          \/ bodyRatesCallback
          \/ timerCallback

Spec == Init /\ [][Next]_vars

-----------------------------------------------------------------------------
(* The node sets the state from a first pose only before anything is recorded, *)
(* so that the history keeps its promises (EkfHistory).                       *)
ImplementsHistory == HistorySpec

(* update_rate_hz: two measurements of one topic that are fused are a period    *)
(* apart, in whichever order they arrive and whatever the clock does.          *)
RateIsRespected ==
    \A i, j \in 1..Len(state) :
        /\ i # j
        /\ state[i].source = state[j].source
        /\ state[i].source \in Topics
        => \/ state[i].stamp - state[j].stamp >= update_period[state[i].source]
           \/ state[j].stamp - state[i].stamp >= update_period[state[i].source]

(* The filter integrates over the time since the previous reading.  With       *)
(* modelled readings the readings fed, of the IMU and modelled, move forward   *)
(* for good, so that no time is integrated twice: not around a dropout, nor    *)
(* after the clock was set back.                                              *)
PredictionsMoveForward ==
    \A i, j \in 1..Len(state) :
        /\ {state[i].source, state[j].source} = {Imu}
        /\ state[i].id < state[j].id
        /\ imu_model_fallback_enabled
        => state[i].stamp < state[j].stamp

(* After a step of the clock the readings resume: the one after it, if it      *)
(* follows the previous message within max_imu_dt, is predicted with.          *)
ReadingsResume ==
    [][/\ earth_to_map_set
       /\ last_reading # 0
       /\ last_reading' \in (last_reading + 1)..(last_reading + max_imu_dt)
       => recorded' = recorded + 1]_vars

(* README.md, on corrections of the clock: "only that one reading is lost      *)
(* instead of every reading after the step".  Where messages arrive at once,   *)
(* a reading that follows the previous message within max_imu_dt is predicted  *)
(* with, whether or not readings may be modelled when there is none.           *)
OnlyOneReadingIsLost ==
    [][/\ earth_to_map_set
       /\ ~using_imu_model_fallback
       /\ last_imu_receive_time # 0
       /\ last_imu_receive_time' \in
             (last_imu_receive_time + 1)..(last_imu_receive_time + max_imu_dt)
       => recorded' = recorded + 1]_vars
=============================================================================
