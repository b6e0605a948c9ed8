------------------------------- MODULE EkfHistory -------------------------------
(* The history buffer of the simple EKF (ekf_history_buffer.hpp), which fuses  *)
(* measurements that arrive late: it rewinds the filter to the measurement's   *)
(* stamp, corrects, and replays what was recorded after it.                   *)
(*                                                                            *)
(* The numeric state is abstracted to the line of operations that produced it: *)
(* predict and update map a state to a state, so applying an operation appends *)
(* it.  What the frames need of the numbers is one quantity per state, the     *)
(* position, of which nothing is assumed but that it is one.                  *)
EXTENDS Integers, Sequences

CONSTANTS
    Sources,             \* what operations come from: sensors, the pre-flight correction
    Imu,                 \* the source of predictions
    AbsoluteSources,     \* the sources of UPDATE_POSE: is_odometry is false
    Times,               \* the stamps, in units of the shortest period that matters
    MaxUpdateLatency,    \* max_update_latency_
    Position(_)          \* the position in map that a line of operations leads to

ASSUME HistoryAssumption ==
    /\ Imu \in Sources \ AbsoluteSources
    /\ AbsoluteSources \subseteq Sources
    /\ Times \subseteq Nat
    /\ MaxUpdateLatency \in Nat

VARIABLES
    state,          \* the operations applied since the state was last set
    map_to_odom,    \* the position of odom in map
    buffer,         \* the recorded operations, each with the state it was applied to
    recorded,       \* how many operations were recorded: names the next one
    sealed,         \* how long state was when the history was last forgotten
    latest,         \* the latest time the history was given since then
    ordered         \* whether every reading came after what was recorded, and no time
                    \* before an earlier one, since then

history == <<state, map_to_odom, buffer, recorded, sealed, latest, ordered>>

Operation == [id : Nat \ {0}, source : Sources, stamp : Times]
Entry == [op : Operation, before : Seq(Operation)]

HistoryTypeOK ==
    /\ state \in Seq(Operation)
    /\ map_to_odom \in Int
    /\ buffer \in Seq(Entry)
    /\ recorded \in Nat
    /\ sealed \in Nat
    /\ latest \in Nat
    /\ ordered \in BOOLEAN

HistoryInit ==
    /\ state = <<>>
    /\ map_to_odom = 0
    /\ buffer = <<>>
    /\ recorded = 0
    /\ sealed = 0
    /\ latest = 0
    /\ ordered = TRUE

NewOperation(source, stamp) == [id |-> recorded + 1, source |-> source, stamp |-> stamp]

Later(t, u) == IF t < u THEN u ELSE t

(* Entries are dropped from the front of b while the one after them is older   *)
(* than the horizon: the first one kept is k.                                 *)
trim(b, now) ==
    \E k \in 1..Len(b) :
        /\ \A i \in 2..k : b[i].op.stamp < now - MaxUpdateLatency
        /\ k < Len(b) => b[k + 1].op.stamp >= now - MaxUpdateLatency
        /\ buffer' = SubSeq(b, k, Len(b))
        /\ latest' = Later(latest, now)

(* A prediction goes to the end of the history, whatever its stamp.           *)
predictAndRecord(stamp) ==
    LET op == NewOperation(Imu, stamp)
    IN  /\ state' = Append(state, op)
        /\ recorded' = recorded + 1
        /\ trim(Append(buffer, [op |-> op, before |-> state]), stamp)
        /\ ordered' = (ordered /\ \A i \in 1..Len(buffer) : buffer[i].op.stamp <= stamp)
        /\ UNCHANGED <<map_to_odom, sealed>>

(* Mutation: an entry with the same stamp counts as newer (lower_bound).      *)
newer_Lower(stamp) ==
    {k \in 1..(Len(buffer) + 1) :
        /\ k > 1 => buffer[k - 1].op.stamp < stamp
        /\ k <= Len(buffer) => stamp <= buffer[k].op.stamp}

(* The first entry newer than the stamp, where std::upper_bound finds it.  On  *)
(* a history out of order its result is one of the places where older is       *)
(* followed by newer: which one is not specified.                             *)
newer(stamp) ==
    {k \in 1..(Len(buffer) + 1) :
        /\ k > 1 => buffer[k - 1].op.stamp <= stamp
        /\ k <= Len(buffer) => stamp < buffer[k].op.stamp}

(* The state the rewind lands on: that of entry k, or the current one.        *)
rewind_state(k) == IF k <= Len(buffer) THEN buffer[k].before ELSE state

(* The state before entry m of the history with op inserted at k: op and the   *)
(* entries between, applied again to the rewound state.                       *)
replayed(k, op, m) ==
    IF m = k THEN rewind_state(k)
    ELSE Append(rewind_state(k), op) \o [i \in 1..(m - k - 1) |-> buffer[k + i - 1].op]

(* Mutation: the entries after the new one keep the state they had.           *)
inserted_StaleBefore(k, op) ==
    [m \in 1..(Len(buffer) + 1) |->
        CASE m < k -> buffer[m]
          [] m = k -> [op |-> op, before |-> rewind_state(k)]
          [] OTHER -> buffer[m - 1]]

inserted(k, op) ==
    [m \in 1..(Len(buffer) + 1) |->
        IF m < k THEN buffer[m]
        ELSE [op     |-> IF m = k THEN op ELSE buffer[m - 1].op,
              before |-> replayed(k, op, m)]]

(* map->odom moves by the net change of the state.                            *)
compute_map_to_odom(before, after) == map_to_odom + Position(after) - Position(before)

(* Mutation: the state to compare with is taken after the rewind.             *)
insertAndReplay_NetOfTheRewind(source, stamp, now) ==
    \E k \in newer(stamp) :
        LET op == NewOperation(source, stamp)
        IN  /\ state' = replayed(k, op, Len(buffer) + 2)
            /\ map_to_odom' = IF source \in AbsoluteSources
                              THEN compute_map_to_odom(rewind_state(k), state')
                              ELSE map_to_odom
            /\ recorded' = recorded + 1
            /\ trim(inserted(k, op), now)
            /\ ordered' = (ordered /\ now >= latest)
            /\ UNCHANGED sealed

(* Only an absolute pose moves map->odom, once, whatever its replay includes.  *)
insertAndReplay(source, stamp, now) ==
    \E k \in newer(stamp) :
        LET op == NewOperation(source, stamp)
        IN  /\ state' = replayed(k, op, Len(buffer) + 2)
            /\ map_to_odom' = IF source \in AbsoluteSources
                              THEN compute_map_to_odom(state, state')
                              ELSE map_to_odom
            /\ recorded' = recorded + 1
            /\ trim(inserted(k, op), now)
            /\ ordered' = (ordered /\ now >= latest)
            /\ UNCHANGED sealed

(* A measurement older than the latency limit changes nothing.                *)
updateAndRecord(source, stamp, now) ==
    \/ /\ now - stamp > MaxUpdateLatency
       /\ UNCHANGED history
    \/ /\ now - stamp <= MaxUpdateLatency
       /\ insertAndReplay(source, stamp, now)

clear ==
    /\ buffer' = <<>>
    /\ sealed' = Len(state)
    /\ latest' = 0
    /\ ordered' = TRUE
    /\ UNCHANGED <<state, map_to_odom, recorded>>

(* resetStateToPose sets the state and leaves the history alone: it may only   *)
(* be called before anything is recorded, which SimpleEkf has to show.        *)
resetStateToPose ==
    /\ state' = <<>>
    /\ UNCHANGED <<map_to_odom, buffer, recorded, sealed, latest, ordered>>

HistoryNext ==
    \/ \E stamp \in Times : predictAndRecord(stamp)
    \/ \E source \in Sources \ {Imu}, stamp \in Times, now \in Times :
          updateAndRecord(source, stamp, now)
    \/ clear
    \/ recorded = 0 /\ resetStateToPose

HistorySpec == HistoryInit /\ [][HistoryNext]_history

-----------------------------------------------------------------------------
(* The invariant the code states for EkfTimelineEntry: applying an entry's     *)
(* operation to its state gives the next entry's, or the current one for the   *)
(* last.  A rewind to any entry and a replay from it is right only if so.     *)
HistoryChains ==
    \A i \in 1..Len(buffer) :
        Append(buffer[i].before, buffer[i].op) =
            IF i < Len(buffer) THEN buffer[i + 1].before ELSE state

(* A late measurement is applied at its own timestamp: while the readings come *)
(* in order and the clock runs forward, the operations of the state are in the *)
(* order of their stamps since the history was last forgotten, the ones that   *)
(* the trimming dropped included, and equal stamps in order of arrival.       *)
Chronological ==
    ordered =>
        \A i, j \in (sealed + 1)..Len(state) :
            i < j => \/ state[i].stamp < state[j].stamp
                     \/ state[i].stamp = state[j].stamp /\ state[i].id < state[j].id

(* odom->base is map->base without map->odom.                                 *)
odom_to_base == Position(state) - map_to_odom

(* An absolute pose corrects map->odom and leaves odom->base continuous, even  *)
(* when its replay corrects with other absolute poses again; everything else   *)
(* leaves map->odom alone.                                                    *)
OdometryIsContinuous ==
    [][recorded' # recorded =>
         IF \E i \in 1..Len(state') : /\ state'[i].id = recorded'
                                      /\ state'[i].source \in AbsoluteSources
         THEN odom_to_base' = odom_to_base
         ELSE map_to_odom' = map_to_odom]_history

(* The state is the result of every operation recorded, each of them once and  *)
(* in one order (FusionTimeline).                                             *)
Timeline == INSTANCE FusionTimeline WITH fused <- state, Operations <- Operation
ImplementsTimeline == Timeline!Spec
=============================================================================
