# A TLA+ verification of Aerostack2's flight core

Aerostack2 is a ROS 2 framework for autonomous aerial robots: a drone is a set of nodes that share
topics, services and actions. Most of the repository computes (controllers, trajectories, filters,
perception). What this project models is first the part that *decides*: who may move the vehicle, in which
flight state, in which control mode, and who learns of it. That logic is spread over several nodes that
call each other synchronously, and no test of the repository runs them together. The mission
interpreter, which flies a plan by commanding those nodes from Python threads, belongs to it. Second
comes one component that computes, but whose difficulty is order and time and not numbers: the state
estimator that fuses measurements which arrive late.

## 1. The system

### Parts, their state and their operations

| Part (source) | State it keeps | Operations that change it |
|---|---|---|
| **Control mode codec** (`as2_core/src/utils/control_mode_utils.cpp`) | none | conversion between message and byte, matching, resolution against a list, which frames a mode uses |
| **Platform state machine** (`as2_core/src/platform_state_machine.cpp`) | the flight state | `processEvent`, `setState`, the event service |
| **Aerial platform** (`as2_core/src/aerial_platform.cpp`) | armed, offboard, control mode, the frames of the mode, the last command of each topic, `has_new_references_` | arming, offboard, mode, takeoff, land and reset; the command topics; alerts; the command timer |
| **Drivers** (`as2_aerial_platforms`) | their own mode, the vehicle | the `own*` hooks the platform calls; Gazebo's reset |
| **Behavior server** (`as2_behavior`) | status, goal handle, run timer | goal, cancel, stop, pause, resume, modify, run |
| **Takeoff and land behaviors** (`as2_behaviors_motion`) | a behavior server, a plugin | the hooks, which send events and a disarm to the platform |
| **Motion controller handler** (`as2_motion_controller/src/controller_handler.cpp`) | established modes, bypass, acquired references, pending hover, cached platform info | mode service, references, state, platform info, command timer |
| **Motion reference handlers** (`as2_motion_reference_handlers`) | the mode their bus last set, shared per node | send references, set the mode first when it differs |
| **Behavior handlers of the Python API** (`as2_python_api/behavior_actions/behavior_handler.py`) | the status each believes its behavior to have, its goal handle | start and wait, stop, pause, resume; the status topic |
| **Mission interpreter and its ROS adapter** (`as2_python_api/mission_interpreter`) | the missions loaded, the current one, the stack of its items, the thread that performs it, the current behavior, the stop flag | LOAD, START, EXECUTE, PAUSE, RESUME, STOP, NEXT_ITEM; the thread itself |
| **Other behaviors, behavior tree** | goals | servers and clients like the ones above |
| **Simple EKF plugin** (`as2_state_estimator/plugins/simple_ekf`) | the filter's state, the history buffer, map to odom, the last stamps of the IMU and of each topic, whether earth to map is set | IMU readings, poses and mocap, twists, body rates (from which readings are modelled), the timer, platform info |
| **State estimator node and its other plugins, map server, trajectory generation, perception, hardware drivers, user interfaces** | numeric or presentation state | left out (section 7) |

### How they interact

    clients --goals, stop, pause--> takeoff / land behaviors --events, disarm--> platform
       |                                  | references                             ^   |
       +--set_control_mode--> motion controller <---------+                       |   v
                                  |   ^----- platform info (topic) --------------- +  driver
                                  +--set_platform_control_mode (waits), commands (topics)-->

Calls between nodes use `SynchronousServiceClient` (`as2_core/include/as2_core/synchronous_service_client.hpp`):
the caller waits up to `wait_time` for the service to exist, and then for the response without a
bound. Meanwhile its own node runs no other callback of the default group; every other node does.

    mission_update --> adapter --stop, pause, resume (waits)-------> behaviors
                          | flags, join                                ^  | status (topic)
                          +--> thread of the mission --goal, result----+  v
                                     the handlers' status <------ thread of the drone interface

The adapter, the thread of the mission and the thread of the drone interface share the interpreter and
the handlers without a lock.

The estimator calls nobody: sensors and the platform publish to it, and its callbacks run one at a
time, on messages in whatever order they arrive.

### Behaviours that are hard

* **Interleavings of nodes.** A behavior's callback is suspended in the middle while the platform, the
  other behavior, alerts and clients act. The takeoff and land behaviors do not know of each other.
* **Partial failure.** A mode accepted by the platform and refused by the plugin; a mode accepted by the
  driver and unsuitable for its frames; one command of a pair converted and the other not; LANDED
  delivered and the disarm lost.
* **Stale state.** Platform info cached by the controller; references of the previous mode; a hover
  waiting for a state that comes only after another request; what each node that sends references
  believes the controller's mode to be, from a message that may be older than its own request.
* **Ordering.** Clients learn that a motion succeeded before the platform does. A goal handle that is
  dropped may itself send a result.
* **Late data and clocks.** A measurement is older than readings already predicted with; two arrive
  in the wrong order; the IMU falls silent and comes back; the clock is corrected in flight.
* **Threads without a lock.** A command of the adapter meets the mission between two items, or as it
  ends; a reset forgets a thread that still runs; a handler's status is a message late.
* **Liveness.** The emergency stop happens only at the next command tick; callbacks wait for answers;
  a failed mode request calls itself for its hover fallback; a reset joins a thread inside a callback.

`PROJECT.json` lists each hazard at its line, with the properties that would catch it.

### What makes each part correct

* Platform: the armed flag and the state machine cannot drift apart on the DISARMED side; the active mode
  always has the frames it uses; no reference outlives its mode; every command is in the frames of its mode,
  and the command timer's are gated; EMERGENCY is left only by a reset, and the vehicle is stopped in it.
* Behavior server: one goal at a time, never orphaned, answered once, and in the end.
* Takeoff and land together: they exclude each other; a landing is recorded before its disarm; the end
  of a motion reaches the state machine; every callback returns.
* Controller: it agrees with the platform on the mode; a refused client does not go on in its old mode;
  references and hovers of one mode never serve another; every request is answered.
* Motion reference handlers: a node keeps to the mode it was granted, and does not ask for it again, unless an
  info message from before the grant tells it otherwise, and then only until the next; a call returns, however many nodes want different modes; the nodes' beliefs converge to the controller's mode.
* Mission interpreter: a goal of a mission is always in the hands of the thread the interpreter knows of; a
  stop ends its own mission and no later one; every command returns.
* Simple EKF: its state is the result of every operation fused, each once, at its own stamp, whatever
  the order of arrival; absolute poses correct map to odom and leave odometry continuous; no time is
  integrated twice; a topic's rate is kept; readings resume after a correction of the clock.

## 2. Modules

| Module | Models | Abstract or detailed |
|---|---|---|
| `ControlMode` | the codec, as operators on bytes and on records of two fields | pure |
| `PlatformStateMachine` | the transition table as a set, `processEvent` as an operator | pure |
| `FlightState` | what the rest of the system may see of a platform: flight state and armed flag | abstract |
| `AerialPlatform` | the platform node with its drivers' hooks; implements `FlightState` | detailed |
| `GoalLifecycle` | what a behavior promises its clients | abstract |
| `BehaviorServer` | the server template; implements `GoalLifecycle` | detailed |
| `BehaviorSession` | a behavior as the clients that share it see it: a status, and whose goal it executes; `BehaviorServer` implements it | abstract |
| `FlightBehaviors` | takeoff and land behaviors composed with `FlightState` | composition |
| `ModeNegotiation` | which pairs of modes the controller tries, as operators | pure |
| `ModeService` | the motion controller as its clients see it: one request at a time, one mode reported | abstract |
| `ControllerHandler` | the controller handler composed with the platform's mode; implements `ModeService` | composition |
| `MotionReferences` | the nodes that send motion references, each with its bus, composed with `ModeService` | composition |
| `MissionStack` | the stack of a mission, as operators on how many items are done and whether one is current | pure |
| `MissionInterpreter` | the interpreter, its adapter and the handlers, composed with a `BehaviorSession` for each behavior | composition |
| `FusionTimeline` | what the history of the estimator promises: a line of operations, each with one place | abstract |
| `EkfHistory` | the history buffer: predict, rewind, replay, trim, clear; implements `FusionTimeline` | detailed |
| `SimpleEkf` | the plugin's callbacks and the filter, on top of `EkfHistory`, whose specification they implement | composition |
| `MC...` | the values of the constants for TLC | |
| `...Proofs` | the theorems about the module of that name; `CoreProofs` those about the pure modules, `SimpleEkfProofs` also those about `EkfHistory` | |

`FlightBehaviors` uses `FlightState` and not `AerialPlatform`; this is sound for what it says of the
flight state because `AerialPlatform` is shown to implement `FlightState` (`ImplementsFlightState`,
checked by TLC and proved in `AerialPlatformProofs`). `FlightState` adds the events of the takeoff and land
services of the platform as events like any other.

`MotionReferences` uses `ModeService` and not `ControllerHandler` in the same way: `ControllerHandler` implements it
(`ImplementsModeService`, checked and proved) and answers every request (`RequestsAreAnswered`, checked).
`MissionInterpreter` uses the operators of `BehaviorSession` for what a behavior does, and `BehaviorServer`
takes no step that `SessionSteps` does not have (`ImplementsSession`, checked and proved).

That the user of an interface does no more than the interface allows is proved as well: the behaviors of
`FlightBehaviors` move the platform as `FlightState` does (`PlatformIsFlightState`), the queue of
`MotionReferences` the controller as `ModeService` does (`ControllerIsModeService`), and missions and other
clients a behavior as `SessionSteps` does (`SessionsTheorem`). So both sides of each of the three interfaces are proved
against the same abstract module.

### Correspondence

Variables and actions have the names of the members and functions they stand for, without the trailing
underscore; the comment of each VARIABLE names the member, and `map` in `PROJECT.json` gives the lines
of each definition. The correspondences that are not a renaming:

* **One callback, one action.** A node's callbacks share its default callback group, so a callback that
  waits for nobody is one action. One that calls a service is split at the call: `FlightBehaviors`
  keeps where each behavior waits in `at` and the state of its call in `call`; `ControllerHandler` keeps
  `at` and the locals that survive the wait in `job`.
* **Hooks are choices.** `own*` hooks of drivers, `own_*` hooks of behavior plugins, `onSetMode` and
  `computeOutput` of controller plugins answer either way. The drivers' hooks may also set a mode by
  themselves, as the multirotor simulator does (`ownTakeoff`, `ownLand`, `ownStopPlatform`). Its flight hooks then call
  `ownSendCommand` themselves, past the gates of `sendCommand`: `did` tells such a command (`direct`) from the
  timer's (`command`). Their wait loops only run the simulator.
* **A command is its frame.** The platform's stored commands are reduced to the frame in their headers,
  which is what accepting and converting them depends on.
* **A filter state is the line of operations that led to it.** `predict` and `update` map a state to a
  state, so applying an operation appends it to `state`, and a state kept in the buffer (`before`) is a
  prefix of one. The only number the frames need is a position, `Position`, of which TLC takes a
  different value for every line and the proofs assume only that it is an integer.
* **Data of a measurement are choices.** Whether an innovation passes the gate, whether a mocap position
  repeats the last one and which frame a pose is in are chosen freely.
* **Undefined results are choices.** `std::upper_bound` on a history that is out of order may return any
  place where older is followed by newer (`newer`).
* **Only a negotiation is a step.** A motion reference handler whose mode is settled publishes at once: this
  changes nothing that `MotionReferences` keeps.
* **Time does not pass, messages are late.** A granted node sleeps for 100 ms of wall clock, and the controller's info timer
  runs on the node clock with a period that is a parameter (10 Hz in `motion_controller_default.yaml:4`). Nothing
  relates the two, so `wake` may happen at any time. `info` holds for each node the messages on their way to it, in order;
  its subscription keeps one (`rclcpp::QoS(1)`), so a callback reads any of them and drops those before.
* **A thread gives way at calls and jumps**, as CPython's do: what stands between two of them is one
  action. `thread` says where the mission's thread is in `__perform_mission` and in the handler's `start`. A command of
  the adapter is the list of its phases, `todo` (a STOP is a stop, a reset's own stop, a join with what follows it),
  and `at` is where it is in one: it holds the behavior it has read (`handler`), has asked, is answered.
* **A stack is two numbers.** Items never change their order, so how many are done and whether one is
  current is all there is. `point_to_item` is written by its result, and shown
  to be what its loops compute: by TLC (`PointIsTheLoop`), and for every plan by a proof (`PointIsTheLoops`).
* **`refused` branches.** "Already so", "refused by the hook" and "not available" leave the same state,
  and are one disjunct where no property tells them apart.
* **History variables** (`did`, `refsSince` in `AerialPlatform`; `session`, and `runs` as a bound, in `BehaviorServer`;
  `before`, `driven`, `heard`, `asked`, `did` in `ControllerHandler`; `outcome`, `lost`, `wasReset` in `FlightBehaviors`;
  `granted`, `stale`, `misled` in `MotionReferences`; `sealed`, `latest`,
  `ordered`, `last_reading` in the estimator) appear in no guard, except `runs`. `recorded` also names the
  operations, and with `corrections` is a bound.
* **Mutations.** A definition whose comment starts with "Mutation:" is a plausible bug. No
  specification uses it; `mutants` in `PROJECT.json` pairs each property with one that violates it.

## 3. What the runs check

| Run | Question | Distinct states |
|---|---|---|
| `platform` | Do flags, mode, frames and references stay consistent under every order of services, topics, alerts, driver hooks and resets, are commands in the frames of their mode and the timer's gated, is the platform a `FlightState`, and is a vehicle in EMERGENCY stopped? | 48 878 |
| `behavior_server` | One goal at a time, no orphan, one final answer, an answer in the end, and a `BehaviorSession` to the other clients? | 809 |
| `flight_behaviors` | With alerts, stops, disarms, lost calls and resets at any moment: do takeoff and landing exclude each other until a reset, does every waiting callback return, and until a call is lost is a landing recorded before its disarm, a success recorded and a failure an EMERGENCY? | 58 354 |
| `controller` | With and without a bypass: do controller and platform agree on the mode, are refused clients left hovering or stopped, do hovers, references and commands serve their own mode only, is the controller a `ModeService`, and is every request answered? | 515 088 |
| `motion_references` | Do nodes that want different modes each keep to the mode they were granted, but for late info messages, return from every call, and learn the mode the controller ended in? | 253 136 |
| `mission` | Whatever commands meet whatever moment of a mission: is every goal in hand, does a stop end its own mission only, and does every command return? | 680 730 |
| `simple_ekf` | With measurements late and out of order, an IMU that falls silent and a clock set back: is every operation fused once and in its place, odometry continuous, every rate kept, no time integrated twice, and do readings resume? | 2 247 096 |

Some properties are theorems only (section 5): `DisarmedIsUnarmed` of `AerialPlatform` follows from
`ImplementsFlightState` and the transition table, `ResultsAreFinal` of `BehaviorServer` from `ImplementsLifecycle`, and a
way out of EMERGENCY in the table, which `EmergencyIsAbsorbing` excludes, already breaks `MotionsExclude`.
`CommandsCoverTheMode` of `ControllerHandler` compares two tables, and its proof is the whole comparison.

### Bounds and why they are enough

* `platform`: two frames, so that a command can be in the wrong one and be converted; three modes that use
  frames in different ways (HOVER: none, POSITION: pose and twist, TRAJECTORY: both in one header); one
  request, a speed, no mode resolves. Other modes use frames as one of these do. Nothing is counted,
  so the state space is finite without a bound.
* `behavior_server`: three goals, so that a goal preempts one that preempted another; `MaxRuns` = 2 is the
  number of `on_run` calls after which a goal oriented behavior ends, which is an assumption of
  `GoalsEnd` and not of the safety properties.
* `flight_behaviors`: two behaviors, as in the system, with one call each in flight. No bound. `MotionsExclude` is
  about the time before the first reset, which forgets the motion going on; the properties about ends are
  about the time before the first call that is lost. The history variables `wasReset` and `lost` say so,
  and the rest of each behavior is still explored.
* `controller`, `left_as_it_was`: the mode lists of the multirotor simulator without its trajectory modes, and those of a
  cascade controller with two output modes, so that a request has two pairs to try and some have none.
  Requests: a hover, one with two pairs, one with a bypass, one nothing serves. One kind of reference is
  enough: what the controller does depends on whether any was acquired. Both values of `use_bypass` are
  initial states. `left_as_it_was` has two requests.
* `motion_references`: three nodes, so that two can wait while one is served: a behavior with two references
  a call (a position), one with two handlers (a speed and a hover), and one whose mode nothing serves
  (body rates). Each mode, number of references and way of answering no occurs. A hover is reported as the position
  that the plugin serves it with. One request of each node is at the service at most, as its callback waits for it.
  `Depth` = 2 messages may be on their way to a node (10 in `qos_info`), so that one of before a grant may be read while
  one of after it is there already, and be lost behind two newer ones. The proofs are for any depth.
* `mission`, `start_item`: one mission that comes back to its first behavior, so that a command meant for an item
  may reach a later one of the same handler, and a second behavior that other clients use and that pauses by
  itself. Every START item, every command in every state, a status message held back for as long as it
  takes. Nothing is counted and there is no bound. The theorems hold for every plan and several missions.
* `simple_ekf`: a mocap topic that may set earth to map, with a rate of one measurement in two units of
  time and a gate that opens after one; a twist topic without a limit. `MaxTime` = 3, `MaxDelay` =
  `MaxImuDelay` = 2 and `MaxUpdateLatency` = 1, so that a measurement can be in time, late or too late,
  and an entry be trimmed. `MaxEvents` = 4 operations and clock corrections: enough for an insertion in the middle,
  two absolute poses with one replayed by the other, and a correction with readings on both sides.
  One correction (`MaxCorrections`), after which messages stamped on the clock of before still arrive. All four values of the two parameters are initial states. The bounds
  end the run of the system, so deadlock is not checked. All properties are also proved without
  bounds on the measurements, their delays and the corrections.

Symmetry is not used: the sets are small, and it is not sound with the liveness properties.

### Fairness

* `AerialPlatform`: weak fairness of the command timer, a ROS timer of a spinning node. None of
  clients, drivers, alerts.
* `BehaviorServer`: weak fairness of the run timer, as long as it exists.
* `FlightBehaviors`: for each behavior, weak fairness of serving its sent call or returning from its answered
  one: both are callbacks of nodes that spin. Losing the call is not part of it. A platform that dies with a request in its hands is
  outside this: the client waits without a bound and the behavior is stuck, which the hazards list.
* `ControllerHandler`: weak fairness of answering the platform call that is waited for. The plugin, the
  driver and the platform may refuse every time.
* `MotionReferences`: weak fairness of the controller's service (`RequestsAreAnswered`) and of its info
  timer, and of each node waking from its sleep and running its info subscription.
* `MissionInterpreter`: weak fairness of the thread of the mission and of the adapter, which the Python
  interpreter schedules and whose calls the behaviors' nodes serve, and of the end of a running goal. None of the
  status topics, other clients or commands. A behavior that is paused, or an item that never ends, holds
  the commands that wait for it: `CommandsReturn` says so of the first and assumes the second away.
* `SimpleEkf`: none. Its properties are about what the callbacks do, whether or not messages come.

But for the goals of a mission, no motion is assumed to end; no client is assumed to ask for anything,
and no reference or state to arrive.

## 4. Where the code and its documentation disagree

Each is a run TLC finds violated; the trace is a few steps long.

* `taking_off_without_takeoff`: the takeoff behavior sends TAKE_OFF before its plugin accepts the goal and
  nothing takes it back, so the platform stays TAKING_OFF with nobody taking off.
* `landed_is_armed`: the header says LANDED means armed. The land behavior sends LANDED and then, in a
  second call, the disarm; a takeoff goal served between the two makes the platform take off and then
  be disarmed in flight, because `setArmingState` clears the flag in every state whatever the state
  machine answers, and the next landing ends LANDED and unarmed. No client in this run ever disarms.
* `left_as_it_was`: a comment says that when no pair of modes works "the platform is left as it was before
  trying". It is asked for the mode of the last info message, which may be old, or UNSET, which no
  platform resolves.
* `start_item`: `MissionUpdate.msg` calls `item_id` the "ID of the item to be executed". `start_mission` makes that item
  the current one, and the thread begins by taking the next: START of item N > 0 executes item N + 1, and a
  finished mission started again at item 0 skips it. A fresh mission at item 0 starts where it should.
* `simple_ekf_one_reading`: of a correction of the clock the plugin's README says "only that one
  reading is lost instead of every reading after the step". That is so (`ReadingsResume`) unless
  both command topics are configured, so that readings may be modelled: then a clock set back makes
  every reading look older than the last one fed, and all are dropped before they reach the filter,
  until the clock has caught up.

## 5. What is proved

All proofs are checked by TLAPS down to the last leaf and hold for every value of the constants that
meets the `ASSUME`s of the modules. There are no other assumptions.

* **`CoreProofs`**: lemmas about the pure modules. Of the transition table (`EmergencyHasNoExit`,
  `OnlyDisarmDisarms`, `ArmLeavesDisarmed`, `FollowsTheTable`...), cited by the other proofs so that they
  never expand the table. Of the codec and the matching: `HighBitsNameTheMode` is the arithmetic of
  the byte; `ResolveIsTheRequest` says that the platform takes the mode requested, but for the yaw of a
  hover. The first of the matches exists because < is well-founded on the positions of a list.
  `EveryTurn` and `LoopExists` are what the proofs about loops rest on: that a set with 0, and with each turn the next, has
  every turn, and that a loop of n turns leaves a state after each. They are stated of sets and functions
  instead of predicates, and so can be cited.
* **`AerialPlatformProofs`**: `TypeCorrect`, `DisarmedTheorem`, `FramesTheorem`, `ReferencesTheorem` from
  the invariant `IInv == TypeOK /\ DisarmedIsUnarmed /\ ModeFramesDeclared /\ ReferencesFollowTheMode`. None is inductive
  alone: the last two need the types to know that a resolved mode is a mode and its frames are frame
  ids, and DISARMED is entered both by a reset and by a DISARM that only LANDED takes.
  `SetModeKeepsTheMode` is shared by the mode service and the drivers' hooks. The action properties
  `EmergencyTheorem` and `CommandsTheorem` follow from `IInv` and one step, the second also from `IInv` after it, as a flight
  hook commands in the mode it has just set or been refused; `FlightStateTheorem` is the
  refinement, one step per action, each mapped to a step of `FlightState` or to a stutter. Assumed:
  clients of the event service send no ARM or DISARM (`ClientEventsAssumption`; nothing in the
  repository does).
* **`BehaviorServerProofs`**: `NoOrphanTheorem` from `IInv == TypeOK /\ NoOrphanGoal`, with
  `CleanupEndsEverything` for the three ways a session ends; `LifecycleTheorem`, the refinement of
  `GoalLifecycle` with `current <- handle`, where a preempted goal is canceled by the destructor of its
  handle; `ResultsTheorem`, an action property; `SessionTheorem`, that a step is one of `SessionSteps`.
* **`FlightBehaviorsProofs`**: `ExclusionTheorem`, until a reset, lost calls included.
  `MotionsExclude` is not inductive: `Phases` adds why it holds, namely that an engaged behavior keeps the
  flight state in its own phase or in EMERGENCY, and that a behavior reporting a success is no
  longer engaged. `DisarmTheorem`, until a call is lost, from `LandingRecorded`: from the answer to
  LANDED to the end of the disarm the platform is not LANDING. Both rest on `PastStays`: no step undoes a
  loss or a reset. `PlatformIsFlightState` says that no behavior, alert or reset moves the platform in a way
  `FlightState` does not have. `CallbacksTheorem`: a behavior in a callback waits for a call or has its answer
  (`WaitsAreCalls`), each of the two brings it closer to its end (`Distance`), and nobody takes that back.
* **`ControllerHandlerProofs`**: `ModesAgree`, `NoMeansNoModeOrHover`, `FrozenForHoversOnly`,
  `CommandsAreOfTheMode` and `CommandsAreWhole`, all from one invariant, `ControllerInv`. To the two state
  properties it adds why they hold: a request in service has no mode established, a fallback is a hover,
  a hover that bypasses the plugin has the platform's hover as its only pair (`CallInv`, `JobInv`), an acquired
  reference was heard since the mode was established, and a hover is pending only in the mode of one
  (`InputInv`). `NoModeKeepsInv` is shared by every step that leaves no mode established; only
  `TryPairKeepsInv` establishes one, and it rests on `ResolveIsTheRequest`. Assumed: the platform's list is
  a sequence of bytes (`AvailableModesAssumption`, the message's `uint8[]`).
* **`ControllerHandlerProofs`**, of the negotiation and the service: `ModePairs` is what `findModePairs` returns for
  lists of any length: pairs of a mode the plugin takes, which serves the request, with a mode the
  platform listed, never of a higher level, each once, and none left out that the plugin can feed. It is an induction over the two
  loops (`EveryTurn`). From it, `ServiceInvariance`: `ServiceInv == TypeOK /\ RequestInv /\ PairsInv` is inductive together
  with `ControllerInv`. `RequestInv` ties the request to the job done for it: a hover is sought either for its own
  sake or as the fallback of another. `PairsInv` says that whatever pair is established next serves what is wanted; this is what
  makes a yes true. `TypeCorrect` and `ServesItsClients` (`ImplementsModeService`) follow. `RequestsTheorem`: each answer of the
  platform ends the request or moves it from the hover to the pairs, along the pairs, to the restoration or, once and for all,
  to the fallback. Assumed: the plugin's lists are sequences of bytes (`ControllerModesAssumption`, its
  `std::vector<uint8_t>`).
* **`MotionReferencesProofs`**: `TypeCorrect` and `GrantTheorem`, for any nodes, handlers and modes, from
  `IInv == TypeOK /\ Queued /\ Kept`. `Queued` says that the queue holds each waiting node once and that the
  request served is the one at its head, so that the answer goes to who asked. `Kept` says why a grant holds:
  the mode is the one reported, hence the one in every message newer than the grant (those behind the first
  `stale`), and it is on the node's bus unless the last message read is older (`misled`). `RefusedKeeps` serves every way of being told no, from any place in the queue.
  `ControllerIsModeService`: the queue moves the controller as `ModeService` does. `NegotiationsAdvance`: with every request
  served, each node in the queue is through, further ahead, or has a reference less to send, and nobody
  is overtaken, however many others ask, give up or are refused; `AskersTheorem` adds that whoever asks is in the queue.
* **`MissionInterpreterProofs`**: `TypeCorrect`, `InHandTheorem` and `StopTheorem`, for any behaviors and missions, from
  `IInv == TypeOK /\ CommandIsUnderWay /\ ThreadIsKnown`. `ThreadIsKnown` says that the interpreter's `exec_thread` is
  set exactly while the thread has not ended, and what `thread` says of the stack, the current behavior and the
  sessions; a reset keeps it only because it joins first. `CommandIsUnderWay` ties `at` to the phases left, so that a stop flag
  that is up always has its reset before it. `SessionsTheorem`: whatever anybody does to a behavior is in `SessionSteps`. `ItemsTheorem`:
  while a mission is performed its items are taken in order, one at a time, whatever is commanded. `MissionsTheorem` and
  `CommandsTheorem`: each step of the thread and of the adapter brings the mission or the command closer to its end, and
  nobody takes that back. `PointIsTheLoops` is about the two loops of `point_to_item`, as functions of the stack: every turn
  comes closer to the item, so that exactly one function does what each loop does (`LoopUp`, `LoopDown`).
* **`SimpleEkfProofs`**, of `EkfHistory`: the buffer is a suffix of the line, each entry with the operations before it (`Shape`), and every
  operation has an id of its own (`Fresh`); from these `ChainsAlwaysHold` and
  `HistoryImplementsTimeline`. The heart is `InsertedSuffix`: a rewind to entry k and a replay put the
  operation at its place in the line and in the buffer alike. `AlwaysChronological` needs more, since
  trimming forgets entries whose order still matters: `Chrono` adds that whatever was dropped since the
  last clear is older than the horizon, hence than any measurement not rejected as late.
  `OdometryStaysContinuous` is the one theorem that speaks of `Position`, assumed to be an integer.
* **`SimpleEkfProofs`**, of `SimpleEkf`: `PluginImplementsHistory`, because nothing is recorded before earth to map is
  set (`NothingBeforeEarthToMap`) and the state is set to a pose only before; with it the theorems of
  the history hold of the plugin. `RateIsAlwaysRespected` rests on `LastIsLast`: no fused
  measurement of a topic with a rate is later than the stamp kept, even after the clock was set back, because an age
  that is negative is below the period. `PredictionsAlwaysMoveForward` rests on `FedIsLast`, the same for readings.
  `ReadingsAlwaysResume` rests on `LastMessage`: while no reading may be modelled, the last stamp kept is that of the last
  message, and not of the last reading fed.

### Only model-checked

The liveness properties (`EmergencyStopsTheVehicle`, `GoalsEnd`, `CallbacksReturn`,
`SuccessIsRecorded`, `FailureIsEmergency`, `RequestsAreAnswered`, `NegotiationsEnd`, `BeliefsConverge`, `CommandsReturn`): TLAPS does not
reason about fairness or ENABLED here. Every other property of the passing runs is proved.

Of four of them the half that is safety is proved, for every value of the constants, as an action property: what
fairness makes happen brings the caller closer to its end, and nothing else takes that back
(`CallbacksTheorem`, `RequestsTheorem`, `NegotiationsAdvance`, `CommandsTheorem` with `MissionsTheorem` for the join). What is
left to TLC is that these steps are enabled and, by the fairness of section 3, taken. The measures are lexicographic,
over numbers that are bounded from below: a phase, the pairs left, the place in a queue, the items left.

## 6. Limits of the model

* Time is modelled in the estimator only, as a count of the shortest period that matters. Elsewhere timers fire and sleeps
  end in any order, and a timeout is a call that fails. In the estimator a message that was on its way when the
  clock was set back may come at any later time, stamped ahead of the clock, if messages have a delay at all.
* A granted mode is not kept in every case. `setMode` sleeps "for the control mode callback to update"
  (`basic_motion_references.cpp:157`), but that callback does not run while its node sleeps, and what it reads first afterwards may
  be older than the grant: then the node asks for its mode again, which ends it, or takes its other handler's for
  settled. `GrantHolds` says that nothing else does this and that a newer message mends it, and `NegotiationsEnd`
  that calls return all the same.
* Of the commands that the simulator's flight hooks send by themselves the model says in which frames they are. They are sent
  whether or not the vehicle is armed, offboard or in EMERGENCY, as the code does, and no document says otherwise.
* Messages between nodes are service calls, which are lost only before being sent. The platform info
  topic keeps the latest message; the controller's info topic delays and loses messages, in order. Commands in flight between controller and platform are not modelled.
* The behaviors' plugins that call the platform's own takeoff and land services are left out of
  `FlightBehaviors`; those services are actions of `AerialPlatform`.
* In `ControllerHandler` the platform's mode is set by the controller and by the driver itself
  (`driverSetsMode`); after the driver did, and until the controller sets a mode, the two disagree, and
  `EstablishedModeIsThePlatforms` says so.
* A motion reference handler with `use_actuator_commands`, which commands the platform without the controller, is
  not in the model; nor are the registry that gives the handlers of a node
  their one bus, and the destructors.
* `CommandsCoverTheMode` leaves out the modes without a yaw: for ATTITUDE with yaw NONE the platform looks at a
  twist that the controller does not publish. No list of modes in the repository has it.
* Missions: items are waited for, which is the default of `start`; all missions fly one drone; the plan of an id does not
  change when it is loaded again; item ids are not negative. Arming and offboard, which `start_callback` asks for first,
  are left out, and so are the operations of the interpreter that no command reaches (`jump_to_item`, whose loop
  would not end for item 0; `append_mission`, `insert_mission`, `modify`). `mission` does find the two ways in which a command
  ends the adapter with an exception: a STOP of a mission that was never loaded (`KeyError`), and any command for the
  current behavior while there is none, before the first item or at the end (`AttributeError`). Both are `dead` in the
  model, and no document promises otherwise.
* The controller's preferred output mode is unset, its plugin has all its frames, and time advances
  between two ticks of its timer.

## 7. Not modelled

* Of the estimator: the equations of the filter (`ekf_c_code.cpp`, 17 000 lines generated from a symbolic model,
  and the matrices of `ekf_wrapper.cpp`), smoothing, the lag of modelled readings, covariances and the
  conversion of measurements between frames. The estimator node loads one plugin and publishes what it says; the
  other plugins forward a pose.
* Numeric code (control laws, trajectory generation, simulation), perception, device drivers, the
  map server and user interfaces: their correctness is numerical or presentational, and a state machine
  made of them would say nothing of it. They, with vendored libraries and generated code, are most of the
  repository's lines.
* Behaviors other than takeoff and land share the server that is modelled. `loadControlModes` reads a
  file once at start.

## 8. Plan

In this order:

1. The simulator's and Gazebo's own copies of the mode, with the refinement to `AerialPlatform`'s hooks.
2. The trajectory plugins of takeoff and land, whose action client receives late results.
3. The operations of the mission interpreter that change a plan while it is flown.
4. The preferred output mode and the parameters callback of the controller.
5. Of proofs: the same half of `GoalsEnd`, `EmergencyStopsTheVehicle` and `BeliefsConverge`.
