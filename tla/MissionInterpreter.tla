-------------------------- MODULE MissionInterpreter --------------------------
(***************************************************************************)
(* The mission interpreter of the Python API, its ROS adapter and the        *)
(* behavior handlers (as2_python_api), composed with the behaviors they are  *)
(* clients of.  Four kinds of process share the interpreter and the handlers *)
(* without a lock: the adapter, whose callbacks run one at a time and wait   *)
(* for services and for the end of a mission; the thread that performs a     *)
(* mission; the thread of the drone interface, which reads the status topics *)
(* one message every 50 ms; and the nodes of the behaviors.                  *)
(*                                                                          *)
(* A thread gives way where CPython does, at calls and jumps.  Items are      *)
(* waited for, as they are by default, a mission keeps its plan, and all fly  *)
(* the same drone.  Arming and offboard, which start_callback asks for first, *)
(* are left out.                                                             *)
(***************************************************************************)
EXTENDS BehaviorSession, MissionStack, Sequences

CONSTANTS
    Behaviors,
    Shared,         \* the behaviors that others command or that pause by themselves
    Plan            \* the behaviors of the items of each mission

Missions == DOMAIN Plan
ASSUME PlanAssumption == \A m \in Missions : Plan[m] \in Seq(Behaviors)
ASSUME SharedAssumption == Shared \subseteq Behaviors
ASSUME NoneAssumption == None \notin Behaviors \cup Missions \cup {"mission", "other"} \cup Nat

VARIABLES
    missions,           \* the keys of _missions
    current_mid,        \* _current_mid
    stack,              \* _mission_stack; not made yet, it is Fresh
    exec_thread,        \* whether exec_thread is a thread, and not None or False
    current_behavior,
    stopped,
    thread,             \* where the last thread started is in __perform_mission
    at,                 \* what the adapter is doing
    todo,               \* the rest of its command
    mid,                \* the mission of its command
    handler,            \* whose stop, pause or resume it is in
    success,            \* the response it got
    status,             \* __status of each handler
    news,               \* the status message each handler has not read, or None
    session             \* the behaviors

interpreterVars == <<missions, current_mid, stack, exec_thread, current_behavior, stopped>>
adapterVars == <<at, todo, mid, handler, success>>
handlerVars == <<status, news>>
vars == <<interpreterVars, thread, adapterVars, handlerVars, session>>

Clients == {"mission", "other"}
Phases == {"stop", "next", "pause", "resume", "reset", "join", "start"}

(* The length of the current plan. *)
length == IF current_mid = None THEN 0 ELSE Len(Plan[current_mid])

TypeOK ==
    /\ missions \subseteq Missions
    /\ current_mid \in missions \cup {None}
    /\ stack \in Stacks(length)
    /\ exec_thread \in BOOLEAN
    /\ current_behavior \in Behaviors \cup {None}
    /\ stopped \in BOOLEAN
    /\ thread \in {"loop", "taken", "sending", "accepted", "waiting", "leaving", "ended"}
    /\ at \in {"free", "next", "holding", "asking", "calling", "answered", "joined", "dead"}
    /\ todo \in Seq(Phases)
    /\ mid \in Missions \cup {None}
    /\ handler \in Behaviors \cup {None}
    /\ success \in BOOLEAN
    /\ status \in [Behaviors -> {"IDLE", "RUNNING", "PAUSED"}]
    /\ news \in [Behaviors -> {"IDLE", "RUNNING", "PAUSED", None}]
    /\ session \in [Behaviors -> Sessions(Clients)]

Init ==
    /\ missions = {} /\ current_mid = None /\ stack = Fresh
    /\ exec_thread = FALSE /\ current_behavior = None /\ stopped = FALSE
    /\ thread = "ended"
    /\ at = "free" /\ todo = <<>> /\ mid = None /\ handler = None /\ success = FALSE
    /\ status = [b \in Behaviors |-> "IDLE"]
    /\ news = [b \in Behaviors |-> None]
    /\ session = [b \in Behaviors |-> Idle]
-----------------------------------------------------------------------------
(* The thread of a mission: __perform_mission, and start of the handlers.     *)

item == Plan[current_mid][stack.done + 1]

(* The thread looks for pending items and at stopped, and takes an item.      *)
take ==
    /\ thread = "loop"
    /\ pending(length, stack) > 0 /\ ~stopped
    /\ stack' = next_item(length, stack)
    /\ thread' = "taken"
    /\ UNCHANGED <<missions, current_mid, exec_thread, current_behavior, stopped,
                   adapterVars, handlerVars, session>>

(* Mutation: what is current is done, also when there is nothing. *)
leave_CountsNone ==
    /\ thread = "loop"
    /\ pending(length, stack) = 0 \/ stopped
    /\ stack' = [done |-> stack.done + 1, current |-> FALSE]
    /\ thread' = "leaving"
    /\ UNCHANGED <<missions, current_mid, exec_thread, current_behavior, stopped,
                   adapterVars, handlerVars, session>>

(* No item is left, or the mission is stopped. *)
leave ==
    /\ thread = "loop"
    /\ pending(length, stack) = 0 \/ stopped
    /\ stack' = next_item(length, stack)
    /\ thread' = "leaving"
    /\ UNCHANGED <<missions, current_mid, exec_thread, current_behavior, stopped,
                   adapterVars, handlerVars, session>>

setCurrent ==
    /\ thread = "taken"
    /\ current_behavior' = item
    /\ thread' = "sending"
    /\ UNCHANGED <<missions, current_mid, stack, exec_thread, stopped,
                   adapterVars, handlerVars, session>>

accept ==
    /\ thread = "sending"
    /\ session' = [session EXCEPT ![item] = Accepted("mission")]
    /\ thread' = "accepted"
    /\ UNCHANGED <<interpreterVars, adapterVars, handlerVars>>

(* The goal is rejected: most behaviors answer false, and the mission goes on *)
(* with the next item; one lets the exception through, and it ends.           *)
reject ==
    /\ thread = "sending"
    /\ \/ thread' = "loop" /\ UNCHANGED stack
       \/ thread' = "leaving" /\ stack' = next_item(length, stack)
    /\ UNCHANGED <<missions, current_mid, exec_thread, current_behavior, stopped,
                   adapterVars, handlerVars, session>>

(* Told that the goal is accepted, the handler takes it to be running. *)
start ==
    /\ thread = "accepted"
    /\ status' = [status EXCEPT ![item] = "RUNNING"]
    /\ thread' = "waiting"
    /\ UNCHANGED <<interpreterVars, adapterVars, news, session>>

(* Mutation: the end is taken from the status topic. *)
wait_to_result_ByStatus ==
    /\ thread = "waiting"
    /\ status[item] = "IDLE"
    /\ thread' = "loop"
    /\ UNCHANGED <<interpreterVars, adapterVars, handlerVars, session>>

(* The goal has a result, whichever. *)
wait_to_result ==
    /\ thread = "waiting"
    /\ session[item].goal # "mission"
    /\ thread' = "loop"
    /\ UNCHANGED <<interpreterVars, adapterVars, handlerVars, session>>

forget ==
    /\ thread = "leaving"
    /\ exec_thread' = FALSE
    /\ current_behavior' = None
    /\ thread' = "ended"
    /\ UNCHANGED <<missions, current_mid, stack, stopped,
                   adapterVars, handlerVars, session>>

PerformMission ==
    take \/ leave \/ setCurrent \/ accept \/ reject \/ start \/ wait_to_result
    \/ forget
-----------------------------------------------------------------------------
(* The adapter and the interpreter's operations.                             *)

(* start_mission.  A mission that is not loaded does not become the current   *)
(* one, which then starts in its place.                                      *)
start_mission(m, idx) ==
    LET current == IF m \in missions THEN m ELSE current_mid
        from == IF current = current_mid THEN stack ELSE Fresh
    IN  IF exec_thread \/ current = None
        THEN UNCHANGED <<interpreterVars, thread>>
        ELSE /\ current_mid' = current
             /\ stack' = point_to_item(Len(Plan[current]), from, idx)
             /\ exec_thread' = TRUE
             /\ thread' = "loop"
             /\ UNCHANGED <<missions, current_behavior, stopped>>

(* load_mission: it becomes the current one if there is none. *)
loaded(m) ==
    /\ missions' = missions \cup {m}
    /\ current_mid' = IF current_mid = None THEN m ELSE current_mid

LOAD(m) ==
    /\ at = "free"
    /\ loaded(m)
    /\ UNCHANGED <<stack, exec_thread, current_behavior, stopped,
                   thread, adapterVars, handlerVars, session>>

START(m, idx) ==
    /\ at = "free"
    /\ start_mission(m, idx)
    /\ UNCHANGED <<adapterVars, handlerVars, session>>

(* The commands that talk to a behavior, phase by phase: a reset is a stop of  *)
(* the current mission, a join and a load.                                   *)
Commands == {<<"pause">>, <<"resume">>, <<"next">>, <<"stop", "reset", "join">>,
             <<"reset", "join", "start">>}

mission_update_callback(command, m) ==
    /\ at = "free"
    /\ at' = "next"
    /\ todo' = command
    /\ mid' = m
    /\ UNCHANGED <<interpreterVars, thread, handler, success, handlerVars, session>>

(* A phase is over.  After the stop of STOP the mission is looked up, and the *)
(* adapter dies of one that is not loaded.                                   *)
phaseOver ==
    /\ todo' = Tail(todo)
    /\ at' = IF Head(todo) = "stop" /\ mid \notin missions THEN "dead"
             ELSE IF Len(todo) = 1 THEN "free" ELSE "next"
    /\ UNCHANGED mid

Operations == {"stop", "next", "pause", "resume", "reset"}

(* stop_mission, next_item, pause_mission and resume_mission before they turn *)
(* to the current behavior.                                                  *)
operate ==
    /\ at = "next"
    /\ Head(todo) \in Operations
    /\ IF exec_thread /\ (Head(todo) = "reset" \/ mid = current_mid)
       THEN /\ at' = "holding"
            /\ stopped' = (stopped \/ Head(todo) \in {"stop", "reset"})
            /\ UNCHANGED <<todo, mid, success>>
       ELSE phaseOver /\ UNCHANGED <<stopped, success>>
    /\ UNCHANGED <<missions, current_mid, stack, exec_thread, current_behavior, thread,
                   handler, handlerVars, session>>

(* What the handler answers true to without a call. *)
needless(op, believed) ==
    CASE op = "pause" -> believed # "RUNNING"
      [] op = "resume" -> believed # "PAUSED"
      [] OTHER -> believed = "IDLE"

(* The current behavior is None before the first item and after the last: the *)
(* adapter dies of it, and with it every later command.                      *)
callBehavior ==
    /\ at = "holding"
    /\ at' = IF current_behavior = None THEN "dead" ELSE "asking"
    /\ handler' = current_behavior
    /\ UNCHANGED <<interpreterVars, thread, todo, mid, success, handlerVars, session>>

(* stop, pause and resume of the handler, up to the call. *)
ask ==
    /\ at = "asking"
    /\ IF needless(Head(todo), status[handler])
       THEN phaseOver /\ handler' = None
       ELSE at' = "calling" /\ UNCHANGED <<todo, mid, handler>>
    /\ UNCHANGED <<interpreterVars, thread, success, handlerVars, session>>

(* The behavior's node serves the call. *)
serve(yes) ==
    /\ at = "calling"
    /\ LET s == session[handler]
           op == Head(todo)
       IN  /\ yes /\ op = "pause" => s.status = "RUNNING"
           /\ yes /\ op = "resume" => s.status = "PAUSED"
           /\ session' = IF yes
                         THEN [session EXCEPT ![handler] =
                                 IF op = "pause" THEN Paused(s)
                                 ELSE IF op = "resume" THEN Resumed(s) ELSE Idle]
                         ELSE session
    /\ at' = "answered"
    /\ success' = yes
    /\ UNCHANGED <<interpreterVars, thread, todo, mid, handler, handlerVars>>

answered ==
    /\ at = "answered"
    /\ status' = IF success
                 THEN [status EXCEPT ![handler] =
                         CASE Head(todo) = "pause" -> "PAUSED"
                           [] Head(todo) = "resume" -> "RUNNING"
                           [] OTHER -> "IDLE"]
                 ELSE status
    /\ phaseOver
    /\ handler' = None
    /\ success' = FALSE
    /\ UNCHANGED <<interpreterVars, thread, news, session>>

(* Mutation: the thread is not waited for.  *)
join_AtOnce ==
    /\ at = "next" /\ Head(todo) = "join"
    /\ at' = "joined"
    /\ UNCHANGED <<interpreterVars, thread, todo, mid, handler, success,
                   handlerVars, session>>

join ==
    /\ at = "next" /\ Head(todo) = "join"
    /\ ~exec_thread \/ thread = "ended"
    /\ at' = "joined"
    /\ UNCHANGED <<interpreterVars, thread, todo, mid, handler, success,
                   handlerVars, session>>

(* Mutation: the flag of the stop stays up.  *)
reset_KeepsStopped ==
    /\ at = "joined"
    /\ stack' = Fresh
    /\ exec_thread' = FALSE
    /\ current_behavior' = None
    /\ missions' = missions \cup {mid}
    /\ current_mid' = mid
    /\ phaseOver
    /\ UNCHANGED <<stopped, thread, handler, success, handlerVars, session>>

(* reset, after the thread has ended. *)
reset ==
    /\ at = "joined"
    /\ stack' = Fresh
    /\ exec_thread' = FALSE
    /\ current_behavior' = None
    /\ stopped' = FALSE
    /\ missions' = missions \cup {mid}
    /\ current_mid' = mid
    /\ phaseOver
    /\ UNCHANGED <<thread, handler, success, handlerVars, session>>

(* The start of EXECUTE. *)
execute ==
    /\ at = "next" /\ Head(todo) = "start"
    /\ start_mission(mid, 0)
    /\ phaseOver
    /\ UNCHANGED <<handler, success, handlerVars, session>>

Adapter ==
    operate \/ callBehavior \/ ask \/ (\E yes \in BOOLEAN : serve(yes)) \/ answered
    \/ join \/ reset \/ execute
-----------------------------------------------------------------------------
(* The status topics, and the behaviors' own lives.                           *)

publish_behavior_status(b) ==
    /\ news' = [news EXCEPT ![b] = session[b].status]
    /\ UNCHANGED <<interpreterVars, thread, adapterVars, status, session>>

status_callback(b) ==
    /\ news[b] # None
    /\ status' = [status EXCEPT ![b] = news[b]]
    /\ news' = [news EXCEPT ![b] = None]
    /\ UNCHANGED <<interpreterVars, thread, adapterVars, session>>

(* A running goal ends. *)
finish(b) ==
    /\ session[b].status = "RUNNING"
    /\ session' = [session EXCEPT ![b] = Idle]
    /\ UNCHANGED <<interpreterVars, thread, adapterVars, handlerVars>>

(* Other clients, and a run that answers PAUSED. *)
elsewhere(b) ==
    /\ \E s \in SessionSteps({"other"}, session[b]) : session' = [session EXCEPT ![b] = s]
    /\ UNCHANGED <<interpreterVars, thread, adapterVars, handlerVars>>

Next ==
    \/ PerformMission
    \/ \E m \in Missions :
          \/ LOAD(m)
          \/ \E idx \in 0..Len(Plan[m]) : START(m, idx)
          \/ \E command \in Commands : mission_update_callback(command, m)
    \/ Adapter
    \/ \E b \in Behaviors :
          publish_behavior_status(b) \/ status_callback(b) \/ finish(b)
    \/ \E b \in Shared : elsewhere(b)

(* The threads run, calls are served, and a running goal ends. *)
Spec ==
    /\ Init /\ [][Next]_vars
    /\ WF_vars(PerformMission) /\ WF_vars(Adapter)
    /\ \A b \in Behaviors : WF_vars(finish(b))
-----------------------------------------------------------------------------
(* A goal of the mission is executing only while a thread waits for it, and    *)
(* the interpreter knows of that thread, and of that behavior, so that STOP,   *)
(* PAUSE and NEXT_ITEM reach it.  No reset leaves one behind.                 *)
GoalsAreInHand ==
    \A b \in Behaviors : session[b].goal = "mission" =>
        /\ exec_thread
        /\ thread \in {"accepted", "waiting"} /\ item = b
        /\ current_behavior = b

(* A stop ends the mission it was for and no later one: the flag is down again *)
(* before the next command, whatever ended the mission meanwhile.             *)
StopIsOver == stopped => at # "free"

(* Every command returns, and the next one is heard, however it meets the end *)
(* of an item or of the mission; unless the adapter dies of what it finds, or  *)
(* a behavior is paused.                                                      *)
CommandsReturn ==
    at # "free" ~> \/ at \in {"free", "dead"}
                   \/ \E b \in Behaviors : session[b].status = "PAUSED"

-----------------------------------------------------------------------------
(* What the documentation says and the code does not do.                     *)

(* MissionUpdate.msg:5: item_id is the "ID of the item to be executed".  The    *)
(* stack points to the item, and the thread then takes the one after it.      *)
StartsAtTheItem ==
    [][\A m \in Missions : \A idx \in 0..Len(Plan[m]) - 1 :
          START(m, idx) /\ thread = "ended" /\ thread' = "loop"
              => next_item(length', stack').done = idx]_vars
=============================================================================
