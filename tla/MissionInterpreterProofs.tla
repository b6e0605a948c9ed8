----------------------- MODULE MissionInterpreterProofs -----------------------
(* MissionInterpreter for any behaviors, shared or not, and any missions: the   *)
(* goals of a mission are in hand, and a stop is over when its command is.     *)
EXTENDS MissionInterpreter, CoreProofs, SequenceTheorems

(* What is left of a command.  A command that may have raised the flag of the  *)
(* stop still has its join before it.                                        *)
Stopping == {<<"stop", "reset", "join">>, <<"reset", "join">>, <<"join">>,
             <<"reset", "join", "start">>, <<"join", "start">>}
Left == Stopping \cup {<<>>, <<"pause">>, <<"resume">>, <<"next">>, <<"start">>}

CommandIsUnderWay ==
    /\ todo \in Left
    /\ at = "free" => todo = <<>>
    /\ at \notin {"free", "dead"} => todo # <<>> /\ mid # None
    /\ at \in {"holding", "asking", "calling", "answered"} => Head(todo) \in Operations
    /\ at \in {"asking", "calling", "answered"} => handler # None
    /\ at = "joined" => Head(todo) = "join" /\ ~exec_thread
    /\ stopped => todo \in Stopping

(* The thread of a mission that is being performed, its item and its goal.    *)
ThreadIsKnown ==
    /\ exec_thread <=> thread # "ended"
    /\ exec_thread => current_mid # None
    /\ ~exec_thread => current_behavior = None
    /\ thread \in {"taken", "sending", "accepted", "waiting"} => stack.current
    /\ thread \in {"sending", "accepted", "waiting"} => current_behavior = item
    /\ \A b \in Behaviors : session[b].goal = "mission" =>
           thread \in {"accepted", "waiting"} /\ item = b

IInv == TypeOK /\ CommandIsUnderWay /\ ThreadIsKnown

LEMMA Lengths ==
    ASSUME TypeOK
    PROVE  length \in Nat /\ (current_mid = None => length = 0)
           /\ (current_mid # None => length = Len(Plan[current_mid]))
           /\ \A m \in Missions : Plan[m] \in Seq(Behaviors) /\ Len(Plan[m]) \in Nat
  BY PlanAssumption, NoneAssumption DEF length, TypeOK

(* The stack's operations keep it one of the plan.                           *)
LEMMA StackSteps ==
    ASSUME NEW n \in Nat, NEW s \in Stacks(n), NEW idx \in Nat
    PROVE  /\ next_item(n, s) \in Stacks(n)
           /\ pending(n, s) > 0 => next_item(n, s).current
           /\ point_to_item(n, s, idx) \in Stacks(n)
           /\ Fresh \in Stacks(n)
           /\ s.current => s.done + 1 \in 1..n
  <1> USE DEF Stacks, taken, pending
  <1>1. s.done \in 0..n /\ s.current \in BOOLEAN /\ (s.current => s.done < n)
    OBVIOUS
  <1>2. taken(s) \in 0..n
    BY <1>1
  <1>3. next_item(n, s) \in Stacks(n) /\ (pending(n, s) > 0 => next_item(n, s).current)
    <2> DEFINE t == taken(s)
               more == pending(n, s) > 0
    <2>1. t \in 0..n /\ more \in BOOLEAN /\ (more => t < n)
      BY <1>2
    <2>2. next_item(n, s) = [done |-> t, current |-> more]
      BY DEF next_item
    <2> HIDE DEF t, more
    <2>3. [done |-> t, current |-> more] \in Stacks(n)
      BY <2>1
    <2> QED
      BY <2>2, <2>3 DEF more
  <1>4. point_to_item(n, s, idx) \in Stacks(n)
    BY <1>1, <1>2 DEF point_to_item
  <1>5. Fresh \in Stacks(n)
    BY DEF Fresh
  <1> QED
    BY <1>1, <1>3, <1>4, <1>5

LEMMA StackOfNothing ==
    ASSUME NEW s \in Stacks(0), NEW n \in Nat
    PROVE  s \in Stacks(n)
  BY DEF Stacks

(* What is left after the first phase of what is left of a command.          *)
LEMMA LeftSteps ==
    ASSUME NEW r \in Left, r # <<>>
    PROVE  /\ Tail(r) \in Left
           /\ r \in Seq(Phases) /\ Tail(r) \in Seq(Phases)
           /\ Tail(r) = <<>> <=> Len(r) = 1
           /\ Head(r) \in Phases
           /\ r \in Stopping /\ Head(r) # "join" => Tail(r) \in Stopping
           /\ Head(r) \in {"stop", "reset"} => r \in Stopping
  <1> USE DEF Left, Stopping, Phases
  <1>1. CASE r \in {<<"pause">>, <<"resume">>, <<"next">>, <<"start">>, <<"join">>}
    <2>a. PICK p \in Phases : r = <<p>>
      BY <1>1
    <2>1. r \in Seq(Phases) /\ Len(r) = 1 /\ Head(r) = p
      BY <2>a
    <2>2. Tail(r) \in Seq(Phases) /\ Len(Tail(r)) = 0
      BY <2>1, HeadTailProperties
    <2>3. Tail(r) = <<>>
      BY <2>2, EmptySeq
    <2> QED
      BY <1>1, <2>1, <2>3
  <1>2. CASE r = <<"stop", "reset", "join">>
    <2>1. Tail(r) = <<"reset", "join">>
      BY <1>2
    <2> QED
      BY <1>2, <2>1
  <1>3. CASE r = <<"reset", "join">>
    <2>1. Tail(r) = <<"join">>
      BY <1>3
    <2> QED
      BY <1>3, <2>1
  <1>4. CASE r = <<"reset", "join", "start">>
    <2>1. Tail(r) = <<"join", "start">>
      BY <1>4
    <2> QED
      BY <1>4, <2>1
  <1>5. CASE r = <<"join", "start">>
    <2>1. Tail(r) = <<"start">>
      BY <1>5
    <2> QED
      BY <1>5, <2>1
  <1> QED
    BY <1>1, <1>2, <1>3, <1>4, <1>5

(* A command that begins. *)
LEMMA CommandsAreLeft == Commands \subseteq Left /\ <<>> \notin Commands \cup Stopping
  BY DEF Commands, Left, Stopping

LEMMA PhaseSteps ==
    ASSUME IInv, at \notin {"free", "dead"}, phaseOver
    PROVE  /\ todo' \in Left /\ todo' \in Seq(Phases) /\ mid' = mid
           /\ at' \in {"dead", "free", "next"}
           /\ at' = "free" => todo' = <<>>
           /\ at' = "next" => todo' # <<>>
           /\ todo \in Stopping /\ Head(todo) # "join" => todo' \in Stopping
  BY LeftSteps DEF IInv, CommandIsUnderWay, phaseOver

-----------------------------------------------------------------------------
LEMMA InitIInv == Init => IInv
  <1> SUFFICES ASSUME Init PROVE IInv
    OBVIOUS
  <1> USE NoneAssumption DEF Init
  <1>1. TypeOK
    <2>1. length = 0
      BY DEF length
    <2>2. stack \in Stacks(length)
      BY <2>1 DEF Stacks, Fresh
    <2>3. session \in [Behaviors -> Sessions(Clients)]
      BY DEF Sessions, Idle
    <2>4. todo \in Seq(Phases)
      OBVIOUS
    <2>5. /\ status \in [Behaviors -> {"IDLE", "RUNNING", "PAUSED"}]
          /\ news \in [Behaviors -> {"IDLE", "RUNNING", "PAUSED", None}]
      OBVIOUS
    <2> HIDE DEF Init
    <2> QED
      BY <2>2, <2>3, <2>4, <2>5 DEF TypeOK, Init
  <1>2. CommandIsUnderWay
    BY DEF CommandIsUnderWay, Left
  <1>3. ThreadIsKnown
    BY DEF ThreadIsKnown, Idle
  <1> QED
    BY <1>1, <1>2, <1>3 DEF IInv

-----------------------------------------------------------------------------
(* The thread of a mission.  It moves the stack and the current behavior, and *)
(* the command that is under way does not depend on them.                    *)

LEMMA CommandKept ==
    ASSUME IInv, UNCHANGED <<adapterVars, stopped>>, at = "joined" => exec_thread' = exec_thread
    PROVE  CommandIsUnderWay'
  BY DEF IInv, CommandIsUnderWay, adapterVars

(* The behavior of the current item. *)
LEMMA ItemIsABehavior ==
    ASSUME TypeOK, current_mid # None, stack.current
    PROVE  item \in Behaviors
  BY Lengths, StackSteps DEF TypeOK, item, Stacks

LEMMA ThreadStepKeeps ==
    ASSUME IInv, PerformMission
    PROVE  IInv'
  <1> USE DEF interpreterVars, handlerVars
  <1>1. length' = length /\ item' = Plan[current_mid][stack'.done + 1]
    BY DEF PerformMission, take, leave, setCurrent, accept, reject, start, wait_to_result,
       forget, length, item
  <1>2. next_item(length, stack) \in Stacks(length)
        /\ (pending(length, stack) > 0 => next_item(length, stack).current)
    BY Lengths, StackSteps DEF IInv, TypeOK
  <1>3. UNCHANGED <<adapterVars, stopped>>
    BY DEF PerformMission, take, leave, setCurrent, accept, reject, start, wait_to_result, forget
  <1>4. exec_thread' = exec_thread \/ (forget /\ at # "joined")
    BY DEF IInv, ThreadIsKnown, CommandIsUnderWay, PerformMission, take, leave, setCurrent,
       accept, reject, start, wait_to_result, forget
  <1>5. CommandIsUnderWay'
    BY <1>3, <1>4, CommandKept
  <1>6. CASE take
    BY <1>1, <1>2, <1>5, <1>6 DEF take, IInv, TypeOK, ThreadIsKnown, adapterVars
  <1>7. CASE leave
    BY <1>1, <1>2, <1>5, <1>7 DEF leave, IInv, TypeOK, ThreadIsKnown, adapterVars
  <1>8. CASE setCurrent
    <2>1. item \in Behaviors /\ item' = item
      BY <1>8, ItemIsABehavior DEF setCurrent, item, IInv, ThreadIsKnown
    <2> QED
      BY <1>1, <1>5, <1>8, <2>1 DEF setCurrent, IInv, TypeOK, ThreadIsKnown, adapterVars
  <1>9. CASE accept
    <2>1. item \in Behaviors /\ item' = item
      BY <1>9, ItemIsABehavior DEF accept, item, IInv, ThreadIsKnown
    <2>2. session' \in [Behaviors -> Sessions(Clients)]
      BY <1>9, <2>1, NoneAssumption DEF accept, Accepted, Sessions, Clients, IInv, TypeOK
    <2>3. \A b \in Behaviors : session'[b].goal = "mission" => b = item
      BY <1>9, <2>1 DEF accept, IInv, TypeOK, ThreadIsKnown
    <2> QED
      BY <1>1, <1>5, <1>9, <2>1, <2>2, <2>3 DEF accept, IInv, TypeOK, ThreadIsKnown, adapterVars
  <1>10. CASE reject
    BY <1>1, <1>2, <1>5, <1>10 DEF reject, IInv, TypeOK, ThreadIsKnown, adapterVars
  <1>11. CASE start
    <2>1. item' = item
      BY <1>11 DEF start, item
    <2> QED
      BY <1>1, <1>5, <1>11, <2>1 DEF start, IInv, TypeOK, ThreadIsKnown, adapterVars
  <1>12. CASE wait_to_result
    <2>1. item' = item
      BY <1>12 DEF wait_to_result, item
    <2> QED
      BY <1>1, <1>5, <1>12, <2>1 DEF wait_to_result, IInv, TypeOK, ThreadIsKnown, adapterVars
  <1>13. CASE forget
    BY <1>1, <1>5, <1>13 DEF forget, IInv, TypeOK, ThreadIsKnown, adapterVars
  <1> QED
    BY <1>6, <1>7, <1>8, <1>9, <1>10, <1>11, <1>12, <1>13 DEF PerformMission

-----------------------------------------------------------------------------
(* The commands that start a mission.  No thread performs one then.           *)
LEMMA StartMissionKeeps ==
    ASSUME IInv, NEW m \in Missions, NEW idx \in Nat, start_mission(m, idx),
           UNCHANGED <<handlerVars, session>>
    PROVE  /\ ThreadIsKnown' /\ stopped' = stopped
           /\ missions' = missions /\ current_mid' \in missions \cup {None}
           /\ stack' \in Stacks(length')
           /\ exec_thread' \in BOOLEAN /\ current_behavior' = current_behavior
           /\ thread' \in {thread, "loop"}
  <1> DEFINE current == IF m \in missions THEN m ELSE current_mid
             from == IF current = current_mid THEN stack ELSE Fresh
  <1>1. CASE exec_thread \/ current = None
    <2>1. UNCHANGED <<interpreterVars, thread>> /\ length' = length /\ item' = item
      BY <1>1 DEF start_mission, interpreterVars, length, item
    <2> QED
      BY <2>1 DEF interpreterVars, IInv, TypeOK, ThreadIsKnown
  <1>2. CASE ~(exec_thread \/ current = None)
    <2>1. /\ current_mid' = current
          /\ stack' = point_to_item(Len(Plan[current]), from, idx)
          /\ exec_thread' = TRUE /\ thread' = "loop"
          /\ UNCHANGED <<missions, current_behavior, stopped>>
      BY <1>2 DEF start_mission
    <2>2. current \in missions /\ missions \subseteq Missions /\ current # None
      BY <1>2 DEF IInv, TypeOK
    <2>3. Len(Plan[current]) \in Nat /\ length' = Len(Plan[current])
      BY <2>1, <2>2, PlanAssumption DEF length
    <2>4. from \in Stacks(Len(Plan[current]))
      BY <2>2, <2>3, StackSteps, Lengths DEF IInv, TypeOK, Stacks, Fresh
    <2>5. stack' \in Stacks(length')
      BY <2>1, <2>3, <2>4, StackSteps
    <2>6. thread = "ended" /\ session' = session
      BY <1>2 DEF IInv, ThreadIsKnown
    <2>7. ThreadIsKnown'
      BY <2>1, <2>2, <2>6 DEF IInv, ThreadIsKnown
    <2> HIDE DEF current, from
    <2> QED
      BY <2>1, <2>2, <2>5, <2>7
  <1> QED
    BY <1>1, <1>2

LEMMA LoadKeeps ==
    ASSUME IInv, NEW m \in Missions, LOAD(m)
    PROVE  IInv'
  <1> USE DEF handlerVars, adapterVars
  <1>1. CASE current_mid = None
    <2>1. thread = "ended" /\ thread' = "ended" /\ ~stack.current /\ current_mid' = m
      BY <1>1, Lengths DEF LOAD, loaded, IInv, ThreadIsKnown, TypeOK, Stacks
    <2>2. length' = Len(Plan[m]) /\ stack \in Stacks(0)
      BY <1>1, <2>1, NoneAssumption, Lengths DEF length, IInv, TypeOK
    <2>3. stack' \in Stacks(length')
      BY <2>2, StackOfNothing, Lengths DEF LOAD, IInv
    <2> QED
      BY <2>1, <2>3 DEF LOAD, loaded, IInv, TypeOK, ThreadIsKnown, CommandIsUnderWay
  <1>2. CASE current_mid # None
    <2>1. length' = length /\ item' = item /\ current_mid' = current_mid
      BY <1>2 DEF LOAD, loaded, length, item
    <2> QED
      BY <2>1 DEF LOAD, loaded, IInv, TypeOK, ThreadIsKnown, CommandIsUnderWay
  <1> QED
    BY <1>1, <1>2

LEMMA StartKeeps ==
    ASSUME IInv, NEW m \in Missions, NEW idx \in Nat, START(m, idx)
    PROVE  IInv'
  <1>1. UNCHANGED <<adapterVars, handlerVars, session>> /\ start_mission(m, idx) /\ at = "free"
    BY DEF START
  <1>2. CommandIsUnderWay'
    BY <1>1, StartMissionKeeps DEF IInv, CommandIsUnderWay, adapterVars
  <1> QED
    BY <1>1, <1>2, StartMissionKeeps DEF IInv, TypeOK, adapterVars, handlerVars

-----------------------------------------------------------------------------
(* The other commands, phase by phase.  All but the last two leave the        *)
(* interpreter to its thread.                                                *)

LEMMA ThreadKept ==
    ASSUME IInv, UNCHANGED <<missions, current_mid, stack, exec_thread, current_behavior,
                             thread, session>>
    PROVE  ThreadIsKnown' /\ length' = length
  BY DEF IInv, ThreadIsKnown, item, length

LEMMA UpdateKeeps ==
    ASSUME IInv, NEW m \in Missions, NEW command \in Commands, mission_update_callback(command, m)
    PROVE  IInv'
  <1> USE DEF interpreterVars, handlerVars, mission_update_callback
  <1>1. command \in Left /\ command # <<>> /\ command \in Seq(Phases)
    BY CommandsAreLeft, LeftSteps
  <1>2. m # None
    BY NoneAssumption
  <1>3. CommandIsUnderWay'
    BY <1>1, <1>2, CommandsAreLeft DEF IInv, CommandIsUnderWay
  <1> QED
    BY <1>1, <1>3, ThreadKept DEF IInv, TypeOK

LEMMA OperateKeeps ==
    ASSUME IInv, operate
    PROVE  IInv'
  <1> USE DEF handlerVars, operate
  <1>1. CASE at' = "holding"
    <2>1. /\ UNCHANGED <<todo, mid, success>>
          /\ stopped' = (stopped \/ Head(todo) \in {"stop", "reset"})
      BY <1>1 DEF phaseOver
    <2>2. CommandIsUnderWay'
      BY <1>1, <2>1, LeftSteps DEF IInv, CommandIsUnderWay
    <2> QED
      BY <1>1, <2>1, <2>2, ThreadKept DEF IInv, TypeOK
  <1>2. CASE at' # "holding"
    <2>1. phaseOver /\ UNCHANGED <<stopped, success>>
      BY <1>2
    <2>2. CommandIsUnderWay'
      BY <2>1, PhaseSteps DEF IInv, CommandIsUnderWay, Operations
    <2> QED
      BY <2>1, <2>2, PhaseSteps, ThreadKept DEF IInv, TypeOK
  <1> QED
    BY <1>1, <1>2

LEMMA CallBehaviorKeeps ==
    ASSUME IInv, callBehavior
    PROVE  IInv'
  <1> USE DEF interpreterVars, handlerVars, callBehavior
  <1>1. CommandIsUnderWay'
    BY DEF IInv, CommandIsUnderWay
  <1> QED
    BY <1>1, ThreadKept DEF IInv, TypeOK

LEMMA AskKeeps ==
    ASSUME IInv, ask
    PROVE  IInv'
  <1> USE DEF interpreterVars, handlerVars, ask
  <1>1. CASE at' = "calling"
    <2>1. UNCHANGED <<todo, mid, handler>>
      BY <1>1 DEF phaseOver
    <2>2. CommandIsUnderWay'
      BY <1>1, <2>1 DEF IInv, CommandIsUnderWay
    <2> QED
      BY <1>1, <2>1, <2>2, ThreadKept DEF IInv, TypeOK
  <1>2. CASE at' # "calling"
    <2>1. phaseOver /\ handler' = None
      BY <1>2
    <2>2. CommandIsUnderWay'
      BY <2>1, PhaseSteps DEF IInv, CommandIsUnderWay, Operations
    <2> QED
      BY <2>1, <2>2, PhaseSteps, ThreadKept DEF IInv, TypeOK
  <1> QED
    BY <1>1, <1>2

(* A behavior that changes without a new goal of the mission. *)
LEMMA SessionStep ==
    ASSUME IInv, NEW b \in Behaviors, NEW s \in Sessions(Clients),
           s.goal \in {session[b].goal, None, "other"}, session' = [session EXCEPT ![b] = s],
           UNCHANGED <<missions, current_mid, stack, exec_thread, current_behavior, thread>>
    PROVE  /\ session' \in [Behaviors -> Sessions(Clients)]
           /\ ThreadIsKnown' /\ length' = length
  <1>1. session' \in [Behaviors -> Sessions(Clients)]
    BY DEF IInv, TypeOK
  <1>2. \A c \in Behaviors : session'[c].goal = "mission" => session[c].goal = "mission"
    BY NoneAssumption DEF IInv, TypeOK
  <1> QED
    BY <1>1, <1>2 DEF IInv, ThreadIsKnown, item, length

LEMMA SessionSteps2 ==
    ASSUME NEW s \in Sessions(Clients)
    PROVE  /\ Idle \in Sessions(Clients) /\ Idle.goal = None
           /\ Accepted("other") \in Sessions(Clients) /\ Accepted("other").goal = "other"
           /\ s.goal # None => Paused(s) \in Sessions(Clients) /\ Paused(s).goal = s.goal
           /\ s.goal # None => Resumed(s) \in Sessions(Clients) /\ Resumed(s).goal = s.goal
           /\ s.status # "IDLE" => s.goal # None
  BY NoneAssumption DEF Sessions, Clients, Idle, Accepted, Paused, Resumed

LEMMA ServeKeeps ==
    ASSUME IInv, NEW yes \in BOOLEAN, serve(yes)
    PROVE  IInv'
  <1> USE DEF interpreterVars, handlerVars
  <1> DEFINE s == session[handler]
  <1>1. /\ handler \in Behaviors /\ s \in Sessions(Clients) /\ Head(todo) \in Operations
        /\ at = "calling" /\ at' = "answered" /\ success' = yes
        /\ UNCHANGED <<interpreterVars, thread, todo, mid, handler, handlerVars>>
    BY DEF serve, IInv, TypeOK, CommandIsUnderWay
  <1>2. CommandIsUnderWay'
    BY <1>1 DEF IInv, CommandIsUnderWay
  <1>3. session' = session \/ \E t \in {Idle, Paused(s), Resumed(s)} :
            /\ session' = [session EXCEPT ![handler] = t]
            /\ t # Idle => s.status # "IDLE"
    BY DEF serve
  <1>4. /\ session' \in [Behaviors -> Sessions(Clients)]
        /\ ThreadIsKnown' /\ length' = length
    <2>1. CASE session' = session
      BY <1>1, <2>1, ThreadKept DEF IInv, TypeOK
    <2>2. ASSUME NEW t \in {Idle, Paused(s), Resumed(s)},
                 session' = [session EXCEPT ![handler] = t], t # Idle => s.status # "IDLE"
          PROVE  /\ session' \in [Behaviors -> Sessions(Clients)]
                 /\ ThreadIsKnown' /\ length' = length
      <3>1. t \in Sessions(Clients) /\ t.goal \in {s.goal, None, "other"}
        BY <1>1, <2>2, SessionSteps2
      <3> QED
        BY <1>1, <2>2, <3>1, SessionStep
    <2> QED
      BY <1>3, <2>1, <2>2
  <1> QED
    BY <1>1, <1>2, <1>4 DEF IInv, TypeOK

LEMMA AnsweredKeeps ==
    ASSUME IInv, answered
    PROVE  IInv'
  <1> USE DEF interpreterVars, answered
  <1>1. CommandIsUnderWay'
    BY PhaseSteps DEF IInv, CommandIsUnderWay, Operations
  <1>2. status' \in [Behaviors -> {"IDLE", "RUNNING", "PAUSED"}]
    BY DEF IInv, TypeOK
  <1> QED
    BY <1>1, <1>2, PhaseSteps, ThreadKept DEF IInv, TypeOK

LEMMA JoinKeeps ==
    ASSUME IInv, join
    PROVE  IInv'
  <1> USE DEF interpreterVars, handlerVars, join
  <1>1. ~exec_thread
    BY DEF IInv, ThreadIsKnown
  <1>2. CommandIsUnderWay'
    BY <1>1 DEF IInv, CommandIsUnderWay
  <1> QED
    BY <1>2, ThreadKept DEF IInv, TypeOK

(* The thread has ended, and with it its goal. *)
LEMMA ResetKeeps ==
    ASSUME IInv, reset
    PROVE  IInv'
  <1> USE DEF handlerVars, reset
  <1>1. thread = "ended" /\ mid \in Missions /\ mid # None
    BY NoneAssumption DEF IInv, TypeOK, CommandIsUnderWay, ThreadIsKnown
  <1>2. CommandIsUnderWay'
    BY PhaseSteps DEF IInv, CommandIsUnderWay
  <1>3. stack' \in Stacks(length')
    <2>1. length' = Len(Plan[mid])
      BY <1>1 DEF length
    <2> QED
      BY <1>1, <2>1, PlanAssumption DEF Stacks, Fresh
  <1>4. ThreadIsKnown'
    BY <1>1 DEF IInv, ThreadIsKnown, item
  <1> QED
    BY <1>1, <1>2, <1>3, <1>4, PhaseSteps DEF IInv, TypeOK

LEMMA ExecuteKeeps ==
    ASSUME IInv, execute
    PROVE  IInv'
  <1>1. mid \in Missions
    BY DEF execute, IInv, TypeOK, CommandIsUnderWay
  <1>2. /\ ThreadIsKnown' /\ stopped' = stopped
        /\ missions' = missions /\ current_mid' \in missions \cup {None}
        /\ stack' \in Stacks(length')
        /\ exec_thread' \in BOOLEAN /\ current_behavior' = current_behavior
        /\ thread' \in {thread, "loop"}
    BY <1>1, StartMissionKeeps DEF execute
  <1>3. CommandIsUnderWay'
    BY <1>2, PhaseSteps DEF execute, IInv, CommandIsUnderWay
  <1> QED
    BY <1>2, <1>3, PhaseSteps DEF execute, handlerVars, IInv, TypeOK

-----------------------------------------------------------------------------
(* The behaviors and their status.                                           *)
LEMMA BehaviorsKeep ==
    ASSUME IInv, NEW b \in Behaviors,
           publish_behavior_status(b) \/ status_callback(b) \/ finish(b) \/ elsewhere(b)
    PROVE  IInv'
  <1> USE DEF interpreterVars, adapterVars, handlerVars
  <1>1. UNCHANGED <<interpreterVars, thread, adapterVars>>
    BY DEF publish_behavior_status, status_callback, finish, elsewhere
  <1>2. CommandIsUnderWay'
    BY <1>1 DEF IInv, CommandIsUnderWay
  <1>3. CASE publish_behavior_status(b) \/ status_callback(b)
    <2>1. session[b].status \in {"IDLE", "RUNNING", "PAUSED"}
      BY DEF IInv, TypeOK, Sessions
    <2> QED
      BY <1>1, <1>2, <1>3, <2>1, ThreadKept
         DEF publish_behavior_status, status_callback, IInv, TypeOK
  <1>4. CASE finish(b) \/ elsewhere(b)
    <2>1. PICK s \in {Idle} \cup SessionSteps({"other"}, session[b]) :
              session' = [session EXCEPT ![b] = s]
      BY <1>4 DEF finish, elsewhere
    <2>2. session[b] \in Sessions(Clients)
      BY DEF IInv, TypeOK
    <2>3. s \in Sessions(Clients) /\ s.goal \in {session[b].goal, None, "other"}
      BY <2>2, SessionSteps2 DEF SessionSteps
    <2>4. /\ session' \in [Behaviors -> Sessions(Clients)]
          /\ ThreadIsKnown' /\ length' = length
      BY <1>1, <2>1, <2>3, SessionStep
    <2> QED
      BY <1>1, <1>2, <1>4, <2>4 DEF finish, elsewhere, IInv, TypeOK
  <1> QED
    BY <1>3, <1>4

LEMMA NextIInv == IInv /\ [Next]_vars => IInv'
  <1> SUFFICES ASSUME IInv, [Next]_vars PROVE IInv'
    OBVIOUS
  <1>1. CASE PerformMission
    BY <1>1, ThreadStepKeeps
  <1>2. ASSUME NEW m \in Missions, LOAD(m)
        PROVE  IInv'
    BY <1>2, LoadKeeps
  <1>3. ASSUME NEW m \in Missions, NEW idx \in 0..Len(Plan[m]), START(m, idx)
        PROVE  IInv'
    BY <1>3, StartKeeps, PlanAssumption
  <1>4. ASSUME NEW m \in Missions, NEW command \in Commands, mission_update_callback(command, m)
        PROVE  IInv'
    BY <1>4, UpdateKeeps
  <1>5. CASE Adapter
    BY <1>5, OperateKeeps, CallBehaviorKeeps, AskKeeps, ServeKeeps, AnsweredKeeps, JoinKeeps,
       ResetKeeps, ExecuteKeeps DEF Adapter
  <1>6. ASSUME NEW b \in Behaviors,
               publish_behavior_status(b) \/ status_callback(b) \/ finish(b) \/ elsewhere(b)
        PROVE  IInv'
    BY <1>6, BehaviorsKeep
  <1>7. CASE UNCHANGED vars
    <2>1. UNCHANGED <<missions, current_mid, stack, exec_thread, current_behavior, thread, session>>
      BY <1>7 DEF vars, interpreterVars
    <2>2. CommandIsUnderWay'
      BY <1>7 DEF vars, interpreterVars, adapterVars, IInv, CommandIsUnderWay
    <2> QED
      BY <1>7, <2>1, <2>2, ThreadKept
         DEF vars, interpreterVars, adapterVars, handlerVars, IInv, TypeOK
  <1> QED
    BY <1>1, <1>2, <1>3, <1>4, <1>5, <1>6, <1>7, SharedAssumption DEF Next

-----------------------------------------------------------------------------
(* The variables keep their types: the stack is always one of the current plan. *)
THEOREM TypeCorrect == Spec => []TypeOK
  <1>1. IInv => TypeOK
    BY DEF IInv
  <1> QED
    BY <1>1, InitIInv, NextIInv, PTL DEF Spec

(* No goal of a mission is executing unknown to the interpreter.              *)
THEOREM InHandTheorem == Spec => []GoalsAreInHand
  <1>1. IInv => GoalsAreInHand
    BY DEF IInv, ThreadIsKnown, GoalsAreInHand
  <1> QED
    BY <1>1, InitIInv, NextIInv, PTL DEF Spec

(* The flag of a stop is down before the next command.                        *)
THEOREM StopTheorem == Spec => []StopIsOver
  <1>1. IInv => StopIsOver
    BY CommandsAreLeft DEF IInv, CommandIsUnderWay, StopIsOver
  <1> QED
    BY <1>1, InitIInv, NextIInv, PTL DEF Spec
-----------------------------------------------------------------------------
(* What the mission, the adapter and the others do to a behavior is what a     *)
(* BehaviorSession allows, which BehaviorServer implements.                  *)
SessionsMove ==
    [][\A b \in Behaviors :
          session'[b] # session[b] => session'[b] \in SessionSteps(Clients, session[b])]_vars

(* What anybody does to a behavior, it may do: goals sent, pauses, resumptions  *)
(* and stops by the handlers and by others (BehaviorHandler, process_goal).   *)
THEOREM SessionsTheorem == Spec => SessionsMove
  <1> DEFINE Move(b) == session'[b] # session[b] => session'[b] \in SessionSteps(Clients, session[b])
  <1>1. ASSUME IInv, [Next]_vars, NEW b \in Behaviors
        PROVE  Move(b)
    <2>0. session \in [Behaviors -> Sessions(Clients)]
      BY <1>1 DEF IInv, TypeOK
    <2>1. CASE accept
      BY <1>1, <2>0, <2>1 DEF accept, SessionSteps, Clients
    <2>2. ASSUME NEW yes \in BOOLEAN, serve(yes)
          PROVE  Move(b)
      <3>1. session' = session \/ \E t \in {Idle, Paused(session[handler]), Resumed(session[handler])} :
                /\ session' = [session EXCEPT ![handler] = t]
                /\ t # Idle => session[handler].status # "IDLE"
        BY <2>2 DEF serve
      <3>2. handler \in Behaviors
        BY <1>1, <2>2 DEF serve, IInv, CommandIsUnderWay, TypeOK
      <3>3. session[handler].goal = None => session[handler] = Idle
        BY <2>0, <3>2 DEF Sessions, Idle
      <3>4. session[handler].status # "IDLE" => session[handler].goal # None
        BY <2>0, <3>2 DEF Sessions
      <3> QED
        BY <2>0, <3>1, <3>2, <3>3, <3>4 DEF SessionSteps
    <2>3. ASSUME NEW c \in Behaviors, finish(c)
          PROVE  Move(b)
      <3>1. session[c].goal # None
        BY <2>0, <2>3 DEF finish, Sessions
      <3> QED
        BY <2>0, <2>3, <3>1 DEF finish, SessionSteps
    <2>4. ASSUME NEW c \in Shared, elsewhere(c)
          PROVE  Move(b)
      <3>1. SessionSteps({"other"}, session[c]) \subseteq SessionSteps(Clients, session[c])
        BY DEF SessionSteps, Clients
      <3>2. c \in Behaviors
        BY SharedAssumption
      <3> QED
        BY <2>0, <2>4, <3>1, <3>2 DEF elsewhere
    <2>5. CASE PerformMission /\ ~accept
      <3>1. session' = session
        BY <2>5 DEF PerformMission, take, leave, setCurrent, reject, start, wait_to_result, forget
      <3> QED
        BY <3>1
    <2>6. CASE Adapter /\ ~(\E yes \in BOOLEAN : serve(yes))
      <3>1. session' = session
        BY <2>6 DEF Adapter, operate, callBehavior, ask, answered, join, reset, execute
      <3> QED
        BY <3>1
    <2>7. ASSUME NEW m \in Missions,
                 \/ LOAD(m) \/ \E idx \in 0..Len(Plan[m]) : START(m, idx)
                 \/ \E command \in Commands : mission_update_callback(command, m)
          PROVE  session' = session
      BY <2>7 DEF LOAD, START, mission_update_callback
    <2>8. ASSUME NEW c \in Behaviors, publish_behavior_status(c) \/ status_callback(c)
          PROVE  session' = session
      BY <2>8 DEF publish_behavior_status, status_callback
    <2>9. UNCHANGED vars => session' = session
      BY DEF vars
    <2> QED
      BY <1>1, <2>1, <2>2, <2>3, <2>4, <2>5, <2>6, <2>7, <2>8, <2>9 DEF Next
  <1>2. IInv /\ [Next]_vars => [\A b \in Behaviors : Move(b)]_vars
    BY <1>1
  <1> QED
    BY <1>2, InitIInv, NextIInv, PTL DEF Spec, SessionsMove

(* While a mission is performed its items are taken in the order of the plan,  *)
(* one at a time, whatever is commanded meanwhile: none is performed twice,    *)
(* and none is passed over but the one that is current when the mission ends. *)
ItemsGoForward ==
    [][exec_thread /\ exec_thread' =>
          /\ current_mid' = current_mid
          /\ taken(stack') \in taken(stack)..(taken(stack) + 1)
          /\ taken(stack') # taken(stack) => thread' \in {"taken", "leaving"}]_vars

(* Where the thread of a mission is, from the end of an item backwards. *)
ThreadRank(where) ==
    IF where = "taken" THEN 6 ELSE IF where = "sending" THEN 5
    ELSE IF where = "accepted" THEN 4 ELSE IF where = "waiting" THEN 3
    ELSE IF where = "loop" THEN 2 ELSE IF where = "leaving" THEN 1 ELSE 0

(* Why missions end: the thread takes an item less or is nearer to the end of   *)
(* the one it has, and nobody else takes it back while it runs.              *)
MissionsAdvance ==
    [][exec_thread =>
          IF PerformMission
          THEN \/ pending(length', stack') < pending(length, stack)
               \/ /\ pending(length', stack') = pending(length, stack)
                  /\ ThreadRank(thread') < ThreadRank(thread)
          ELSE UNCHANGED <<exec_thread, thread, stack, current_mid>>]_vars

(* An item is taken if there is one. *)
LEMMA TakenSteps ==
    ASSUME NEW n \in Nat, NEW s \in Stacks(n)
    PROVE  /\ taken(s) \in 0..n /\ pending(n, s) \in 0..n
           /\ pending(n, s) > 0 => /\ taken(next_item(n, s)) = taken(s) + 1
                                   /\ pending(n, next_item(n, s)) < pending(n, s)
           /\ ~(pending(n, s) > 0) => /\ taken(next_item(n, s)) = taken(s)
                                      /\ pending(n, next_item(n, s)) = pending(n, s)
  <1>1. s.done \in 0..n /\ s.current \in BOOLEAN /\ (s.current => s.done < n)
    BY DEF Stacks
  <1>2. taken(s) \in 0..n
    BY <1>1 DEF taken
  <1>3. pending(n, s) = n - taken(s) /\ pending(n, s) \in 0..n
    BY <1>2 DEF pending
  <1>4. /\ next_item(n, s).done = taken(s)
        /\ next_item(n, s).current = (pending(n, s) > 0)
    BY DEF next_item
  <1>5. taken(next_item(n, s)) = IF pending(n, s) > 0 THEN taken(s) + 1 ELSE taken(s)
    <2>1. taken(next_item(n, s)) =
              next_item(n, s).done + (IF next_item(n, s).current THEN 1 ELSE 0)
      BY DEF taken
    <2>2. CASE pending(n, s) > 0
      <3>1. next_item(n, s).current = TRUE
        BY <1>4, <2>2
      <3> QED
        BY <1>4, <2>1, <2>2, <3>1
    <2>3. CASE ~(pending(n, s) > 0)
      <3>1. ~next_item(n, s).current
        BY <2>3 DEF next_item
      <3>2. taken(next_item(n, s)) = taken(s) + 0
        BY <1>4, <2>1, <3>1
      <3>3. taken(s) \in Int
        BY <1>2
      <3> QED
        BY <2>3, <3>2, <3>3
    <2> QED
      BY <2>2, <2>3
  <1>6. pending(n, next_item(n, s)) = n - taken(next_item(n, s))
    BY DEF pending
  <1> QED
    BY <1>2, <1>3, <1>5, <1>6

(* While a mission is performed its thread alone moves it. *)
LEMMA OthersLeaveTheThread ==
    ASSUME IInv, [Next]_vars, exec_thread, ~PerformMission
    PROVE  UNCHANGED <<exec_thread, thread, stack, current_mid>>
  <1>1. current_mid # None /\ at # "joined"
    BY DEF IInv, ThreadIsKnown, CommandIsUnderWay
  <1>2. ASSUME NEW m, NEW idx, start_mission(m, idx)
        PROVE  UNCHANGED <<exec_thread, thread, stack, current_mid>>
    BY <1>2 DEF start_mission, interpreterVars
  <1>3. ASSUME NEW m \in Missions, LOAD(m)
        PROVE  UNCHANGED <<exec_thread, thread, stack, current_mid>>
    BY <1>1, <1>3 DEF LOAD, loaded
  <1>4. ASSUME NEW m \in Missions, NEW idx \in 0..Len(Plan[m]), START(m, idx)
        PROVE  UNCHANGED <<exec_thread, thread, stack, current_mid>>
    BY <1>2, <1>4 DEF START
  <1>5. ASSUME NEW m \in Missions, NEW command \in Commands, mission_update_callback(command, m)
        PROVE  UNCHANGED <<exec_thread, thread, stack, current_mid>>
    BY <1>5 DEF mission_update_callback, interpreterVars
  <1>6. CASE Adapter
    BY <1>1, <1>2, <1>6
       DEF Adapter, operate, callBehavior, ask, serve, answered, join, reset, execute, interpreterVars
  <1>7. ASSUME NEW b \in Behaviors,
               publish_behavior_status(b) \/ status_callback(b) \/ finish(b) \/ elsewhere(b)
        PROVE  UNCHANGED <<exec_thread, thread, stack, current_mid>>
    BY <1>7 DEF publish_behavior_status, status_callback, finish, elsewhere, interpreterVars
  <1>8. CASE UNCHANGED vars
    BY <1>8 DEF vars, interpreterVars
  <1> QED
    BY <1>3, <1>4, <1>5, <1>6, <1>7, <1>8, SharedAssumption DEF Next

(* What a step of the thread does to its mission. *)
LEMMA ThreadMoves ==
    ASSUME IInv, PerformMission
    PROVE  /\ length \in Nat /\ stack \in Stacks(length)
           /\ length' = length /\ current_mid' = current_mid
           /\ \/ stack' = stack /\ ThreadRank(thread') < ThreadRank(thread)
              \/ /\ stack' = next_item(length, stack)
                 /\ \/ ThreadRank(thread') < ThreadRank(thread) /\ thread' = "leaving"
                    \/ pending(length, stack) > 0 /\ thread' = "taken"
  <1>1. length \in Nat /\ stack \in Stacks(length)
    BY Lengths DEF IInv, TypeOK
  <1>2. current_mid' = current_mid /\ length' = length
    BY DEF PerformMission, take, leave, setCurrent, accept, reject, start, wait_to_result,
           forget, length, interpreterVars
  <1>3. CASE take
    BY <1>1, <1>2, <1>3 DEF take
  <1>4. CASE leave
    BY <1>1, <1>2, <1>4 DEF leave, ThreadRank
  <1>5. CASE setCurrent \/ accept \/ start \/ wait_to_result \/ forget
    BY <1>1, <1>2, <1>5 DEF setCurrent, accept, start, wait_to_result, forget, interpreterVars,
                            ThreadRank
  <1>6. CASE reject
    BY <1>1, <1>2, <1>6 DEF reject, ThreadRank
  <1> QED
    BY <1>3, <1>4, <1>5, <1>6 DEF PerformMission

(* No item is performed twice or out of turn (__perform_mission, next_item of   *)
(* mission_stack.py), for every plan and whatever is commanded.               *)
THEOREM ItemsTheorem == Spec => ItemsGoForward
  <1> DEFINE Forward ==
               exec_thread /\ exec_thread' =>
                  /\ current_mid' = current_mid
                  /\ taken(stack') \in taken(stack)..(taken(stack) + 1)
                  /\ taken(stack') # taken(stack) => thread' \in {"taken", "leaving"}
  <1>1. ASSUME IInv, [Next]_vars, exec_thread, exec_thread'
        PROVE  Forward
    <2>1. taken(stack) \in Nat
      BY <1>1, Lengths, TakenSteps DEF IInv, TypeOK
    <2>2. CASE PerformMission
      <3>1. CASE stack' = stack
        BY <1>1, <2>1, <2>2, <3>1, ThreadMoves
      <3>2. CASE stack' = next_item(length, stack) /\ thread' \in {"taken", "leaving"}
        <4>1. taken(stack') = taken(stack) \/ taken(stack') = taken(stack) + 1
          BY <1>1, <2>2, <3>2, ThreadMoves, TakenSteps
        <4> QED
          BY <1>1, <2>1, <2>2, <3>2, <4>1, ThreadMoves
      <3> QED
        BY <1>1, <2>2, <3>1, <3>2, ThreadMoves
    <2>3. CASE ~PerformMission
      BY <1>1, <2>1, <2>3, OthersLeaveTheThread
    <2> QED
      BY <2>2, <2>3
  <1>2. IInv /\ [Next]_vars => [Forward]_vars
    BY <1>1
  <1> QED
    BY <1>2, InitIInv, NextIInv, PTL DEF Spec, ItemsGoForward

(* The thread of a mission gets to its end as fast as its goals have results    *)
(* (__perform_mission): only wait_to_result can hold it up.                   *)
THEOREM MissionsTheorem == Spec => MissionsAdvance
  <1>1. ASSUME IInv, PerformMission
        PROVE  \/ pending(length', stack') < pending(length, stack)
               \/ /\ pending(length', stack') = pending(length, stack)
                  /\ ThreadRank(thread') < ThreadRank(thread)
    <2>1. CASE stack' = stack /\ ThreadRank(thread') < ThreadRank(thread)
      BY <1>1, <2>1, ThreadMoves
    <2>2. CASE /\ stack' = next_item(length, stack)
               /\ ThreadRank(thread') < ThreadRank(thread) \/ pending(length, stack) > 0
      <3>1. \/ pending(length, stack') < pending(length, stack)
            \/ /\ pending(length, stack') = pending(length, stack)
               /\ ~(pending(length, stack) > 0)
        BY <1>1, <2>2, ThreadMoves, TakenSteps
      <3> QED
        BY <1>1, <2>2, <3>1, ThreadMoves
    <2> QED
      BY <1>1, <2>1, <2>2, ThreadMoves
  <1>2. IInv /\ [Next]_vars =>
            [exec_thread =>
                IF PerformMission
                THEN \/ pending(length', stack') < pending(length, stack)
                     \/ /\ pending(length', stack') = pending(length, stack)
                        /\ ThreadRank(thread') < ThreadRank(thread)
                ELSE UNCHANGED <<exec_thread, thread, stack, current_mid>>]_vars
    BY <1>1, OthersLeaveTheThread
  <1> QED
    BY <1>2, InitIInv, NextIInv, PTL DEF Spec, MissionsAdvance

(* Where the adapter is in a phase of its command, from its end backwards. *)
AdapterRank(where) ==
    IF where = "next" THEN 4 ELSE IF where = "holding" THEN 3
    ELSE IF where = "asking" THEN 2 ELSE IF where = "calling" THEN 1 ELSE 0

(* Why commands return: the adapter is done with a phase, dies, or is nearer to  *)
(* the end of the one it is in, and nobody else touches its command.         *)
CommandsAdvance ==
    [][at # "free" =>
          IF Adapter
          THEN \/ Len(todo') < Len(todo)
               \/ at' = "dead"
               \/ todo' = todo /\ AdapterRank(at') < AdapterRank(at)
          ELSE UNCHANGED adapterVars]_vars

(* A command gets to its end phase by phase (mission_update_callback of        *)
(* adapter.py); only the join of a reset waits for anybody but a service.     *)
THEOREM CommandsTheorem == Spec => CommandsAdvance
  <1> DEFINE Closer == \/ Len(todo') < Len(todo)
                       \/ at' = "dead"
                       \/ todo' = todo /\ AdapterRank(at') < AdapterRank(at)
  <1>1. ASSUME IInv, at # "free", Adapter
        PROVE  Closer
    <2>1. at \notin {"free", "dead"}
      BY <1>1 DEF Adapter, operate, callBehavior, ask, serve, answered, join, reset, execute
    <2>2. todo \in Seq(Phases) /\ todo # <<>>
      BY <1>1, <2>1 DEF IInv, CommandIsUnderWay, TypeOK
    <2>3. phaseOver => Len(todo') < Len(todo)
      <3>1. Len(Tail(todo)) < Len(todo)
        BY <2>2
      <3> QED
        BY <3>1 DEF phaseOver
    <2>4. CASE operate
      BY <2>3, <2>4 DEF operate, AdapterRank
    <2>5. CASE callBehavior
      BY <2>5 DEF callBehavior, AdapterRank
    <2>6. CASE ask
      BY <2>3, <2>6 DEF ask, AdapterRank
    <2>7. CASE \E yes \in BOOLEAN : serve(yes)
      <3>1. at = "calling" /\ at' = "answered" /\ todo' = todo
        BY <2>7 DEF serve
      <3> QED
        BY <3>1 DEF AdapterRank
    <2>8. CASE answered
      BY <2>3, <2>8 DEF answered
    <2>9. CASE join
      BY <2>9 DEF join, AdapterRank
    <2>10. CASE reset \/ execute
      BY <2>3, <2>10 DEF reset, execute
    <2> QED
      BY <1>1, <2>4, <2>5, <2>6, <2>7, <2>8, <2>9, <2>10 DEF Adapter
  <1>2. ASSUME [Next]_vars, at # "free", ~Adapter
        PROVE  UNCHANGED adapterVars
    <2>1. CASE PerformMission
      BY <2>1 DEF PerformMission, take, leave, setCurrent, accept, reject, start,
                  wait_to_result, forget
    <2>2. ASSUME NEW b \in Behaviors,
                 publish_behavior_status(b) \/ status_callback(b) \/ finish(b) \/ elsewhere(b)
          PROVE  UNCHANGED adapterVars
      BY <2>2 DEF publish_behavior_status, status_callback, finish, elsewhere
    <2>3. CASE UNCHANGED vars
      BY <2>3 DEF vars
    <2> QED
      BY <1>2, <2>1, <2>2, <2>3, SharedAssumption DEF Next, LOAD, START, mission_update_callback
  <1>3. IInv /\ [Next]_vars => [at # "free" => IF Adapter THEN Closer ELSE UNCHANGED adapterVars]_vars
    BY <1>1, <1>2
  <1> QED
    BY <1>3, InitIInv, NextIInv, PTL DEF Spec, CommandsAdvance

-----------------------------------------------------------------------------
(* The loops of point_to_item, as the functions they compute.                 *)
Up(n, idx, f) ==
    f = [t \in Stacks(n) |-> IF t.done < idx THEN f[next_item(n, t)] ELSE t]
Down(n, idx, f) ==
    f = [t \in Stacks(n) |-> IF t.done > idx THEN f[previous_item(n, t)] ELSE t]

Above(n, idx) ==
    [t \in Stacks(n) |-> IF t.done < idx THEN [done |-> idx, current |-> idx < n] ELSE t]
Below(n, idx) ==
    [t \in Stacks(n) |-> IF t.done > idx THEN [done |-> idx, current |-> TRUE] ELSE t]

(* One turn of the loop up, from a stack with fewer items done. *)
LEMMA TurnUp ==
    ASSUME NEW n \in Nat, NEW idx \in 0..n, NEW t \in Stacks(n), t.done < idx
    PROVE  LET u == next_item(n, t)
           IN  /\ u \in Stacks(n)
               /\ \/ u.done = t.done /\ ~t.current /\ u.current
                  \/ u.done = t.done + 1 /\ t.current
               /\ u.done = idx => u = [done |-> idx, current |-> idx < n]
               /\ u.done <= idx
  <1> DEFINE u == next_item(n, t)
  <1>1. t.done \in 0..n /\ t.current \in BOOLEAN
    BY DEF Stacks
  <1>2. u \in Stacks(n)
    BY StackSteps
  <1>3. u = [done |-> taken(t), current |-> pending(n, t) > 0]
    BY DEF next_item
  <1>4. CASE t.current
    <2>1. taken(t) = t.done + 1
      BY <1>1, <1>4 DEF taken
    <2>2. pending(n, t) = n - (t.done + 1)
      BY <2>1 DEF pending
    <2>3. u.done = t.done + 1 /\ t.done + 1 <= idx
      BY <1>1, <1>3, <2>1
    <2>4. ASSUME u.done = idx
          PROVE  u = [done |-> idx, current |-> idx < n]
      <3>1. CASE idx < n
        <4>1. pending(n, t) > 0
          BY <1>1, <2>2, <2>3, <2>4, <3>1
        <4> QED
          BY <1>3, <2>1, <2>3, <2>4, <3>1, <4>1
      <3>2. CASE ~(idx < n)
        <4>1. ~(pending(n, t) > 0)
          BY <1>1, <2>2, <2>3, <2>4, <3>2
        <4> QED
          BY <1>3, <2>1, <2>3, <2>4, <3>2, <4>1
      <3> QED
        BY <3>1, <3>2
    <2> QED
      BY <1>2, <1>4, <2>3, <2>4
  <1>5. CASE ~t.current
    <2>1. taken(t) = t.done
      BY <1>1, <1>5 DEF taken
    <2>2. pending(n, t) > 0
      BY <1>1, <2>1 DEF pending
    <2>3. u.done = t.done /\ u.current = TRUE
      BY <2>1, <2>2 DEF next_item
    <2>4. u.done < idx /\ u.done # idx /\ u.done <= idx
      BY <1>1, <2>3
    <2> HIDE DEF u
    <2> QED
      BY <1>2, <1>5, <2>3, <2>4 DEF u
  <1> QED
    BY <1>4, <1>5

LEMMA TurnDown ==
    ASSUME NEW n \in Nat, NEW idx \in 0..n, NEW t \in Stacks(n), t.done > idx
    PROVE  LET u == previous_item(n, t)
           IN  /\ u \in Stacks(n)
               /\ u = [done |-> t.done - 1, current |-> TRUE]
               /\ u.done >= idx
  <1>1. t.done \in 0..n /\ t.done > 0
    BY DEF Stacks
  <1>2. previous_item(n, t) = [done |-> t.done - 1, current |-> TRUE]
    BY <1>1 DEF previous_item
  <1>3. [done |-> t.done - 1, current |-> TRUE] \in Stacks(n)
    BY <1>1 DEF Stacks
  <1> QED
    BY <1>1, <1>2, <1>3

(* The loop up ends with idx items done, and nothing else is a loop up.       *)
LEMMA LoopUp ==
    ASSUME NEW n \in Nat, NEW idx \in 0..n
    PROVE  /\ Up(n, idx, Above(n, idx))
           /\ \A f : Up(n, idx, f) => f = Above(n, idx)
  <1> DEFINE w == Above(n, idx)
  <1>0. \A t \in Stacks(n) : t.done \in 0..n /\ t.current \in BOOLEAN
    BY DEF Stacks
  <1>1. ASSUME NEW t \in Stacks(n), t.done < idx
        PROVE  w[next_item(n, t)] = w[t]
    <2> DEFINE u == next_item(n, t)
    <2>1. /\ u \in Stacks(n)
          /\ u.done = idx => u = [done |-> idx, current |-> idx < n]
          /\ u.done <= idx
      BY <1>1, TurnUp
    <2>2. w[t] = [done |-> idx, current |-> idx < n]
      BY <1>1 DEF Above
    <2>3. u.done \in 0..n
      BY <1>0, <2>1
    <2> HIDE DEF u
    <2>4. u.done < idx \/ u.done = idx
      BY <2>1, <2>3
    <2>5. CASE u.done < idx
      <3>1. w[u] = [done |-> idx, current |-> idx < n]
        BY <2>1, <2>5 DEF Above
      <3> HIDE DEF w
      <3> QED
        BY <2>2, <3>1 DEF u
    <2>6. CASE u.done = idx
      <3>1. ~(u.done < idx)
        BY <2>6
      <3>2. w[u] = u
        BY <2>1, <3>1 DEF Above
      <3> HIDE DEF w
      <3> QED
        BY <2>1, <2>2, <2>6, <3>2 DEF u
    <2> QED
      BY <2>4, <2>5, <2>6 DEF u
  <1>2. Up(n, idx, w)
    BY <1>1 DEF Up, Above
  <1>3. ASSUME NEW f, Up(n, idx, f)
        PROVE  f = w
    <2>1. \A t \in Stacks(n) : f[t] = IF t.done < idx THEN f[next_item(n, t)] ELSE t
      BY <1>3, Zenon DEF Up
    <2> DEFINE Rank(t) == 2 * (idx - t.done) + (IF t.current THEN 0 ELSE 1)
               G == {k \in Nat : \A t \in Stacks(n) : t.done < idx /\ Rank(t) <= k => f[t] = w[t]}
               top == 2 * idx + 1
    <2>2. 0 \in G
      BY <1>0
    <2>3. ASSUME NEW k \in 1..top, k - 1 \in G
          PROVE  k \in G
      <3> SUFFICES ASSUME NEW t \in Stacks(n), t.done < idx, Rank(t) <= k
                   PROVE  f[t] = w[t]
        BY <2>3
      <3> DEFINE u == next_item(n, t)
      <3>1. /\ u \in Stacks(n)
            /\ \/ u.done = t.done /\ ~t.current /\ u.current
               \/ u.done = t.done + 1 /\ t.current
            /\ u.done <= idx
        BY TurnUp
      <3>2. f[t] = f[u] /\ w[t] = w[u]
        BY <1>1, <2>1
      <3>3. /\ t.done \in 0..n /\ t.current \in BOOLEAN
            /\ u.done \in 0..n /\ u.current \in BOOLEAN
        BY <1>0, <3>1
      <3> HIDE DEF u, w
      <3>4. Rank(u) <= k - 1
        BY <3>1, <3>3
      <3>5. CASE u.done < idx
        <4> HIDE DEF Rank
        <4> QED
          BY <2>3, <3>1, <3>2, <3>4, <3>5
      <3>6. CASE ~(u.done < idx)
        <4>1. f[u] = u
          BY <2>1, <3>1, <3>6
        <4>2. w[u] = u
          BY <3>1, <3>6 DEF w, Above
        <4> QED
          BY <3>2, <4>1, <4>2
      <3> QED
        BY <3>5, <3>6
    <2>4. top \in G
      <3> HIDE DEF G
      <3>1. top \in Nat
        OBVIOUS
      <3> HIDE DEF top
      <3>2. 0..top \subseteq G
        BY <2>2, <2>3, <3>1, EveryTurn
      <3> QED
        BY <3>1, <3>2
    <2>5. ASSUME NEW t \in Stacks(n)
          PROVE  f[t] = w[t]
      <3>1. CASE t.done < idx
        <4>1. Rank(t) <= top
          BY <1>0
        <4> QED
          BY <2>4, <3>1, <4>1
      <3>2. CASE ~(t.done < idx)
        BY <2>1, <3>2 DEF Above
      <3> QED
        BY <3>1, <3>2
    <2>6. f = [t \in Stacks(n) |-> f[t]] /\ w = [t \in Stacks(n) |-> w[t]]
      BY <1>3 DEF Up, Above
    <2> HIDE DEF w
    <2> QED
      BY <2>5, <2>6, Zenon
  <1> QED
    BY <1>2, <1>3

LEMMA LoopDown ==
    ASSUME NEW n \in Nat, NEW idx \in 0..n
    PROVE  /\ Down(n, idx, Below(n, idx))
           /\ \A f : Down(n, idx, f) => f = Below(n, idx)
  <1> DEFINE w == Below(n, idx)
  <1>0. \A t \in Stacks(n) : t.done \in 0..n
    BY DEF Stacks
  <1>1. ASSUME NEW t \in Stacks(n), t.done > idx
        PROVE  w[previous_item(n, t)] = w[t]
    <2> DEFINE u == previous_item(n, t)
    <2>1. u \in Stacks(n) /\ u.done >= idx /\ u.current = TRUE
          /\ u = [done |-> u.done, current |-> TRUE]
      BY <1>1, TurnDown
    <2>2. w[t] = [done |-> idx, current |-> TRUE]
      BY <1>1 DEF Below
    <2>3. u.done \in 0..n
      BY <1>0, <2>1
    <2> HIDE DEF u
    <2>4. CASE u.done > idx
      <3>1. w[u] = [done |-> idx, current |-> TRUE]
        BY <2>1, <2>4 DEF Below
      <3> HIDE DEF w
      <3> QED
        BY <2>2, <3>1 DEF u
    <2>5. CASE ~(u.done > idx)
      <3>1. u.done = idx
        BY <2>1, <2>3, <2>5
      <3>2. w[u] = u
        BY <2>1, <2>5 DEF Below
      <3> HIDE DEF w
      <3> QED
        BY <2>1, <2>2, <3>1, <3>2 DEF u
    <2> QED
      BY <2>4, <2>5 DEF u
  <1>2. Down(n, idx, w)
    BY <1>1 DEF Down, Below
  <1>3. ASSUME NEW f, Down(n, idx, f)
        PROVE  f = w
    <2>1. \A t \in Stacks(n) : f[t] = IF t.done > idx THEN f[previous_item(n, t)] ELSE t
      BY <1>3, Zenon DEF Down
    <2> DEFINE G == {k \in Nat : \A t \in Stacks(n) : t.done <= idx + k => f[t] = w[t]}
    <2>2. 0 \in G
      <3> SUFFICES ASSUME NEW t \in Stacks(n), t.done <= idx + 0
                   PROVE  f[t] = w[t]
        OBVIOUS
      <3>1. ~(t.done > idx)
        BY <1>0
      <3> QED
        BY <2>1, <3>1 DEF Below
    <2>3. ASSUME NEW k \in 1..n, k - 1 \in G
          PROVE  k \in G
      <3> SUFFICES ASSUME NEW t \in Stacks(n), t.done <= idx + k
                   PROVE  f[t] = w[t]
        BY <2>3
      <3>1. CASE t.done > idx
        <4> DEFINE u == previous_item(n, t)
        <4>1. u \in Stacks(n) /\ u.done = t.done - 1
          BY <3>1, TurnDown
        <4>2. f[t] = f[u] /\ w[t] = w[u]
          BY <1>1, <2>1, <3>1
        <4>3. u.done <= idx + (k - 1)
          BY <1>0, <4>1
        <4> HIDE DEF u, w
        <4> QED
          BY <2>3, <4>1, <4>2, <4>3
      <3>2. CASE ~(t.done > idx)
        BY <2>1, <3>2 DEF Below
      <3> QED
        BY <3>1, <3>2
    <2>4. n \in G
      <3> HIDE DEF G
      <3>1. 0..n \subseteq G
        BY <2>2, <2>3, EveryTurn
      <3> QED
        BY <3>1
    <2>5. ASSUME NEW t \in Stacks(n)
          PROVE  f[t] = w[t]
      <3>1. t.done <= idx + n
        BY <1>0
      <3> QED
        BY <2>4, <3>1
    <2>6. f = [t \in Stacks(n) |-> f[t]] /\ w = [t \in Stacks(n) |-> w[t]]
      BY <1>3 DEF Down, Below
    <2> HIDE DEF w
    <2> QED
      BY <2>5, <2>6, Zenon
  <1> QED
    BY <1>2, <1>3

(* point_to_item leaves the stack its loops leave, for every plan, stack and    *)
(* item (point_to_item of mission_stack.py): the model's closed form is the     *)
(* code's.                                                                   *)
THEOREM PointIsTheLoops ==
    ASSUME NEW n \in Nat, NEW s \in Stacks(n), NEW idx \in Nat
    PROVE  point_to_item(n, s, idx) = point_to_item_loops(n, s, idx)
  <1> DEFINE up == CHOOSE f : Up(n, idx, f)
             down == CHOOSE f : Down(n, idx, f)
  <1>1. s.done \in 0..n /\ s.current \in BOOLEAN /\ (s.current => s.done < n)
    BY DEF Stacks
  <1>2. taken(s) \in Nat /\ s.done + pending(n, s) \in Int /\ s.done + pending(n, s) <= n
    BY <1>1 DEF taken, pending
  <1>3. point_to_item_loops(n, s, idx) =
            IF idx >= s.done + pending(n, s) + 1 THEN s ELSE down[up[s]]
    BY Zenon DEF point_to_item_loops, Up, Down
  <1> HIDE DEF up, down
  <1>4. CASE idx > s.done + pending(n, s)
    <2>1. idx >= s.done + pending(n, s) + 1
      BY <1>2, <1>4
    <2> QED
      BY <1>3, <1>4, <2>1 DEF point_to_item
  <1>5. CASE ~(idx > s.done + pending(n, s))
    <2>1. idx \in 0..n /\ ~(idx >= s.done + pending(n, s) + 1)
      BY <1>2, <1>5
    <2>2. up = Above(n, idx) /\ down = Below(n, idx)
      <3>1. Up(n, idx, up)
        BY <2>1, LoopUp, Zenon DEF up
      <3>2. Down(n, idx, down)
        BY <2>1, LoopDown, Zenon DEF down
      <3> QED
        BY <2>1, <3>1, <3>2, LoopUp, LoopDown
    <2>3. point_to_item_loops(n, s, idx) = Below(n, idx)[Above(n, idx)[s]]
      BY <1>3, <2>1, <2>2
    <2>4. CASE s.done < idx
      <3>1. Above(n, idx)[s] = [done |-> idx, current |-> idx < n]
        BY <2>4 DEF Above
      <3>2. [done |-> idx, current |-> idx < n] \in Stacks(n) /\ ~(idx > idx)
        <4> DEFINE q == idx < n
        <4>1. q \in BOOLEAN /\ (q => idx < n) /\ idx \in Nat
          BY <2>1
        <4> HIDE DEF q
        <4>2. [done |-> idx, current |-> q] \in Stacks(n)
          BY <2>1, <4>1 DEF Stacks
        <4> QED
          BY <4>1, <4>2 DEF q
      <3>3. Below(n, idx)[[done |-> idx, current |-> idx < n]] = [done |-> idx, current |-> idx < n]
        BY <3>2 DEF Below
      <3>4. idx # s.done
        BY <1>1, <2>4
      <3> QED
        BY <1>5, <2>3, <3>1, <3>3, <3>4 DEF point_to_item
    <2>5. CASE s.done = idx
      <3>1. ~(s.done < idx) /\ ~(s.done > idx)
        BY <1>1, <2>5
      <3>2. Above(n, idx)[s] = s /\ Below(n, idx)[s] = s
        BY <3>1 DEF Above, Below
      <3> QED
        BY <2>3, <2>5, <3>2 DEF point_to_item
    <2>6. CASE s.done > idx
      <3>1. ~(s.done < idx) /\ idx # s.done /\ idx < n
        BY <1>1, <2>6
      <3>2. Above(n, idx)[s] = s /\ Below(n, idx)[s] = [done |-> idx, current |-> TRUE]
        BY <2>6, <3>1 DEF Above, Below
      <3>3. point_to_item(n, s, idx) = [done |-> idx, current |-> idx < n]
        BY <1>5, <3>1 DEF point_to_item
      <3> QED
        BY <2>3, <3>1, <3>2, <3>3
    <2> QED
      BY <1>1, <2>1, <2>4, <2>5, <2>6
  <1> QED
    BY <1>4, <1>5
=============================================================================
