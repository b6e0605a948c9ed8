------------------------- MODULE BehaviorServerProofs -------------------------
(***************************************************************************)
(* BehaviorServer for any set of goals: no goal is orphaned, results are    *)
(* final, and the server implements GoalLifecycle.                          *)
(***************************************************************************)
EXTENDS BehaviorServer, TLAPS

(* NoOrphanGoal is inductive once the variables have their types: every     *)
(* callback that ends a goal ends the handle, the timer, the status and the  *)
(* session together, and the one that starts a goal starts all of them.     *)
IInv == TypeOK /\ NoOrphanGoal

(* Dropping a handle leaves no other goal changed, and its own not executing. *)
LEMMA AfterDrop ==
    ASSUME NEW s \in [Goals -> GoalStates], NEW h \in Goals \cup {None}
    PROVE  /\ afterDrop(h, s) \in [Goals -> GoalStates]
           /\ \A g \in Goals : g # h => afterDrop(h, s)[g] = s[g]
           /\ h \in Goals => afterDrop(h, s)[h] # "EXECUTING"
           /\ h \in Goals /\ s[h] # "EXECUTING" => afterDrop(h, s) = s
           /\ h \in Goals /\ s[h] = "EXECUTING" =>
                  afterDrop(h, s) = [s EXCEPT ![h] = "CANCELED"]
  BY DEF afterDrop, GoalStates, Results

LEMMA InitIInv == Init => IInv
  <1> SUFFICES ASSUME Init PROVE IInv
    OBVIOUS
  <1> USE NoneAssumption, MaxRunsAssumption DEF Init
  <1>1. [g \in Goals |-> "UNSENT"] \in [Goals -> GoalStates]
    BY DEF GoalStates
  <1>a. 0 \in 0..MaxRuns
    OBVIOUS
  <1>2. TypeOK
    BY <1>1, <1>a DEF TypeOK
  <1>3. NoOrphanGoal
    BY DEF NoOrphanGoal
  <1> QED
    BY <1>2, <1>3 DEF IInv

(* Ending the current session leaves nothing executing, when the states it  *)
(* ends with differ from the present ones in the current goal alone.        *)
LEMMA CleanupEndsEverything ==
    ASSUME IInv, NEW s \in [Goals -> GoalStates],
           \A g \in Goals : g # handle => s[g] = goal[g],
           cleanup_run_timer(s)
    PROVE  /\ goal' \in [Goals -> GoalStates]
           /\ \A g \in Goals : goal'[g] # "EXECUTING"
           /\ handle' = None /\ timer' = FALSE /\ session' = FALSE
  <1>1. handle \in Goals \cup {None}
    BY DEF IInv, TypeOK
  <1>2. goal' = afterDrop(handle, s)
    BY DEF cleanup_run_timer
  <1>3. \A g \in Goals : g # handle => goal[g] # "EXECUTING"
    BY DEF IInv, NoOrphanGoal
  <1>4. ASSUME NEW g \in Goals PROVE goal'[g] # "EXECUTING"
    <2>1. CASE g = handle
      BY <1>1, <1>2, <2>1, AfterDrop
    <2>2. CASE g # handle
      BY <1>1, <1>2, <1>3, <2>2, AfterDrop
    <2> QED
      BY <2>1, <2>2
  <1> QED
    BY <1>1, <1>2, <1>4, AfterDrop DEF cleanup_run_timer

LEMMA NextIInv == IInv /\ [Next]_vars => IInv'
  <1> SUFFICES ASSUME IInv, [Next]_vars PROVE IInv'
    OBVIOUS
  <1> USE NoneAssumption, MaxRunsAssumption
  <1>1. ASSUME NEW g \in Goals, refuseGoal(g)
        PROVE  IInv'
    BY <1>1 DEF IInv, refuseGoal, TypeOK, NoOrphanGoal, GoalStates, Results
  <1>2. ASSUME NEW g \in Goals, acceptGoal(g)
        PROVE  IInv'
    <2> DEFINE rest == afterDrop(handle, goal)
    <2>1. /\ rest \in [Goals -> GoalStates]
          /\ \A h \in Goals : rest[h] # "EXECUTING"
      BY AfterDrop DEF IInv, TypeOK, NoOrphanGoal
    <2>2. goal' = [rest EXCEPT ![g] = "EXECUTING"]
      BY <1>2 DEF acceptGoal
    <2> HIDE DEF rest
    <2>3. /\ goal' \in [Goals -> GoalStates]
          /\ \A h \in Goals : goal'[h] = "EXECUTING" <=> h = g
      BY <2>1, <2>2 DEF GoalStates
    <2> QED
      BY <1>2, <2>3 DEF IInv, acceptGoal, TypeOK, NoOrphanGoal
  <1>3. CASE deactivate
    <2>1. /\ goal' \in [Goals -> GoalStates]
          /\ \A g \in Goals : goal'[g] # "EXECUTING"
          /\ handle' = None /\ timer' = FALSE /\ session' = FALSE
      BY <1>3, CleanupEndsEverything DEF deactivate, IInv, TypeOK
    <2> QED
      BY <1>3, <2>1 DEF deactivate, IInv, TypeOK, NoOrphanGoal
  <1>4. ASSUME NEW g \in Goals, handleCancel(g)
        PROVE  IInv'
    BY <1>4, <1>3 DEF handleCancel
  <1>5. CASE pause \/ resume
    BY <1>5 DEF IInv, pause, resume, TypeOK, NoOrphanGoal
  <1>6. ASSUME NEW r \in {"SUCCEEDED", "ABORTED"}, runEnds(r)
        PROVE  IInv'
    <2> DEFINE s == [goal EXCEPT ![handle] = r]
    <2>1. s \in [Goals -> GoalStates] /\ \A g \in Goals : g # handle => s[g] = goal[g]
      BY DEF IInv, TypeOK, GoalStates, Results
    <2>2. cleanup_run_timer(s)
      BY <1>6 DEF runEnds
    <2> HIDE DEF s
    <2>3. /\ goal' \in [Goals -> GoalStates]
          /\ \A g \in Goals : goal'[g] # "EXECUTING"
          /\ handle' = None /\ timer' = FALSE /\ session' = FALSE
      BY <2>1, <2>2, CleanupEndsEverything
    <2> QED
      BY <1>6, <2>3 DEF runEnds, IInv, TypeOK, NoOrphanGoal
  <1>7. ASSUME NEW a \in {"RUNNING", "PAUSED"}, runGoesOn(a)
        PROVE  IInv'
    BY <1>7 DEF IInv, runGoesOn, TypeOK, NoOrphanGoal
  <1>8. CASE UNCHANGED vars
    BY <1>8 DEF IInv, vars, TypeOK, NoOrphanGoal
  <1> QED
    BY <1>1, <1>2, <1>3, <1>4, <1>5, <1>6, <1>7, <1>8 DEF Next, timer_callback

-----------------------------------------------------------------------------
(* Every variable keeps its type.                                           *)
THEOREM TypeCorrect == Spec => []TypeOK
  <1>1. IInv => TypeOK
    BY DEF IInv
  <1> QED
    BY <1>1, InitIInv, NextIInv, PTL DEF Spec

(* A goal is executing exactly when the server holds it with a timer, a      *)
(* status and a session for it, for any number of clients.                  *)
THEOREM NoOrphanTheorem == Spec => []NoOrphanGoal
  <1>1. IInv => NoOrphanGoal
    BY DEF IInv
  <1> QED
    BY <1>1, InitIInv, NextIInv, PTL DEF Spec

-----------------------------------------------------------------------------
(* Refinement: each callback is a step of the lifecycle, or changes nothing *)
(* a client sees of its goals.                                              *)

(* Ending the session with the result s gives the current goal, or with the *)
(* present states, is one step of the lifecycle.                            *)
LEMMA StopIsCancel ==
    ASSUME IInv, cleanup_run_timer(goal)
    PROVE  Lifecycle!Finish("CANCELED") \/ UNCHANGED <<handle, goal>>
  <1> USE NoneAssumption DEF IInv, TypeOK, NoOrphanGoal, cleanup_run_timer
  <1>1. CASE handle \in Goals
    BY <1>1, AfterDrop DEF Lifecycle!Finish
  <1>2. CASE handle = None
    BY <1>2 DEF afterDrop
  <1> QED
    BY <1>1, <1>2

LEMMA StepRefines ==
    ASSUME IInv, [Next]_vars
    PROVE  [Lifecycle!GLNext]_<<handle, goal>>
  <1> USE NoneAssumption
  <1>1. ASSUME NEW g \in Goals, refuseGoal(g)
        PROVE  Lifecycle!Reject(g)
    BY <1>1 DEF refuseGoal, Lifecycle!Reject
  <1>2. ASSUME NEW g \in Goals, acceptGoal(g)
        PROVE  Lifecycle!Accept(g)
    <2>1. CASE handle \in Goals
      <3>1. goal[handle] = "EXECUTING" /\ g # handle
        BY <1>2, <2>1 DEF IInv, NoOrphanGoal, acceptGoal
      <3>2. goal' = [[goal EXCEPT ![handle] = "CANCELED"] EXCEPT ![g] = "EXECUTING"]
        BY <1>2, <2>1, <3>1 DEF acceptGoal, afterDrop
      <3> QED
        BY <1>2, <2>1, <3>1, <3>2 DEF acceptGoal, Lifecycle!Accept, IInv, TypeOK
    <2>2. CASE handle = None
      BY <1>2, <2>2 DEF acceptGoal, afterDrop, Lifecycle!Accept, IInv, TypeOK
    <2> QED
      BY <2>1, <2>2 DEF IInv, TypeOK
  <1>3. CASE deactivate \/ \E g \in Goals : handleCancel(g)
    BY <1>3, StopIsCancel DEF deactivate, handleCancel, Lifecycle!GLNext,
       Lifecycle!Results
  <1>4. CASE pause \/ resume
    BY <1>4 DEF pause, resume
  <1>5. ASSUME NEW r \in {"SUCCEEDED", "ABORTED"}, runEnds(r)
        PROVE  Lifecycle!Finish(r)
    <2>1. handle \in Goals
      BY <1>5 DEF runEnds, IInv, TypeOK, NoOrphanGoal
    <2>2. goal' = [goal EXCEPT ![handle] = r]
      BY <1>5, <2>1 DEF runEnds, cleanup_run_timer, afterDrop, IInv, TypeOK
    <2> QED
      BY <1>5, <2>1, <2>2 DEF runEnds, cleanup_run_timer, Lifecycle!Finish
  <1>6. ASSUME NEW a \in {"RUNNING", "PAUSED"}, runGoesOn(a)
        PROVE  UNCHANGED <<handle, goal>>
    BY <1>6 DEF runGoesOn
  <1>7. CASE UNCHANGED vars
    BY <1>7 DEF vars
  <1> QED
    BY <1>1, <1>2, <1>3, <1>4, <1>5, <1>6, <1>7
       DEF Next, timer_callback, Lifecycle!GLNext, Lifecycle!Results

(* The behavior server attends to a single goal at each moment and answers  *)
(* each one once, as its README promises.                                   *)
THEOREM LifecycleTheorem == Spec => ImplementsLifecycle
  <1>1. Init => Lifecycle!GLInit
    BY DEF Init, Lifecycle!GLInit
  <1>2. IInv /\ [Next]_vars => [Lifecycle!GLNext]_(Lifecycle!glVars)
    BY StepRefines DEF Lifecycle!glVars
  <1> QED
    BY <1>1, <1>2, InitIInv, NextIInv, PTL DEF Spec, ImplementsLifecycle, Lifecycle!GLSpec

(* The status and the goal of a server change as its other clients expect.   *)
THEOREM SessionTheorem == Spec => ImplementsSession
  <1> DEFINE Step == record' \in SessionSteps(Goals, record) \/ record' = record
  <1>1. Init => record = Idle
    BY DEF Init, record, Idle
  <1>2. ASSUME IInv, [Next]_vars
        PROVE  Step
    <2> USE NoneAssumption DEF record, SessionSteps
    <2>1. ASSUME NEW g \in Goals, acceptGoal(g)
          PROVE  Step
      BY <2>1 DEF acceptGoal, Accepted
    <2>2. CASE handle' = None /\ status' = "IDLE"
      BY <1>2, <2>2 DEF Idle, IInv, TypeOK, NoOrphanGoal
    <2>3. CASE handle' = handle /\ handle # None /\ status' \in {"RUNNING", "PAUSED"}
      BY <2>3 DEF Paused, Resumed
    <2>4. CASE UNCHANGED <<handle, status>>
      BY <2>4
    <2>5. ASSUME NEW g \in Goals, refuseGoal(g) \/ handleCancel(g)
          PROVE  Step
      BY <2>2, <2>4, <2>5 DEF refuseGoal, handleCancel, deactivate, cleanup_run_timer
    <2>6. CASE deactivate \/ \E r \in {"SUCCEEDED", "ABORTED"} : runEnds(r)
      BY <2>2, <2>6 DEF deactivate, runEnds, cleanup_run_timer
    <2>7. CASE pause \/ resume \/ \E a \in {"RUNNING", "PAUSED"} : runGoesOn(a)
      BY <1>2, <2>3, <2>7 DEF pause, resume, runGoesOn, IInv, TypeOK, NoOrphanGoal
    <2>8. CASE UNCHANGED vars
      BY <2>4, <2>8 DEF vars
    <2> QED
      BY <1>2, <2>1, <2>5, <2>6, <2>7, <2>8 DEF Next, timer_callback
  <1>3. IInv /\ [Next]_vars => [record' \in SessionSteps(Goals, record)]_record
    BY <1>2
  <1> QED
    BY <1>1, <1>3, InitIInv, NextIInv, PTL DEF Spec, ImplementsSession

(* No step changes a goal that has a result or was refused.                 *)
THEOREM ResultsTheorem == Spec => ResultsAreFinal
  <1> DEFINE Final == \A g \in Goals :
                goal[g] \in Results \cup {"REJECTED"} => goal'[g] = goal[g]
  <1>1. ASSUME IInv, [Next]_vars
        PROVE  Final
    <2>1. CASE UNCHANGED <<handle, goal>>
      BY <2>1
    <2>2. ASSUME NEW g \in Goals, Lifecycle!Reject(g) \/ Lifecycle!Accept(g)
          PROVE  Final
      BY <1>1, <2>2 DEF Lifecycle!Reject, Lifecycle!Accept, IInv, TypeOK,
         NoOrphanGoal, Results
    <2>3. ASSUME NEW r \in Results, Lifecycle!Finish(r)
          PROVE  Final
      BY <1>1, <2>3 DEF Lifecycle!Finish, IInv, TypeOK, NoOrphanGoal, Results
    <2> QED
      BY <1>1, <2>1, <2>2, <2>3, StepRefines DEF Lifecycle!GLNext, Lifecycle!Results, Results
  <1>2. IInv /\ [Next]_vars => [Final]_vars
    BY <1>1
  <1> QED
    BY <1>2, InitIInv, NextIInv, PTL DEF Spec, ResultsAreFinal
=============================================================================
