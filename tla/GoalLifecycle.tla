---------------------------- MODULE GoalLifecycle ----------------------------
(***************************************************************************)
(* What a behavior promises its clients (as2_behavior/README.md: "Each       *)
(* behavior server only attends to a single goal (client) at each moment"): *)
(* a goal is answered once; an accepted one is the current goal until it     *)
(* gets the one result it will ever have, and a goal accepted meanwhile      *)
(* takes its place and cancels it.                                           *)
(***************************************************************************)
CONSTANTS Goals, None

VARIABLES
    current,    \* the goal being attended, or None
    goal        \* what each client knows of its goal

glVars == <<current, goal>>

Results == {"SUCCEEDED", "ABORTED", "CANCELED"}
GoalStates == {"UNSENT", "REJECTED", "EXECUTING"} \cup Results

GLInit ==
    /\ current = None
    /\ goal = [g \in Goals |-> "UNSENT"]

Reject(g) ==
    /\ goal[g] = "UNSENT"
    /\ goal' = [goal EXCEPT ![g] = "REJECTED"]
    /\ UNCHANGED current

Accept(g) ==
    /\ goal[g] = "UNSENT"
    /\ goal' = [h \in Goals |-> IF h = g THEN "EXECUTING"
                                ELSE IF h = current THEN "CANCELED"
                                ELSE goal[h]]
    /\ current' = g

Finish(result) ==
    /\ current \in Goals
    /\ goal' = [goal EXCEPT ![current] = result]
    /\ current' = None

GLNext ==
    \/ \E g \in Goals : Reject(g) \/ Accept(g)
    \/ \E result \in Results : Finish(result)

GLSpec == GLInit /\ [][GLNext]_glVars
=============================================================================
