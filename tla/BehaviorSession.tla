---------------------------- MODULE BehaviorSession ----------------------------
(* A behavior as the clients that share it see it: its status, and whose goal   *)
(* it executes.  BehaviorServer implements it, and MissionInterpreter composes  *)
(* it with the handlers of the Python API.                                     *)
CONSTANT None       \* no goal, and nothing in general

Sessions(goals) ==
    {s \in [status : {"IDLE", "RUNNING", "PAUSED"}, goal : goals \cup {None}] :
        s.status = "IDLE" <=> s.goal = None}

Idle == [status |-> "IDLE", goal |-> None]

(* A goal is accepted in every status, and takes the place of another.  *)
Accepted(goal) == [status |-> "RUNNING", goal |-> goal]

Paused(s) == [s EXCEPT !.status = "PAUSED"]
Resumed(s) == [s EXCEPT !.status = "RUNNING"]

(* What may come next. *)
SessionSteps(goals, s) ==
    {Accepted(g) : g \in goals} \cup
    (IF s.goal = None THEN {} ELSE {Idle, Paused(s), Resumed(s)})
=============================================================================
