--------------------------- MODULE MCBehaviorServer ---------------------------
(* TLC instance of BehaviorServer: three clients' goals, so that one can      *)
(* preempt a goal that itself preempted another.                              *)
EXTENDS BehaviorServer

CONSTANTS g1, g2, g3

MCGoals == {g1, g2, g3}
=============================================================================
