------------------------- MODULE MCMissionInterpreter -------------------------
(* TLC instance of MissionInterpreter: a mission that comes back to its first   *)
(* behavior, and another behavior that is shared with other clients.          *)
EXTENDS MissionInterpreter

MCBehaviors == {"takeoff", "go_to"}
MCShared == {"go_to"}
MCPlan == [survey |-> <<"takeoff", "go_to", "takeoff">>]

(* What point_to_item does is what its loops do. *)
ASSUME PointIsTheLoop ==
    \A n \in 0..4 : \A s \in Stacks(n) : \A idx \in 0..5 :
        point_to_item(n, s, idx) = point_to_item_loops(n, s, idx)
=============================================================================
