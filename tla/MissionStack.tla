----------------------------- MODULE MissionStack -----------------------------
(* The stack of a mission (as2_python_api/mission_interpreter/mission_stack.py): *)
(* items done, perhaps a current one, and items pending.  They keep their order *)
(* in the plan, so of a plan of n items it is enough to know how many are done  *)
(* and whether there is a current one.                                         *)
EXTENDS Integers

Stacks(n) ==
    {s \in [done : 0..n, current : BOOLEAN] : s.current => s.done < n}

Fresh == [done |-> 0, current |-> FALSE]

(* How many items are done or current: the others are pending. *)
taken(s) == s.done + (IF s.current THEN 1 ELSE 0)

pending(n, s) == n - taken(s)

next_item(n, s) == [done |-> taken(s), current |-> pending(n, s) > 0]

previous_item(n, s) ==
    IF s.done > 0 THEN [done |-> s.done - 1, current |-> TRUE]
                  ELSE [s EXCEPT !.current = FALSE]

(* The loops of point_to_item end with idx items done and the one after them  *)
(* current, if there is one; they are not entered when idx items are done     *)
(* already, and then there may be no current item though some are pending.   *)
point_to_item(n, s, idx) ==
    IF idx > s.done + pending(n, s) \/ idx = s.done THEN s
    ELSE [done |-> idx, current |-> idx < n]

(* point_to_item as it is written, for comparison. *)
point_to_item_loops(n, s, idx) ==
    LET up[t \in Stacks(n)] == IF t.done < idx THEN up[next_item(n, t)] ELSE t
        down[t \in Stacks(n)] == IF t.done > idx THEN down[previous_item(n, t)] ELSE t
    IN  IF idx >= s.done + pending(n, s) + 1 THEN s ELSE down[up[s]]
=============================================================================
