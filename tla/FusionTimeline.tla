----------------------------- MODULE FusionTimeline -----------------------------
(* What the history of the estimator promises, without the history: the state  *)
(* of the filter is the result of a line of operations, each new operation     *)
(* takes one place in that line, and the others keep theirs.  Nothing that was  *)
(* fused is lost, applied twice or reordered by a rewind, a replay, a trim or   *)
(* a correction of the clock.                                                 *)
EXTENDS Naturals, Sequences

CONSTANT Operations

VARIABLE fused      \* the operations the state is the result of, in their order

Init == fused = <<>>

(* An operation that was not fused before takes the place after the first p.   *)
Fuse ==
    /\ fused' \in Seq(Operations)
    /\ Len(fused') = Len(fused) + 1
    /\ \E p \in 0..Len(fused) :
          /\ \A i \in 1..Len(fused) : fused[i] # fused'[p + 1]
          /\ \A i \in 1..Len(fused) :
                fused[i] = fused'[IF i <= p THEN i ELSE i + 1]

Spec == Init /\ [][Fuse]_fused
=============================================================================
