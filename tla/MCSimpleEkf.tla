------------------------------ MODULE MCSimpleEkf ------------------------------
(* TLC instance of SimpleEkf: a mocap topic that sets earth->map, limited to   *)
(* a rate, and a topic of velocities without limit.                           *)
EXTENDS SimpleEkf, SequencesExt

CONSTANTS imu, standing, mocap, twist

MCSources == {imu, standing, mocap, twist}
MCAbsoluteSources == {standing, mocap}
MCTimes == 0..MaxTime
MCSetEarthMap == {mocap}
MCVelocityTopics == {twist}
MCUpdatePeriod == [s \in {mocap, twist} |-> IF s = mocap THEN 2 ELSE 0]
MCGateTimeout == [s \in {mocap, twist} |-> IF s = mocap THEN 1 ELSE 0]

(* A different number for every line of operations of the instance.           *)
MCPosition(s) == FoldLeft(LAMBDA n, op : 7 * n + op.id, 0, s)
=============================================================================
