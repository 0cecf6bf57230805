------------------------------ MODULE MCStore ------------------------------
(* Instances of LocalStore and OrphanSweep: two snapshots of one repository *)
(* and one of a second repository, each sharing an artifact with another.   *)
EXTENDS OrphanSweep, TLC

CONSTANTS p1, p2, r1, r2, s1, s2, t1, a1, a2, w1, w2

MCArtifactsOf ==
    [s \in Snapshot |-> CASE s = s1 -> <<a1, a2>>
                           [] s = s2 -> <<a2>>
                           [] s = t1 -> <<a1>>]
MCRepositoryOf == [s \in Snapshot |-> IF s = t1 THEN r2 ELSE r1]

\* The state without what no step reads and no property mentions while the
\* power stays on: the outcomes reported and what a power loss would leave.
PoweredView ==
    <<objects, temps, debris, metadata, writer, pc, locals, sweepVars>>

\* No sweep runs, and the machine may lose power.
PowerLossSpec == StoreAndSweepInit /\ [][(Next \/ PowerLoss) /\ UNCHANGED sweepVars]_allVars

=============================================================================
