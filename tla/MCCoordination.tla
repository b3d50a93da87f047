---------------------------- MODULE MCCoordination ----------------------------
EXTENDS Coordination, CoordChecks, ControlChecks, TLC

CONSTANTS s1, s2, a, r1, r2, k1, k2, rc1, rc2, c1, c2

MCPerformer == [s \in Stages |-> a]
MCSymmetry == Permutations(Receipts) \cup Permutations(ExecKeys) \cup Permutations(Carriages)
=============================================================================
