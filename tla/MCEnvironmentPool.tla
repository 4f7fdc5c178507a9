------------------------- MODULE MCEnvironmentPool -------------------------
(***************************************************************************)
(* Instances of EnvironmentPool for TLC: a python environment with a       *)
(* dependency, one without, and a node environment.                        *)
(***************************************************************************)
EXTENDS EnvironmentPool, TLC

CONSTANTS k1, k2, k3, p1, p2, p3

MCPathOf == [k \in Key |-> IF k = k1 THEN p1 ELSE IF k = k2 THEN p2 ELSE p3]
MCRuntimeOf == [k \in Key |-> IF k = k3 THEN "node" ELSE "python"]
MCDepOf == [k \in Key |-> IF k = k2 THEN {} ELSE {"pandas"}]
MCLimits == {l \in [maxEnvironments : {1, 2}, maxDiskBytes : {1, 2}] :
                l.maxEnvironments + l.maxDiskBytes = 3}
MCTightLimits == {[maxEnvironments |-> 1, maxDiskBytes |-> 1]}

Symmetry == Permutations(Exec)
=============================================================================
