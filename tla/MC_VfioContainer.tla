------------------------- MODULE MC_VfioContainer -------------------------
(* Model-checking instance of VfioContainer: model-value threads and group *)
(* ids, with symmetry over both (they are only compared for equality).     *)
EXTENDS VfioContainer, TLC

CONSTANTS t1, t2, t3, g1, g2

\* Every kernel call on the lifecycle paths may fail.
AllFaults == FaultKinds

\* Every fault except a failed unbind in put_group (see unset_failure).
FaultsButUnset == FaultKinds \ {"UnsetContainer"}

Symmetry == Permutations({t1, t2, t3}) \cup Permutations({g1, g2})
=============================================================================
