-------------------------------- MODULE MCFlags --------------------------------
(* Instances of Flags for TLC. *)
EXTENDS Flags, TLC

CONSTANTS f1, f2, link, root, busy, idle, a, b, j1, j2

TwoFlags == {f1, f2}
TwoJobs  == {j1, j2}
Both     == {a, b}

Symmetry == Permutations(TwoFlags) \cup Permutations(TwoJobs) \cup Permutations(Both)

================================================================================
