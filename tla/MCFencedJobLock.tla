--------------------------- MODULE MCFencedJobLock ---------------------------
(* Instances of FencedJobLock for TLC.                                     *)
EXTENDS FencedJobLock, TLC

CONSTANTS p1, p2, p3, v1, v2, v3, v4

(* One value more than there are runs, for the row left behind.            *)
MCRuns == {p1, p2, p3}
MCLockValues == {v1, v2, v3, v4}
Symmetry == Permutations(MCRuns) \cup Permutations(MCLockValues)
=============================================================================
