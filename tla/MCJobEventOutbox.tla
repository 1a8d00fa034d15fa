-------------------------- MODULE MCJobEventOutbox --------------------------
(* Instances of JobEventOutbox for TLC.                                    *)
EXTENDS JobEventOutbox, TLC

CONSTANTS w1, w2, t1, t2, t3, t4, t5

MCWorkers == {w1, w2}
MCTokens == {t1, t2, t3, t4, t5}
Symmetry == Permutations(MCWorkers) \cup Permutations(MCTokens)
=============================================================================
