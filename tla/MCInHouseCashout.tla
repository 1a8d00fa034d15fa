-------------------------- MODULE MCInHouseCashout --------------------------
(* Instances of InHouseCashout for TLC.                                    *)
EXTENDS InHouseCashout, TLC

CONSTANTS r1, r2, w1, w2, t1, t2, t3, d1, a1, a2

MCRequests == {r1, r2}
MCWorkers == {w1, w2}
MCTokens == {t1, t2, t3}
MCAdmins == {a1, a2}
MCDestinations == {d1}

(* The two requests compete for a balance that can not serve both, unless  *)
(* an earning is posted in between.                                        *)
MCAmount == [r \in Requests |-> 2]
MCDestOf == [r \in Requests |-> d1]
MCMovements == {1}

Symmetry == Permutations(MCRequests) \cup Permutations(MCWorkers)
              \cup Permutations(MCTokens) \cup Permutations(MCAdmins)
=============================================================================
