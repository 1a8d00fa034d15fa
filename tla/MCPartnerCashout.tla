-------------------------- MODULE MCPartnerCashout --------------------------
(* Instances of PartnerCashout for TLC.                                    *)
EXTENDS SteadyPartnerCashout, TLC

CONSTANTS r1, r2, w1, w2, t1, t2, t3, d1

MCRequests == {r1, r2}
MCWorkers == {w1, w2}
MCTokens == {t1, t2, t3}
MCDestinations == {d1}
MCAmount == [r \in Requests |-> 2]
MCDestOf == [r \in Requests |-> d1]
MCMovements == {1}

Symmetry == Permutations(MCRequests) \cup Permutations(MCWorkers)
              \cup Permutations(MCTokens)

(* Bound: no destination is being disabled; InHouseSafety has that.        *)
Usable == \A d \in Destinations : ~disabling[d]
=============================================================================
