---------------------------- MODULE MCJobPayment ----------------------------
(* Instances of JobPayment for TLC.                                        *)
EXTENDS JobCharges

MCAgreedPrices == {1, 2}
MCHighPrice == {2}

(* Bound: change orders, switches, faults and a dispute at a time.         *)
FewTurns ==
  used.turns + used.faults + (IF disputed THEN 1 ELSE 0) <= 2
=============================================================================
