-------------------------- MODULE MCPaymentRefund --------------------------
(* Instances of PaymentRefund for TLC.                                     *)
EXTENDS PaymentRefund, TLC

CONSTANTS r1, r2, h1, h2

MCRefunds == {r1, r2}
MCHandlers == {h1, h2}
MCOneHandler == {h1}

(* The dispute's refund of everything next to a request for a part.        *)
MCDispute == {r1}
MCDisputeAsked == (r1 :> 2) @@ (r2 :> 1)

(* The dispute's refund alone.                                             *)
MCOneRefund == {r1}
MCOneAsked == r1 :> 2

(* The dispute's refund of a part next to a request for all that is left.  *)
MCMixedAsked == (r1 :> 2) @@ (r2 :> 0)

(* An orphan next to one other process at most.                            *)
FewAtOnce ==
  (\E p \in Procs : proc[p].op = "orphan") =>
    Cardinality({p \in Procs : proc[p] # Idle}) <= 2

(* No other refund is reserved while an orphan goes on.                    *)
OrphanAlone ==
  \A p \in Procs : proc[p].op = "orphan" =>
    \A r \in Refunds \ {proc[p].of} : attempt[r].status = "none"
=============================================================================
