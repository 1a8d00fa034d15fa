--------------------------- MODULE RefundPromise ----------------------------
(***************************************************************************)
(* What refunding a card payment promises, without processes, approvals,   *)
(* retries, disputes or Stripe: a request claims an amount once and is     *)
(* later recorded as given back or as voided, at most once and for good;   *)
(* what the payment says was refunded only grows, never beyond the         *)
(* payment, and covers all that is recorded as given back; and a payment   *)
(* that was voided gives nothing back, nor the other way round.            *)
(***************************************************************************)
EXTENDS Integers, FiniteSets

CONSTANTS Refunds, Amount

VARIABLES
  outcome,   \* of each request: "none", "asked", "returned" or "voided"
  claim,     \* cents each request claims
  refunded   \* cents of the payment said to be refunded

promiseVars == <<outcome, claim, refunded>>

Init ==
  /\ outcome = [r \in Refunds |-> "none"]
  /\ claim = [r \in Refunds |-> 0]
  /\ refunded = 0

Returned == {r \in Refunds : outcome[r] = "returned"}

(* The claims of a set of requests, counted cent by cent.                  *)
Total(S) == Cardinality({c \in S \X (1 .. Amount) : c[2] <= claim[c[1]]})

Ask(r) ==
  /\ outcome[r] = "none"
  /\ outcome' = [outcome EXCEPT ![r] = "asked"]
  /\ \E n \in 1 .. Amount : claim' = [claim EXCEPT ![r] = n]
  /\ UNCHANGED refunded

(* The amount grows, by money that this system gave back or another did.   *)
Grow ==
  /\ \A r \in Refunds : outcome[r] # "voided"
  /\ refunded' >= refunded /\ refunded' <= Amount

Report == UNCHANGED <<outcome, claim>> /\ Grow

GiveBack(r) ==
  /\ outcome[r] = "asked"
  /\ outcome' = [outcome EXCEPT ![r] = "returned"]
  /\ Grow
  /\ UNCHANGED claim
  /\ refunded' >= Total(Returned)'

Void(r) ==
  /\ outcome[r] = "asked"
  /\ refunded = 0
  /\ outcome' = [outcome EXCEPT ![r] = "voided"]
  /\ UNCHANGED <<claim, refunded>>

Next ==
  \/ Report
  \/ \E r \in Refunds : Ask(r) \/ GiveBack(r) \/ Void(r)

Spec == Init /\ [][Next]_promiseVars
=============================================================================
