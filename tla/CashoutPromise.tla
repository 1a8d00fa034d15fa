--------------------------- MODULE CashoutPromise ---------------------------
(***************************************************************************)
(* What cashing out promises a helper, without workers, leases, review or  *)
(* payout rails: a request takes its amount out of the money that can be   *)
(* spent, and later it is either paid or gives that amount back.           *)
(***************************************************************************)
EXTENDS Integers

CONSTANTS Requests, Amount, Movements, OpeningFunds

VARIABLES
  phase,  \* what the helper sees of each request
  funds   \* the money the helper can spend or cash out

promiseVars == <<phase, funds>>

Init ==
  /\ phase = [r \in Requests |-> "none"]
  /\ funds = OpeningFunds

Accept(r) ==
  /\ phase[r] = "none"
  /\ Amount[r] <= funds
  /\ phase' = [phase EXCEPT ![r] = "pending"]
  /\ funds' = funds - Amount[r]

Pay(r) ==
  /\ phase[r] = "pending"
  /\ phase' = [phase EXCEPT ![r] = "paid"]
  /\ UNCHANGED funds

Return(r) ==
  /\ phase[r] = "pending"
  /\ phase' = [phase EXCEPT ![r] = "returned"]
  /\ funds' = funds + Amount[r]

Earn(a) == funds' = funds + a /\ UNCHANGED phase

Spend(a) == a <= funds /\ funds' = funds - a /\ UNCHANGED phase

Next ==
  \/ \E r \in Requests : Accept(r) \/ Pay(r) \/ Return(r)
  \/ \E a \in Movements : Earn(a) \/ Spend(a)

Spec == Init /\ [][Next]_promiseVars
=============================================================================
