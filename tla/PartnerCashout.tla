--------------------------- MODULE PartnerCashout ---------------------------
(***************************************************************************)
(* Cash-outs paid by an external payout partner (payoutPartners/index.js): *)
(* the partner is called while the worker holds the lease, outside of any  *)
(* transaction, and its answer is settled afterwards.  Calls and answers   *)
(* may be lost.  The partner is external: it is modelled by the interface  *)
(* it has to offer, one payout per idempotency key.                        *)
(***************************************************************************)
EXTENDS CreditCashout

VARIABLES
  partner,  \* the payout of each request at the partner
  answer    \* an answer a worker has received and not settled yet

partnerVars == <<partner, answer>>
vars == <<coreVars, partnerVars>>

Answers == {"submitted", "paid", "failed"}

TypeOK ==
  /\ CoreTypeOK
  /\ partner \in [Requests -> {"none", "accepted", "paid", "failed"}]
  /\ answer \in [Workers -> [Requests -> {"none"} \cup Answers]]

Init ==
  /\ CoreInit
  /\ partner = [r \in Requests |-> "none"]
  /\ answer = [w \in Workers |-> [r \in Requests |-> "none"]]

-----------------------------------------------------------------------------
(* The partner pays one payout per idempotency key: a repeated submission  *)
(* reports the payout it already has.                                      *)
PartnerAfter(r) ==
  IF partner[r] = "none" THEN {"accepted", "paid", "failed"} ELSE {partner[r]}

Report(p) == IF p = "accepted" THEN "submitted" ELSE p

PartnerFinishes(r) ==
  /\ partner[r] = "accepted"
  /\ \E o \in {"paid", "failed"} : partner' = [partner EXCEPT ![r] = o]
  /\ UNCHANGED <<coreVars, answer>>

(* A worker takes its rows one after the other.                            *)
BetweenRows(w) == \A r \in Requests : answer[w][r] = "none"

(* submitClaimed, external partner: the call, made under the lease ...     *)
CallPartner(w, r) ==
  /\ Holds(w, r)
  /\ BetweenRows(w)
  /\ configured[w]
  /\ batch[w][r] <= MaxSubmitAttempts
  /\ \E p \in PartnerAfter(r) :
       /\ partner' = [partner EXCEPT ![r] = p]
       /\ answer' = [answer EXCEPT ![w][r] = Report(p)]
  /\ UNCHANGED coreVars

(* ... and settle, in a transaction of its own.                            *)
SettleAnswer(w, r) ==
  /\ answer[w][r] # "none"
  /\ Settle(r, token[w], answer[w][r])
  /\ answer' = [answer EXCEPT ![w][r] = "none"]
  /\ DropFromBatch(w, r)
  /\ UNCHANGED <<destStatus, disabling, cooled, configured, partner>>

(* Mutant of LoseAnswer: a timed-out call is taken for a failed payout.    *)
TimeoutIsFailure(w, r) ==
  /\ answer[w][r] # "none"
  /\ Settle(r, token[w], "failed")
  /\ answer' = [answer EXCEPT ![w][r] = "none"]
  /\ DropFromBatch(w, r)
  /\ UNCHANGED <<destStatus, disabling, cooled, configured, partner>>

(* The partner has the payout, but its answer is lost or settling throws.  *)
LoseAnswer(w, r) ==
  /\ answer[w][r] # "none"
  /\ answer' = [answer EXCEPT ![w][r] = "none"]
  /\ DropFromBatch(w, r)
  /\ UNCHANGED <<ledgerVars, rowVars, destVars, configured, partner>>

CrashCalling(w) ==
  /\ WorkerCrash(w)
  /\ answer' = [answer EXCEPT ![w] = [r \in Requests |-> "none"]]
  /\ UNCHANGED partner

(* processCashouts, second half: poll a submitted request, settle without  *)
(* a lease when the partner is done.                                       *)
PollSubmitted(r) ==
  /\ status[r] = "submitted"
  /\ partner[r] \in {"paid", "failed"}
  /\ Settle(r, NoToken, partner[r])
  /\ UNCHANGED <<destStatus, disabling, cooled, configured, workerVars,
                 partnerVars>>

Next ==
  \/ RequestStep /\ UNCHANGED partnerVars
  \/ EnvironmentStep /\ UNCHANGED partnerVars
  \/ \E w \in Workers :
       \/ BetweenRows(w) /\ WorkerStep(w) /\ UNCHANGED partnerVars
       \/ CrashCalling(w)
       \/ \E r \in Requests :
            CallPartner(w, r) \/ SettleAnswer(w, r) \/ LoseAnswer(w, r)
  \/ \E r \in Requests : PartnerFinishes(r) \/ PollSubmitted(r)

Spec == Init /\ [][Next]_vars

-----------------------------------------------------------------------------
(* A request ends as paid or failed only on the partner's word, however    *)
(* late or repeated the answer that settles it is.                         *)
SettledAsPartnerSays ==
  \A r \in Requests : /\ status[r] = "paid" => partner[r] = "paid"
                      /\ status[r] = "failed" => partner[r] = "failed"

(* The money of a payout the partner accepted or made is not given back:   *)
(* neither the owner nor a reviewer can undo a request whose submission    *)
(* went out.                                                               *)
NoMoneyBackAfterSubmission ==
  \A r \in Requests :
    partner[r] \in {"accepted", "paid"} => reservation[r] = "active"
                                             \/ status[r] = "paid"
=============================================================================
