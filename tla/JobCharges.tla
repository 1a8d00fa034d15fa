----------------------------- MODULE JobCharges -----------------------------
(***************************************************************************)
(* JobPayment with a history variable: whether a capture was lost so far,  *)
(* that is, made at the provider by a completion whose transaction was     *)
(* rolled back.  It only watches; what it allows to state is what holds as *)
(* long as none was.                                                       *)
(***************************************************************************)
EXTENDS JobPayment

VARIABLE lost

CaptureLost ==
  completing # "no" /\ completing' = "no" /\ payment'.status # "captured"

ChargesInit == Init /\ lost = FALSE

ChargesNext == Next /\ lost' = (lost \/ CaptureLost)

ChargesSpec == ChargesInit /\ [][ChargesNext]_<<vars, lost>>

-----------------------------------------------------------------------------
(* "so only one authorization is ever captured"                            *)
(* (jobPaymentReauthorizationService.js:15): of all the intents that       *)
(* change orders and re-authorizations made, the provider captures the one *)
(* of the row, and for a job that is completed.  After a lost capture the  *)
(* row can be moved to another intent, and that one is captured, too.      *)
ChargedOnce ==
  ~lost => \A i \in Intents : intent[i].state = "captured" =>
             i = payment.intent /\ (completing # "no" \/ status = "completed")
=============================================================================
