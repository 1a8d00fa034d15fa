----------------------------- MODULE JobPayment -----------------------------
(***************************************************************************)
(* One accepted job and its money: the job row, the change orders that     *)
(* move its price, the switch of its payment rail, its completion and its  *)
(* cancellation, over the Credit of JobCreditHold and the card of          *)
(* JobCardPayment.  The parties, the provider's webhooks, the scheduled    *)
(* workers and the work done after a commit interleave; a process may die  *)
(* with such work in memory, and a transaction may be rolled back after    *)
(* the provider has acted.                                                 *)
(***************************************************************************)
EXTENDS JobCreditHold, JobCardPayment

CONSTANTS
  AgreedPrices,    \* the prices the accepted bid may have
  MaxTurns,        \* bound: change orders proposed and switches requested
  MaxFaults        \* bound: crashes and rollbacks

ASSUME JobBounds ==
  /\ AgreedPrices \subseteq Prices
  /\ MaxTurns \in Nat /\ MaxFaults \in Nat

Rails == {"stripe", "credit", "offline"}
NoRail == "none"

VARIABLES
  status,        \* jobs.status
  price,         \* jobs.job_value_cents
  rail,          \* jobs.payment_rail
  escrow,        \* jobs.transaction_mode = 'guided_protected'
  requested,     \* the helper asked the customer to confirm completion
  proposed,      \* price of the undecided change order, 0: none
  switchTo,      \* rail of the pending switch request
  disputed,      \* a dispute is open
  giveBack,      \* in memory: onCancelled has yet to run
  used           \* how much of each bound is used

jobVars == <<status, price, rail, escrow, requested, proposed, switchTo,
             disputed, giveBack, used>>
vars == <<jobVars, creditVars, cardVars>>

JobTypeOK ==
  /\ status \in {"accepted", "in_progress", "completed", "cancelled"}
  /\ price \in Prices
  /\ rail \in Rails
  /\ escrow \in BOOLEAN /\ requested \in BOOLEAN
  /\ proposed \in 0 .. MaxPrice
  /\ switchTo \in Rails \cup {NoRail}
  /\ disputed \in BOOLEAN /\ giveBack \in BOOLEAN
  /\ used \in [turns : 0 .. MaxTurns, faults : 0 .. MaxFaults]

TypeOK == JobTypeOK /\ CreditTypeOK /\ CardTypeOK

(* The bid has been accepted and the rail chosen; a hire on the Credit     *)
(* rail commits with its hold or not at all (applyAcceptance).             *)
Init ==
  /\ status = "accepted" /\ price \in AgreedPrices
  /\ escrow = FALSE /\ requested = FALSE
  /\ proposed = 0 /\ switchTo = NoRail
  /\ disputed = FALSE /\ giveBack = FALSE
  /\ used = [turns |-> 0, faults |-> 0]
  /\ CardInit
  /\ \/ rail \in {"stripe", "offline"} /\ CreditInit
     \/ /\ rail = "credit"
        /\ MaxHolds > 0
        /\ reserved = price
        /\ hold = [h \in Holds |-> IF h = 1
                     THEN [status |-> "active", amount |-> price]
                     ELSE [status |-> "none", amount |-> 0]]
        /\ row = [h \in Holds |-> IF h = 1 THEN "held" ELSE "none"]
        /\ holdId = 1 /\ creditDue = 0

-----------------------------------------------------------------------------
(* assertNoPendingAdjustment on the job row.                               *)
NoAdjustmentDue == cardFlag = "none" /\ creditDue = 0

Turn == used.turns < MaxTurns /\ used' = [used EXCEPT !.turns = @ + 1]
Fault == used.faults < MaxFaults /\ used' = [used EXCEPT !.faults = @ + 1]

CardStep(A) ==
  A /\ UNCHANGED <<jobVars, creditVars>>
CreditStep(A) ==
  A /\ UNCHANGED <<jobVars, cardVars>>

StartJob ==
  /\ status = "accepted"
  /\ status' = "in_progress"
  /\ UNCHANGED <<price, rail, escrow, requested, proposed, switchTo, disputed,
                 giveBack, used, creditVars, cardVars>>

-----------------------------------------------------------------------------
(* A party proposes a change order on the work agreement ...               *)
ProposeChange ==
  /\ proposed = 0
  /\ Turn
  /\ \E p \in Prices \ {price} : proposed' = p
  /\ UNCHANGED <<status, price, rail, escrow, requested, switchTo, disputed,
                 giveBack, creditVars, cardVars>>

(* ... and the other one decides: an approval applies the price to the     *)
(* job, the card payment and the Credit in one transaction, whatever the   *)
(* status of the job.                                                      *)
DecideChange(approve) ==
  /\ proposed # 0
  /\ proposed' = 0
  /\ IF approve
       THEN price' = proposed /\ RepriceCard(proposed) /\ RepriceCredit(proposed)
       ELSE UNCHANGED <<price, cardVars, creditVars>>
  /\ UNCHANGED <<status, rail, escrow, requested, switchTo, disputed, giveBack, used>>

-----------------------------------------------------------------------------
RequestSwitch(to) ==
  /\ status = "accepted"
  /\ switchTo = NoRail
  /\ to # rail
  /\ Turn
  /\ switchTo' = to
  /\ UNCHANGED <<status, price, rail, escrow, requested, proposed, disputed,
                 giveBack, creditVars, cardVars>>

(* Declined, canceled or expired.                                          *)
DropSwitch ==
  /\ switchTo # NoRail
  /\ switchTo' = NoRail
  /\ UNCHANGED <<status, price, rail, escrow, requested, proposed, disputed,
                 giveBack, used, creditVars, cardVars>>

(* respondToSwitch, accepted: unwind the old rail, set up the new one.     *)
AcceptSwitch ==
  /\ switchTo # NoRail
  /\ status = "accepted"
  /\ rail' = switchTo
  /\ switchTo' = NoRail
  /\ IF rail = "stripe"
       THEN LeaveCardRail /\ escrow' = FALSE
       ELSE UNCHANGED <<cardVars, escrow>>
  /\ CASE switchTo = "credit" -> \E h \in Unused : PlacePaymentHold(h, price)
       [] rail = "credit"     -> ReleasePayment
       [] OTHER               -> UNCHANGED creditVars
  /\ UNCHANGED <<status, price, requested, proposed, disputed, giveBack, used>>

-----------------------------------------------------------------------------
(* createPaymentIntent: refused for a job that has ended.                  *)
QuotePayment ==
  /\ status \in {"accepted", "in_progress"}
  /\ CardStep(ReadPrice(price))

CreatePayment ==
  /\ InsertPayment
  /\ escrow' = TRUE
  /\ UNCHANGED <<status, price, rail, requested, proposed, switchTo, disputed,
                 giveBack, used, creditVars>>

-----------------------------------------------------------------------------
(* completeJob by the helper of an escrow job: the customer is asked.      *)
RequestCompletion ==
  /\ status = "in_progress" /\ ~requested
  /\ NoAdjustmentDue
  /\ escrow /\ payment.status = "authorized"
  /\ requested' = TRUE
  /\ UNCHANGED <<status, price, rail, escrow, proposed, switchTo, disputed,
                 giveBack, used, creditVars, cardVars>>

(* The customer completes an escrow job, or the helper's request confirms  *)
(* itself when its window is over.  The latter does not ask for flags.     *)
StartCapture(who) ==
  /\ status = "in_progress"
  /\ escrow
  /\ IF who = "auto" THEN requested ELSE NoAdjustmentDue
  /\ proposed = 0
  /\ ~disputed
  /\ CardStep(CaptureAtProvider(who))

(* The customer's completion of a Credit job captures the hold.  The       *)
(* confirmation that runs by itself reads the job without its rail.        *)
SettlesCredit(who) == who = "customer" /\ rail = "credit"

(* The rest of completeJobCore, after the provider's capture: a job that   *)
(* changed meanwhile, or a Credit hold that can not be captured, rolls the *)
(* whole transaction back.                                                 *)
FinishCapture ==
  /\ completing # "no"
  /\ IF status = "in_progress" /\ NoAdjustmentDue
        /\ (SettlesCredit(completing) => CaptureAccepted /\ \E h \in HeldRows : Active(h))
       THEN /\ status' = "completed"
            /\ CommitCapture
            /\ IF SettlesCredit(completing) THEN CapturePayment
                                            ELSE UNCHANGED creditVars
       ELSE AbandonCapture /\ UNCHANGED <<status, creditVars>>
  /\ UNCHANGED <<price, rail, escrow, requested, proposed, switchTo, disputed,
                 giveBack, used>>

(* completeJob when no card is to be captured: no escrow, escrow captured  *)
(* before, or the helper's word on a job whose card is not authorized.     *)
NothingToCapture(who) ==
  \/ ~escrow
  \/ who = "customer" /\ payment.status = "captured"
  \/ who = "helper" /\ payment.status # "authorized"

CompleteJob(who) ==
  /\ status = "in_progress"
  /\ NoAdjustmentDue
  /\ proposed = 0
  /\ NothingToCapture(who)
  /\ rail = "credit" => HeldRows # {}
  /\ IF SettlesCredit(who)
       THEN IF ~disputed /\ CaptureAccepted
              THEN CapturePayment /\ status' = "completed"
              ELSE UNCHANGED <<creditVars, status>>
       ELSE status' = "completed" /\ UNCHANGED creditVars
  /\ UNCHANGED <<price, rail, escrow, requested, proposed, switchTo, disputed,
                 giveBack, used, cardVars>>

(* releaseDueCreditPayments: the helper marked the job complete and the    *)
(* review window is over.                                                  *)
AutoRelease ==
  /\ status = "completed" /\ rail = "credit" /\ ~disputed
  /\ HeldRows # {}
  /\ IF CaptureAccepted THEN CreditStep(CapturePayment) ELSE UNCHANGED vars

-----------------------------------------------------------------------------
(* cancelJobTransaction, and finalizeJobCancellation in memory after it.   *)
CancelJob ==
  /\ status \in {"accepted", "in_progress"}
  /\ status' = "cancelled"
  /\ giveBack' = TRUE
  /\ UNCHANGED <<price, rail, escrow, requested, proposed, switchTo, disputed,
                 used, creditVars, cardVars>>

(* onCancelled                                                             *)
GiveCreditBack ==
  /\ giveBack
  /\ giveBack' = FALSE
  /\ ReleasePayment
  /\ UNCHANGED <<status, price, rail, escrow, requested, proposed, switchTo,
                 disputed, used, cardVars>>

(* A dispute is opened, at any time, or withdrawn or resolved.             *)
Dispute ==
  /\ disputed' = ~disputed
  /\ UNCHANGED <<status, price, rail, escrow, requested, proposed, switchTo,
                 giveBack, used, creditVars, cardVars>>

-----------------------------------------------------------------------------
(* The process dies with a give-back or an intent to cancel in memory, or  *)
(* the transaction of a completion is rolled back.                         *)
LoseGiveBack ==
  /\ giveBack /\ Fault
  /\ giveBack' = FALSE
  /\ UNCHANGED <<status, price, rail, escrow, requested, proposed, switchTo,
                 disputed, creditVars, cardVars>>

(* The card's authorization window ends.                                   *)
Lapse(i) ==
  /\ Fault /\ AuthorizationLapses(i)
  /\ UNCHANGED <<status, price, rail, escrow, requested, proposed, switchTo,
                 disputed, giveBack, creditVars>>

LoseCancellation(i) ==
  /\ Fault /\ LoseRelease(i)
  /\ UNCHANGED <<status, price, rail, escrow, requested, proposed, switchTo,
                 disputed, giveBack, creditVars>>

RollBackCapture ==
  /\ completing # "no" /\ Fault
  /\ AbandonCapture
  /\ UNCHANGED <<status, price, rail, escrow, requested, proposed, switchTo,
                 disputed, giveBack, creditVars>>

Next ==
  \/ StartJob \/ CancelJob \/ Dispute
  \/ ProposeChange \/ \E approve \in BOOLEAN : DecideChange(approve)
  \/ (\E to \in Rails : RequestSwitch(to)) \/ DropSwitch \/ AcceptSwitch
  \/ QuotePayment \/ CreatePayment
  \/ RequestCompletion \/ FinishCapture
  \/ \E who \in {"customer", "auto"} : StartCapture(who)
  \/ \E who \in {"customer", "helper"} : CompleteJob(who)
  \/ AutoRelease \/ GiveCreditBack
  \/ CardStep(RepriceIntent) \/ CardStep(RepriceBecomesReplacement)
  \/ CardStep(StartAttempt)
  \/ \E i \in Intents :
       \/ CardStep(CustomerConfirms(i)) \/ Lapse(i)
       \/ CardStep(ResumeAttempt(i)) \/ CardStep(ConfirmAttempt(i))
       \/ CardStep(ExpireAttempt(i)) \/ CardStep(RunRelease(i))
       \/ CardStep(DeliverAuthorized(i)) \/ CardStep(DeliverCanceled(i))
       \/ CardStep(DeliverCaptured(i))
       \/ LoseCancellation(i)
  \/ \E h \in Holds : CreditStep(EndHold(h))
  \/ CreditStep(AuthorizeWithCredit)
  \/ LoseGiveBack \/ RollBackCapture

Spec == Init /\ [][Next]_vars

-----------------------------------------------------------------------------
(* An active hold is the one its job points to and has a held row: every   *)
(* way to give the money back finds it.  Replacement, release and expiry   *)
(* write the three in different transactions.                              *)
HoldHasItsRow ==
  \A h \in Holds : Active(h) => row[h] = "held" /\ holdId = h

(* What the wallet reserves for the job is its one active hold, however    *)
(* often change orders replaced it, however it ended.                      *)
ReservedIsTheHold ==
  reserved = IF Active(holdId) THEN hold[holdId].amount ELSE 0

(* While the job is open it has a held Credit row exactly when it is on    *)
(* the Credit rail: a switch neither leaves money behind nor starts        *)
(* without it, and assertCompletable never stops a Credit job.             *)
HeldRowIffCreditRail ==
  status \in {"accepted", "in_progress"} => (rail = "credit" <=> HeldRows # {})

(* Unless a process dies, no authorization of the customer's card is       *)
(* forgotten: it backs the row or an open attempt, it is about to be       *)
(* canceled, or the webhook that will see to it is on its way.             *)
NoForgottenAuthorization ==
  used.faults = 0 =>
    \A i \in Intents : intent[i].state = "authorized" =>
      \/ i = payment.intent \/ attempt[i] = "pending"
      \/ i \in releasing \/ <<"authorized", i>> \in events

(* Once captured, a row stays as it is: no late or reordered webhook,      *)
(* change order or re-authorization moves it again.                        *)
CapturedIsFinal ==
  [][payment.status = "captured" => payment' = payment]_vars

(* "a replacement manual-capture PaymentIntent for the full new amount"    *)
(* (jobPaymentReauthorizationService.js:9): after a re-authorization the   *)
(* card is authorized for the price that was agreed.  Violated: a price    *)
(* reduced after the customer confirmed the card and before the webhook    *)
(* came is re-authorized at the old amount.                                *)
ReauthorizedForNewPrice ==
  payment.status = "authorized" /\ attempt[payment.intent] = "authorized"
    /\ cardFlag = "none"
      => CaptureAmount = price
=============================================================================
