---------------------------- MODULE JobCreditHold ----------------------------
(***************************************************************************)
(* The Credit that pays for a job (paymentRails/creditRail.js over the     *)
(* holds of oxsteedCreditService.js): a hold reserves part of the          *)
(* customer's wallet, a row of job_credit_payments says that the job is    *)
(* paid by it, and the metadata of the job points to it.  The three are    *)
(* written by different handlers: the hold also ends on its own time       *)
(* (every hold has a time to live) or by its owner, without the row.       *)
(*                                                                         *)
(* The rest of the customer's wallet is external: what it can cover at a   *)
(* moment is a choice, and reserved is this job's share of reserved_cents. *)
(* A row belongs to the hold it was written for, so rows are indexed by    *)
(* holds.                                                                  *)
(***************************************************************************)
EXTENDS Naturals

CONSTANTS MaxHolds

ASSUME CreditBounds == MaxHolds \in Nat

Holds == 1 .. MaxHolds
NoHold == 0

VARIABLES
  reserved,   \* reserved_cents of the wallet
  hold,       \* oxsteed_credit_holds; "ended" is released or expired
  row,        \* status of the job_credit_payments row of each hold
  holdId,     \* metadata.creditPaymentHoldId of the job
  creditDue   \* metadata.creditAdjustmentAmountCents, 0: no flag

creditVars == <<reserved, hold, row, holdId, creditDue>>

HoldStatuses == {"none", "active", "ended", "captured"}
RowStatuses == {"none", "held", "captured", "released", "superseded"}

CreditTypeOK ==
  /\ reserved \in Nat
  /\ hold \in [Holds -> [status : HoldStatuses, amount : Nat]]
  /\ row \in [Holds -> RowStatuses]
  /\ holdId \in Holds \cup {NoHold}
  /\ creditDue \in Nat

CreditInit ==
  /\ reserved = 0
  /\ hold = [h \in Holds |-> [status |-> "none", amount |-> 0]]
  /\ row = [h \in Holds |-> "none"]
  /\ holdId = NoHold
  /\ creditDue = 0

-----------------------------------------------------------------------------
(* The id of the next hold; none when the bound MaxHolds is reached.       *)
Unused == {h \in Holds : /\ hold[h].status = "none"
                         /\ \A g \in Holds : g < h => hold[g].status # "none"}
Active(h) == h \in Holds /\ hold[h].status = "active"
HeldRows == {h \in Holds : row[h] = "held"}

-----------------------------------------------------------------------------
(* placePaymentHold, in the transaction that moves the job to Credit.  A   *)
(* wallet that can not cover the amount refuses the whole transaction, and *)
(* the unique index allows one held row.                                   *)
PlacePaymentHold(h, amount) ==
  /\ h \in Unused
  /\ HeldRows = {}
  /\ reserved' = reserved + amount
  /\ hold' = [hold EXCEPT ![h] = [status |-> "active", amount |-> amount]]
  /\ row' = [row EXCEPT ![h] = "held"]
  /\ holdId' = h
  /\ UNCHANGED creditDue

(* Mutant of ReleasePayment: the hold is left to its time to live.         *)
ReleaseRowOnly ==
  IF HeldRows = {}
    THEN UNCHANGED creditVars
    ELSE /\ row' = [h \in Holds |-> IF row[h] = "held" THEN "released" ELSE row[h]]
         /\ holdId' = NoHold
         /\ UNCHANGED <<reserved, hold, creditDue>>

(* releasePayment: cancellation or a switch to another rail.  A hold that  *)
(* ended meanwhile has nothing left to release.                            *)
ReleasePayment ==
  IF HeldRows = {}
    THEN UNCHANGED creditVars
    ELSE \E h \in HeldRows :
           /\ IF Active(h)
                THEN /\ hold' = [hold EXCEPT ![h].status = "ended"]
                     /\ reserved' = reserved - hold[h].amount
                ELSE UNCHANGED <<hold, reserved>>
           /\ row' = [row EXCEPT ![h] = "released"]
           /\ holdId' = NoHold
           /\ UNCHANGED creditDue

(* Mutant of ReplaceActiveHold: no row for the new hold.                   *)
ReplaceWithoutRow(h, amount) ==
  /\ hold' = [hold EXCEPT ![holdId].status = "ended",
                          ![h] = [status |-> "active", amount |-> amount]]
  /\ reserved' = (reserved - hold[holdId].amount) + amount
  /\ row' = [row EXCEPT ![holdId] = "superseded"]
  /\ holdId' = h
  /\ creditDue' = 0

(* replaceCreditCollateral for a hold that is still active: release it,    *)
(* place the new one and let the row follow.                               *)
ReplaceActiveHold(h, amount) ==
  /\ hold' = [hold EXCEPT ![holdId].status = "ended",
                          ![h] = [status |-> "active", amount |-> amount]]
  /\ reserved' = (reserved - hold[holdId].amount) + amount
  /\ row' = IF row[holdId] = "held"
              THEN [row EXCEPT ![holdId] = "superseded", ![h] = "held"]
              ELSE row
  /\ holdId' = h
  /\ creditDue' = 0

(* The Credit part of an approved change order.  Without a pointer the job *)
(* has no Credit; with a hold that has ended nothing is replaced and       *)
(* nothing is flagged; a wallet that can not cover the new price keeps the *)
(* old hold and asks the customer to add Credit.                           *)
RepriceCredit(amount) ==
  IF ~Active(holdId)
    THEN UNCHANGED creditVars
    ELSE \/ \E h \in Unused : ReplaceActiveHold(h, amount)
         \/ /\ creditDue' = amount
            /\ UNCHANGED <<reserved, hold, row, holdId>>

(* authorizeWithCredit: the customer added Credit and tries again.         *)
AuthorizeWithCredit ==
  /\ creditDue # 0
  /\ IF Active(holdId)
       THEN \E h \in Unused : ReplaceActiveHold(h, creditDue)
       ELSE /\ creditDue' = 0
            /\ UNCHANGED <<reserved, hold, row, holdId>>

(* Mutant of EndHold: the reservation stays.                               *)
EndHoldOnly(h) ==
  /\ Active(h)
  /\ hold' = [hold EXCEPT ![h].status = "ended"]
  /\ UNCHANGED <<reserved, row, holdId, creditDue>>

(* expireCreditHolds and releaseCreditHold: the time to live of the hold   *)
(* passes, or its owner releases it.  Neither looks at the job.            *)
EndHold(h) ==
  /\ Active(h)
  /\ hold' = [hold EXCEPT ![h].status = "ended"]
  /\ reserved' = reserved - hold[h].amount
  /\ UNCHANGED <<row, holdId, creditDue>>

(* captureCreditHoldInTransaction serves these actors; capturePayment is   *)
(* the customer's, whoever calls it.                                       *)
CaptureActor == "customer"
CaptureAccepted == CaptureActor \in {"admin", "system"}

(* capturePayment: the hold of the held row is captured for the smaller of *)
(* price and hold, what is left of the reservation is freed.  A hold that  *)
(* is overdue is expired instead, without an error.                        *)
CapturePayment ==
  \E h \in HeldRows, overdue \in BOOLEAN :
    /\ Active(h)
    /\ hold' = [hold EXCEPT ![h].status = IF overdue THEN "ended" ELSE "captured"]
    /\ reserved' = reserved - hold[h].amount
    /\ row' = [row EXCEPT ![h] = "captured"]
    /\ UNCHANGED <<holdId, creditDue>>
=============================================================================
