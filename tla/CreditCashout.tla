---------------------------- MODULE CreditCashout ----------------------------
(***************************************************************************)
(* Cash-out requests of one helper: the request, the leased submission     *)
(* worker, settlement, review, cancellation, and the payout destinations   *)
(* they go to (creditCashoutService.js, creditPayoutDestinationService.js).*)
(* What submitting means depends on the payout partner and is added by the *)
(* modules that extend this one: InHouseCashout and PartnerCashout.        *)
(*                                                                         *)
(* Time is abstracted: a lease is live or has expired, a destination is    *)
(* cooling off or cooled.  Refusals that only say "not now" (flags,        *)
(* KYC, sanctions, caps) are the step not being taken.                     *)
(***************************************************************************)
EXTENDS HelperLedger

CONSTANTS
  Destinations,       \* payout destinations of the helper, all verified
  DestOf,             \* the destination of each request
  Workers,            \* processes that may run processCashouts
  Tokens, NoToken,    \* lease tokens and SQL NULL
  MaxSubmitAttempts   \* MAX_SUBMIT_ATTEMPTS

ASSUME DestOfType == DestOf \in [Requests -> Destinations]
ASSUME NoTokenFresh == NoToken \notin Tokens
ASSUME MaxSubmitAttemptsNat == MaxSubmitAttempts \in Nat \ {0}

VARIABLES
  status,       \* credit_cashout_requests.status, "none" before the insert
  reviewReason, \* review_reason: none, a real-time rule, or unknown outcome
  attempts,     \* submit_attempts, saturated one above MaxSubmitAttempts
  lease,        \* lease_token
  leaseLive,    \* lease_expires_at >= NOW()
  dueNow,       \* available_at was already NOW() when the row was inserted
  destStatus,   \* credit_payout_destinations.status
  disabling,    \* disableDestination has seen no open cash-out, not written
  cooled,       \* cooling_off_until <= NOW()
  firstPaid,    \* first_payout_at is set
  configured,   \* partner.isConfigured() in the environment of a process
  token,        \* the lease token each worker claimed its batch with
  batch         \* rows a worker still has to submit: attempts seen, or 0

rowVars    == <<status, reviewReason, attempts, lease, leaseLive, dueNow>>
destVars   == <<destStatus, disabling, cooled, firstPaid>>
workerVars == <<token, batch>>
coreVars   == <<ledgerVars, rowVars, destVars, configured, workerVars>>

Status == {"none", "requested", "held_for_review", "submitting", "submitted",
           "paid", "failed", "rejected", "canceled"}
OpenStatuses == {"requested", "held_for_review", "submitting", "submitted"}
Terminal == {"paid", "failed", "rejected", "canceled"}
AttemptCount == 0 .. MaxSubmitAttempts + 1

CoreTypeOK ==
  /\ LedgerTypeOK
  /\ status \in [Requests -> Status]
  /\ reviewReason \in [Requests -> {"none", "rule", "partner_outcome_unknown"}]
  /\ attempts \in [Requests -> AttemptCount]
  /\ lease \in [Requests -> Tokens \cup {NoToken}]
  /\ leaseLive \in [Requests -> BOOLEAN]
  /\ dueNow \in [Requests -> BOOLEAN]
  /\ destStatus \in [Destinations -> {"verified", "disabled"}]
  /\ disabling \in [Destinations -> BOOLEAN]
  /\ cooled \in [Destinations -> BOOLEAN]
  /\ firstPaid \in [Destinations -> BOOLEAN]
  /\ configured \in [Workers -> BOOLEAN]
  /\ token \in [Workers -> Tokens \cup {NoToken}]
  /\ batch \in [Workers -> [Requests -> AttemptCount]]

CoreInit ==
  /\ LedgerInit
  /\ status = [r \in Requests |-> "none"]
  /\ reviewReason = [r \in Requests |-> "none"]
  /\ attempts = [r \in Requests |-> 0]
  /\ lease = [r \in Requests |-> NoToken]
  /\ leaseLive = [r \in Requests |-> FALSE]
  /\ dueNow = [r \in Requests |-> FALSE]
  /\ destStatus = [d \in Destinations |-> "verified"]
  /\ disabling = [d \in Destinations |-> FALSE]
  /\ cooled = [d \in Destinations |-> FALSE]
  /\ firstPaid = [d \in Destinations |-> FALSE]
  /\ configured = [w \in Workers |-> TRUE]
  /\ token = [w \in Workers |-> NoToken]
  /\ batch = [w \in Workers |-> [r \in Requests |-> 0]]

-----------------------------------------------------------------------------
(* Requesting, reviewing and canceling.                                    *)

(* requestCashout: one transaction under the user's advisory lock and the  *)
(* destination's row lock.  A real-time rule may hold the request.  The    *)
(* first payout to a destination waits for its cooling-off.  Replays of an *)
(* idempotency key return the existing row and change nothing.             *)
RequestCashout(r) ==
  LET d == DestOf[r] IN
  /\ status[r] = "none"
  /\ \E w \in Workers : configured[w]
  /\ destStatus[d] = "verified"
  /\ \E rule \in {"none", "rule"} :
       /\ reviewReason' = [reviewReason EXCEPT ![r] = rule]
       /\ status' = [status EXCEPT
            ![r] = IF rule = "none" THEN "requested" ELSE "held_for_review"]
  /\ dueNow' = [dueNow EXCEPT ![r] = firstPaid[d] \/ cooled[d]]
  /\ ReserveFunds(r)
  /\ UNCHANGED <<balance, journal, netOther, attempts, lease, leaseLive,
                 destVars, configured, workerVars>>

(* cancelCashout: the owner, and only while the request waits.             *)
CancelCashout(r) ==
  /\ status[r] = "requested"
  /\ ReleaseReservation(r)
  /\ status' = [status EXCEPT ![r] = "canceled"]
  /\ UNCHANGED <<balance, journal, netOther, reviewReason, attempts, lease,
                 leaseLive, dueNow, destVars, configured, workerVars>>

(* Mutants of RejectHeld: the failure code ends up in the status; the      *)
(* funds are not released; the unknown outcome is not looked at.           *)
RejectWritesCode(r) ==
  /\ status[r] = "held_for_review"
  /\ status' = [status EXCEPT ![r] = "rejected_after_review"]
  /\ UNCHANGED <<ledgerVars, reviewReason, attempts, lease, leaseLive, dueNow,
                 destVars, configured, workerVars>>
RejectKeepsFunds(r) ==
  /\ status[r] = "held_for_review"
  /\ reviewReason[r] # "partner_outcome_unknown"
  /\ status' = [status EXCEPT ![r] = "rejected"]
  /\ UNCHANGED <<ledgerVars, reviewReason, attempts, lease, leaseLive, dueNow,
                 destVars, configured, workerVars>>
RejectUnknownToo(r) ==
  /\ status[r] = "held_for_review"
  /\ ReleaseReservation(r)
  /\ status' = [status EXCEPT ![r] = "rejected"]
  /\ UNCHANGED <<balance, journal, netOther, reviewReason, attempts, lease,
                 leaseLive, dueNow, destVars, configured, workerVars>>

(* rejectHeldCashout: a single administrator, but not when the partner may *)
(* already have paid.                                                      *)
RejectHeld(r) ==
  /\ status[r] = "held_for_review"
  /\ reviewReason[r] # "partner_outcome_unknown"
  /\ ReleaseReservation(r)
  /\ status' = [status EXCEPT ![r] = "rejected"]
  /\ UNCHANGED <<balance, journal, netOther, reviewReason, attempts, lease,
                 leaseLive, dueNow, destVars, configured, workerVars>>

(* Mutant of ReleaseHeld: a reviewed request becomes due at once.          *)
ReleaseMakesDue(r) ==
  /\ status[r] = "held_for_review"
  /\ status' = [status EXCEPT
       ![r] = IF reviewReason[r] = "partner_outcome_unknown"
              THEN "submitted" ELSE "requested"]
  /\ reviewReason' = [reviewReason EXCEPT ![r] = "none"]
  /\ dueNow' = [dueNow EXCEPT ![r] = TRUE]
  /\ UNCHANGED <<ledgerVars, attempts, lease, leaseLive, destVars, configured,
                 workerVars>>

(* releaseHeldCashout, after two administrators: an unknown outcome is     *)
(* polled again, anything else is queued for submission.                   *)
ReleaseHeld(r) ==
  /\ status[r] = "held_for_review"
  /\ status' = [status EXCEPT
       ![r] = IF reviewReason[r] = "partner_outcome_unknown"
              THEN "submitted" ELSE "requested"]
  /\ reviewReason' = [reviewReason EXCEPT ![r] = "none"]
  /\ UNCHANGED <<ledgerVars, attempts, lease, leaseLive, dueNow, destVars,
                 configured, workerVars>>

-----------------------------------------------------------------------------
(* Settlement: settleInTransaction, a fragment of its caller's transaction.*)
(* leaseToken NoToken is a caller without a lease (poll, bank rail).       *)

(* Mutant of CanSettle: the status is not checked again under the lock.    *)
CanSettleAny(r, leaseToken) ==
  (leaseToken # NoToken /\ status[r] = "submitting") => lease[r] = leaseToken

CanSettle(r, leaseToken) ==
  /\ status[r] \in {"requested", "submitting", "submitted"}
  /\ (leaseToken # NoToken /\ status[r] = "submitting")
       => lease[r] = leaseToken

ClearLease(r) ==
  /\ lease' = [lease EXCEPT ![r] = NoToken]
  /\ leaseLive' = [leaseLive EXCEPT ![r] = FALSE]

(* Mutants of SettlePaid: no journal; no release of the reservation.       *)
SettlePaidUnposted(r) ==
  /\ ReleaseReservation(r)
  /\ status' = [status EXCEPT ![r] = "paid"]
  /\ firstPaid' = [firstPaid EXCEPT ![DestOf[r]] = TRUE]
  /\ UNCHANGED <<balance, journal>>
SettlePaidStillReserved(r) ==
  /\ PostCashOutJournal(r)
  /\ status' = [status EXCEPT ![r] = "paid"]
  /\ firstPaid' = [firstPaid EXCEPT ![DestOf[r]] = TRUE]
  /\ UNCHANGED <<reserved, reservation>>

SettlePaid(r) ==
  /\ ReleaseReservation(r)
  /\ PostCashOutJournal(r)
  /\ status' = [status EXCEPT ![r] = "paid"]
  /\ firstPaid' = [firstPaid EXCEPT ![DestOf[r]] = TRUE]

SettleFailed(r) ==
  /\ ReleaseReservation(r)
  /\ status' = [status EXCEPT ![r] = "failed"]
  /\ UNCHANGED <<balance, journal, firstPaid>>

SettleSubmitted(r) ==
  /\ status' = [status EXCEPT ![r] = "submitted"]
  /\ UNCHANGED <<balance, reserved, reservation, journal, firstPaid>>

Settle(r, leaseToken, outcome) ==
  /\ IF CanSettle(r, leaseToken)
     THEN /\ CASE outcome = "paid"   -> SettlePaid(r)
               [] outcome = "failed" -> SettleFailed(r)
               [] OTHER              -> SettleSubmitted(r)
          /\ ClearLease(r)
     ELSE UNCHANGED <<balance, reserved, reservation, journal, status, lease,
                      leaseLive, firstPaid>>
  /\ UNCHANGED <<netOther, reviewReason, attempts, dueNow>>

-----------------------------------------------------------------------------
(* The worker.  The job that runs it holds a fenced job lock but never     *)
(* consults the fence, so two workers may overlap.                         *)

Due(r) == dueNow[r] \/ cooled[DestOf[r]]

(* Mutant of Claimable: rows whose lease expired are not taken up again.   *)
ClaimableOnce == {r \in Requests : status[r] = "requested" /\ Due(r)}

Claimable == {r \in Requests : \/ status[r] = "requested" /\ Due(r)
                               \/ status[r] = "submitting" /\ ~leaseLive[r]}

Saturated(n) == IF n > MaxSubmitAttempts THEN n ELSE n + 1

(* A UUID no row and no worker remembers.                                  *)
FreshTokens ==
  Tokens \ ({lease[r] : r \in Requests} \cup {token[w] : w \in Workers})

Idle(w) == \A r \in Requests : batch[w][r] = 0

(* claimDueCashouts: one UPDATE under SKIP LOCKED and a LIMIT, so any part *)
(* of the claimable rows, all with one new token.                          *)
ClaimDue(w) ==
  /\ Idle(w)
  /\ \E S \in SUBSET Claimable \ {{}}, t \in FreshTokens :
       /\ status' = [r \in Requests |->
                       IF r \in S THEN "submitting" ELSE status[r]]
       /\ lease' = [r \in Requests |-> IF r \in S THEN t ELSE lease[r]]
       /\ leaseLive' = [r \in Requests |-> r \in S \/ leaseLive[r]]
       /\ attempts' = [r \in Requests |->
                         IF r \in S THEN Saturated(attempts[r])
                         ELSE attempts[r]]
       /\ token' = [token EXCEPT ![w] = t]
       /\ batch' = [batch EXCEPT ![w] =
            [r \in Requests |-> IF r \in S THEN Saturated(attempts[r]) ELSE 0]]
  /\ UNCHANGED <<ledgerVars, reviewReason, dueNow, destVars, configured>>

Holds(w, r) == batch[w][r] # 0

(* The worker is done with a row; with its last row it forgets the token.  *)
DropFromBatch(w, r) ==
  /\ batch' = [batch EXCEPT ![w][r] = 0]
  /\ token' = [token EXCEPT
       ![w] = IF \A q \in Requests \ {r} : batch[w][q] = 0
              THEN NoToken ELSE @]

(* submitClaimed, partner switched off: the row goes back to the queue.    *)
GiveBack(w, r) ==
  /\ Holds(w, r)
  /\ ~configured[w]
  /\ IF lease[r] = token[w]
     THEN /\ status' = [status EXCEPT ![r] = "requested"]
          /\ ClearLease(r)
     ELSE UNCHANGED <<status, lease, leaseLive>>
  /\ DropFromBatch(w, r)
  /\ UNCHANGED <<ledgerVars, reviewReason, attempts, dueNow, destVars,
                 configured>>

(* submitClaimed, too many attempts: holdUnknownOutcome, if still ours.    *)
HoldUnknownOutcome(w, r) ==
  /\ Holds(w, r)
  /\ configured[w]
  /\ batch[w][r] > MaxSubmitAttempts
  /\ IF status[r] = "submitting" /\ lease[r] = token[w]
     THEN /\ status' = [status EXCEPT ![r] = "held_for_review"]
          /\ reviewReason' =
               [reviewReason EXCEPT ![r] = "partner_outcome_unknown"]
          /\ ClearLease(r)
     ELSE UNCHANGED <<status, reviewReason, lease, leaseLive>>
  /\ DropFromBatch(w, r)
  /\ UNCHANGED <<ledgerVars, attempts, dueNow, destVars, configured>>

(* A submission that throws is logged; the lease stays and expires.        *)
SubmitError(w, r) ==
  /\ Holds(w, r)
  /\ configured[w]
  /\ DropFromBatch(w, r)
  /\ UNCHANGED <<ledgerVars, rowVars, destVars, configured>>

(* The process dies: its batch is lost, the leases it took remain.         *)
WorkerCrash(w) ==
  /\ ~Idle(w)
  /\ batch' = [batch EXCEPT ![w] = [r \in Requests |-> 0]]
  /\ token' = [token EXCEPT ![w] = NoToken]
  /\ UNCHANGED <<ledgerVars, rowVars, destVars, configured>>

-----------------------------------------------------------------------------
(* The environment: time, configuration, other postings, destinations.     *)

LeaseExpires(r) ==
  /\ leaseLive[r]
  /\ leaseLive' = [leaseLive EXCEPT ![r] = FALSE]
  /\ UNCHANGED <<ledgerVars, status, reviewReason, attempts, lease, dueNow,
                 destVars, configured, workerVars>>

CoolingOffEnds(d) ==
  /\ ~cooled[d]
  /\ cooled' = [cooled EXCEPT ![d] = TRUE]
  /\ UNCHANGED <<ledgerVars, rowVars, destStatus, disabling, firstPaid,
                 configured, workerVars>>

(* A process restarts with a changed environment.  Deployments roll, so    *)
(* processes may disagree for a while.                                     *)
SwitchPartner(w) ==
  /\ Idle(w)
  /\ configured' = [configured EXCEPT ![w] = ~@]
  /\ UNCHANGED <<ledgerVars, rowVars, destVars, workerVars>>

OtherPosting ==
  /\ \E a \in Movements : PostEarning(a) \/ PostDebit(a)
  /\ UNCHANGED <<rowVars, destVars, configured, workerVars>>

(* disableDestination: a SELECT for open cash-outs without a lock ...      *)
DisableCheck(d) ==
  /\ destStatus[d] = "verified"
  /\ ~disabling[d]
  /\ \A r \in Requests : DestOf[r] = d => status[r] \notin OpenStatuses
  /\ disabling' = [disabling EXCEPT ![d] = TRUE]
  /\ UNCHANGED <<ledgerVars, rowVars, destStatus, cooled, firstPaid,
                 configured, workerVars>>

(* ... then the UPDATE, which does not look again.                         *)
DisableWrite(d) ==
  /\ disabling[d]
  /\ destStatus' = [destStatus EXCEPT ![d] = "disabled"]
  /\ disabling' = [disabling EXCEPT ![d] = FALSE]
  /\ UNCHANGED <<ledgerVars, rowVars, cooled, firstPaid, configured,
                 workerVars>>

RequestStep ==
  \E r \in Requests :
    RequestCashout(r) \/ CancelCashout(r) \/ RejectHeld(r) \/ ReleaseHeld(r)

WorkerStep(w) ==
  \/ ClaimDue(w)
  \/ SwitchPartner(w)
  \/ \E r \in Requests :
       GiveBack(w, r) \/ HoldUnknownOutcome(w, r) \/ SubmitError(w, r)

EnvironmentStep ==
  \/ \E r \in Requests : LeaseExpires(r)
  \/ \E d \in Destinations :
       CoolingOffEnds(d) \/ DisableCheck(d) \/ DisableWrite(d)
  \/ OtherPosting

-----------------------------------------------------------------------------
(* A row carries a lease exactly while it is being submitted, so a token   *)
(* match alone (which is all the give-back update tests) never moves a row *)
(* that somebody else has settled, held or canceled meanwhile.             *)
LeaseOnlyWhileSubmitting ==
  \A r \in Requests : status[r] = "submitting" <=> lease[r] # NoToken

(* The reservation of a request lives exactly as long as the request is    *)
(* open: no path ends a request and keeps the helper's money reserved, or  *)
(* frees the money of a request that may still be paid.                    *)
OpenIffReserved ==
  \A r \in Requests : /\ status[r] \in OpenStatuses <=> reservation[r] = "active"
                      /\ status[r] \in Terminal <=> reservation[r] = "released"

(* The cash_out journal is posted for the paid requests and for no other.  *)
PaidIffPosted == \A r \in Requests : status[r] = "paid" <=> r \in journal

(* A worker whose batch token still matches the row saw the row's current  *)
(* attempt count: a late worker can neither reset nor skip the limit.      *)
FencedBatchIsCurrent ==
  \A w \in Workers, r \in Requests :
    (Holds(w, r) /\ token[w] # NoToken /\ lease[r] = token[w])
       => batch[w][r] = attempts[r]

(* A finished request never changes again.                                 *)
TerminalIsFinal ==
  [][\A r \in Requests : status[r] \in Terminal => status'[r] = status[r]]_status

(* What a helper is promised, whichever rail pays.                         *)
Phase(s) ==
  CASE s = "none"         -> "none"
    [] s = "paid"         -> "paid"
    [] s \in OpenStatuses -> "pending"
    [] OTHER              -> "returned"

Promise == INSTANCE CashoutPromise
             WITH phase <- [r \in Requests |-> Phase(status[r])],
                  funds <- Available,
                  OpeningFunds <- OpeningBalance

(* The helper's view of money: a cash-out takes its amount once, and either*)
(* keeps it as paid out or gives exactly it back, once, whatever workers,  *)
(* reviewers and the owner do in between.                                  *)
PromiseKept == Promise!Spec
=============================================================================
