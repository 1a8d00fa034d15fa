--------------------------- MODULE InHouseCashout ---------------------------
(***************************************************************************)
(* Cash-outs paid by OxSteed's own bank payout rail                        *)
(* (creditBankPayoutService.js): submitting a claimed request files an     *)
(* instruction in the same transaction, an administrator exports pending   *)
(* instructions to the bank, and two different administrators confirm      *)
(* against the bank statement that the instruction was paid or returned.   *)
(***************************************************************************)
EXTENDS CreditCashout

CONSTANTS Admins, NoAdmin  \* administrators and SQL NULL

ASSUME NoAdminFresh == NoAdmin \notin Admins

VARIABLES
  instr,         \* credit_bank_payout_instructions.status, "none" if no row
  firstBy,       \* first_confirmed_by
  firstOutcome,  \* first_confirmed_outcome, "none" for NULL
  secondBy       \* second_confirmed_by

railVars == <<instr, firstBy, firstOutcome, secondBy>>
vars == <<coreVars, railVars>>

Outcomes == {"paid", "returned"}

TypeOK ==
  /\ CoreTypeOK
  /\ instr \in [Requests -> {"none", "pending_export", "exported"} \cup Outcomes]
  /\ firstBy \in [Requests -> Admins \cup {NoAdmin}]
  /\ firstOutcome \in [Requests -> {"none"} \cup Outcomes]
  /\ secondBy \in [Requests -> Admins \cup {NoAdmin}]

Init ==
  /\ CoreInit
  /\ instr = [r \in Requests |-> "none"]
  /\ firstBy = [r \in Requests |-> NoAdmin]
  /\ firstOutcome = [r \in Requests |-> "none"]
  /\ secondBy = [r \in Requests |-> NoAdmin]

-----------------------------------------------------------------------------
(* createInstruction: INSERT ... ON CONFLICT DO NOTHING by the request's   *)
(* partner_idempotency_key, so a second call is a replay.                  *)
CreateInstruction(r) ==
  instr' = [instr EXCEPT ![r] = IF @ = "none" THEN "pending_export" ELSE @]

(* Mutant of SubmitInHouse: the row is not read again before instructing.  *)
SubmitStale(w, r) ==
  /\ Holds(w, r)
  /\ configured[w]
  /\ batch[w][r] <= MaxSubmitAttempts
  /\ CreateInstruction(r)
  /\ Settle(r, token[w], "submitted")
  /\ DropFromBatch(w, r)
  /\ UNCHANGED <<destStatus, disabling, cooled, configured,
                 firstBy, firstOutcome, secondBy>>

(* submitClaimed on the in-house rail: one transaction that re-reads the   *)
(* row, files the instruction and settles as submitted.                    *)
SubmitInHouse(w, r) ==
  /\ Holds(w, r)
  /\ configured[w]
  /\ batch[w][r] <= MaxSubmitAttempts
  /\ IF status[r] = "submitting" /\ lease[r] = token[w]
     THEN IF destStatus[DestOf[r]] = "verified"
          THEN CreateInstruction(r) /\ Settle(r, token[w], "submitted")
          ELSE Settle(r, token[w], "failed") /\ UNCHANGED instr
     ELSE UNCHANGED <<ledgerVars, rowVars, firstPaid, instr>>
  /\ DropFromBatch(w, r)
  /\ UNCHANGED <<destStatus, disabling, cooled, configured,
                 firstBy, firstOutcome, secondBy>>

(* exportBatch: every pending instruction, in one transaction.             *)
ExportBatch ==
  /\ \E r \in Requests : instr[r] = "pending_export"
  /\ instr' = [r \in Requests |->
                 IF instr[r] = "pending_export" THEN "exported" ELSE instr[r]]
  /\ UNCHANGED <<coreVars, firstBy, firstOutcome, secondBy>>

FirstConfirmation(a, r, o) ==
  /\ instr[r] = "exported"
  /\ firstBy[r] = NoAdmin
  /\ firstBy' = [firstBy EXCEPT ![r] = a]
  /\ firstOutcome' = [firstOutcome EXCEPT ![r] = o]
  /\ UNCHANGED <<coreVars, instr, secondBy>>

ConflictingConfirmation(a, r, o) ==
  /\ instr[r] = "exported"
  /\ firstBy[r] \notin {NoAdmin, a}
  /\ firstOutcome[r] # o
  /\ firstBy' = [firstBy EXCEPT ![r] = NoAdmin]
  /\ firstOutcome' = [firstOutcome EXCEPT ![r] = "none"]
  /\ UNCHANGED <<coreVars, instr, secondBy>>

SettlementOf(o) == IF o = "paid" THEN "paid" ELSE "failed"

(* Mutant of SecondConfirmation: the first administrator may confirm again.*)
SecondBySamePerson(a, r, o) ==
  /\ instr[r] = "exported"
  /\ firstBy[r] # NoAdmin
  /\ firstOutcome[r] = o
  /\ instr' = [instr EXCEPT ![r] = o]
  /\ secondBy' = [secondBy EXCEPT ![r] = a]
  /\ Settle(r, NoToken, SettlementOf(o))
  /\ UNCHANGED <<destStatus, disabling, cooled, configured, workerVars,
                 firstBy, firstOutcome>>

(* The second, agreeing confirmation settles the cash-out (settlePurpose)  *)
(* in the transaction that finishes the instruction; the answer of         *)
(* settleInTransaction is not looked at.                                   *)
SecondConfirmation(a, r, o) ==
  /\ instr[r] = "exported"
  /\ firstBy[r] \notin {NoAdmin, a}
  /\ firstOutcome[r] = o
  /\ instr' = [instr EXCEPT ![r] = o]
  /\ secondBy' = [secondBy EXCEPT ![r] = a]
  /\ Settle(r, NoToken, SettlementOf(o))
  /\ UNCHANGED <<destStatus, disabling, cooled, configured, workerVars,
                 firstBy, firstOutcome>>

ConfirmInstruction(a, r, o) ==
  \/ FirstConfirmation(a, r, o)
  \/ ConflictingConfirmation(a, r, o)
  \/ SecondConfirmation(a, r, o)

(* processCashouts, second half: a row that was read as submitted is       *)
(* settled, without a lease, by what the instruction says meanwhile        *)
(* (getInstructionStatusByCashout; not finished means nothing to do).      *)
PollSubmitted(r) ==
  /\ instr[r] \in Outcomes
  /\ Settle(r, NoToken, SettlementOf(instr[r]))
  /\ UNCHANGED <<destStatus, disabling, cooled, configured, workerVars,
                 railVars>>

Rail ==
  \/ \E w \in Workers, r \in Requests : SubmitInHouse(w, r)
  \/ ExportBatch
  \/ \E r \in Requests :
       \/ PollSubmitted(r)
       \/ \E a \in Admins, o \in Outcomes : ConfirmInstruction(a, r, o)

Next ==
  \/ RequestStep /\ UNCHANGED railVars
  \/ \E w \in Workers : (WorkerStep(w) \/ WorkerCrash(w)) /\ UNCHANGED railVars
  \/ EnvironmentStep /\ UNCHANGED railVars
  \/ Rail

Spec == Init /\ [][Next]_vars

-----------------------------------------------------------------------------
(* The instruction and the cash-out never disagree: only a submitted       *)
(* request has an unfinished instruction, and what the two administrators  *)
(* confirmed is what the request ended as.  A late worker, a poll with an  *)
(* old reading or a second confirmation can not split them.                *)
InstructionMatchesRequest ==
  \A r \in Requests :
    /\ instr[r] \in {"pending_export", "exported"} => status[r] = "submitted"
    /\ instr[r] = "paid" <=> status[r] = "paid"
    /\ instr[r] = "returned" => status[r] = "failed"

(* Money moves on the word of two different administrators who reported    *)
(* the same outcome (CHECK credit_bank_payout_two_person).                 *)
TwoPersonRule ==
  \A r \in Requests : instr[r] \in Outcomes =>
    /\ {firstBy[r], secondBy[r]} \subseteq Admins
    /\ firstBy[r] # secondBy[r]
    /\ firstOutcome[r] = instr[r]

(* No first payout to a destination is even instructed before its          *)
(* cooling-off ended: neither a release from review nor a retried or       *)
(* returned claim shortens it.                                             *)
CoolingOffRespected ==
  \A r \in Requests : instr[r] # "none" => cooled[DestOf[r]]

-----------------------------------------------------------------------------
(* Fairness: time passes, every process runs its cron job again and again  *)
(* (a claim takes all due rows up to its limit, so any of them), and no    *)
(* process crashes, or outlives its lease, before every row it ever holds. *)
(* Submitting may fail every time; parking a row for review may not.       *)
(* Nothing is assumed of owners, reviewers, administrators or deployments. *)
ClaimOf(w, r) == ClaimDue(w) /\ batch'[w][r] # 0 /\ UNCHANGED railVars

HandleInTime(w, r) ==
  /\ lease[r] = token[w]
  /\ \/ GiveBack(w, r) /\ UNCHANGED railVars
     \/ HoldUnknownOutcome(w, r) /\ UNCHANGED railVars
     \/ SubmitInHouse(w, r)
     \/ /\ batch[w][r] <= MaxSubmitAttempts
        /\ SubmitError(w, r) /\ UNCHANGED railVars

Fairness ==
  /\ \A r \in Requests : WF_vars(LeaseExpires(r) /\ UNCHANGED railVars)
  /\ \A d \in Destinations : WF_vars(CoolingOffEnds(d) /\ UNCHANGED railVars)
  /\ \A w \in Workers, r \in Requests :
       SF_vars(ClaimOf(w, r)) /\ SF_vars(HandleInTime(w, r))

LiveSpec == Spec /\ Fairness

(* Once deployments have settled with the rail on, every accepted request  *)
(* gets to the bank rail, to a reviewer or to its end: crashes, failing    *)
(* submissions and expired leases do not lose it in the queue.             *)
QueueDrains ==
  <>[](\A w \in Workers : configured[w]) =>
    \A r \in Requests :
      (status[r] \in {"requested", "submitting"})
        ~> (status[r] \in {"submitted", "held_for_review"} \cup Terminal)
=============================================================================
