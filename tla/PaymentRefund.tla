--------------------------- MODULE PaymentRefund ---------------------------
(***************************************************************************)
(* The refunds of one card payment.  A refund is reserved as an attempt,   *)
(* asked of Stripe and settled in three steps that only the attempt's row  *)
(* ties together; a large one waits for the approval of a second           *)
(* administrator, whose decision runs the same three steps inside its own  *)
(* transaction; a worker finishes the attempts left pending; webhooks      *)
(* report Stripe's totals.  The resolution of a dispute refunds the same   *)
(* way, holding the dispute's row meanwhile.  A process may die between    *)
(* two steps, or lose its transaction and go on; a call may fail, an       *)
(* answer may be lost.                                                     *)
(***************************************************************************)
EXTENDS Integers, FiniteSets

CONSTANTS
  Refunds,          \* refund requests, each with its idempotency key
  DisputeRefunds,   \* those the resolution of the dispute asks for
  Asked,            \* cents asked for, 0: all that is left
  Amount,           \* payments.amount
  Threshold,        \* money_dual_approval_threshold_cents
  Handlers,         \* processes serving administrators
  Sweeper,          \* the process running the reconciliation job
  MaxTries,         \* MAX_RECONCILIATION_ATTEMPTS
  MaxFaults,        \* bound: crashes, failed calls, lost answers
  NoRefund          \* not a refund: the process serves none

ASSUME RefundAssumption ==
  /\ IsFiniteSet(Refunds)
  /\ DisputeRefunds \subseteq Refunds
  /\ NoRefund \notin Refunds /\ Sweeper \notin Handlers
  /\ Amount \in Nat \ {0} /\ Threshold \in Nat \ {0}
  /\ Asked \in [Refunds -> 0 .. Amount]
  /\ \A r \in DisputeRefunds : Asked[r] > 0
  /\ MaxTries \in Nat \ {0} /\ MaxFaults \in Nat

Procs == Handlers \cup {Sweeper}

VARIABLES
  payment,    \* payments: status, refunded_amount, escrow_status = 'disputed'
  dispute,    \* the job's dispute
  attempt,    \* payment_refund_attempts, one per request
  approval,   \* money_movement_approvals.status, one per request
  ledger,     \* platform_ledger: rows 'payment_refunded' of the attempt
  intent,     \* Stripe: the PaymentIntent
  refund,     \* Stripe: the refund made under the attempt's key
  first,      \* Stripe: what the key's first call was answered
  charged,    \* Stripe: amount_refunded of the charge
  totals,     \* Stripe: every amount_refunded there has been
  proc,       \* what each process is doing, with what it has read
  mover,      \* history: the operation that made Stripe move the money
  faults

rows == <<payment, dispute, attempt, approval, ledger>>
stripe == <<intent, refund, first, charged, totals>>
vars == <<rows, stripe, proc, mover, faults>>

(* An orphan was a request or a decision until the database ended the      *)
(* transaction around its refund.                                          *)
Ops == {"request", "decide", "sweep", "orphan"}
Stages == {"dispute", "reserve", "gate", "provider", "charge", "settle",
           "resolve", "commit", "giveup"}
RefundStates == {"none", "pending", "succeeded", "failed"}
Idle == [op |-> "none", at |-> "none", of |-> NoRefund, kind |-> "refund",
         known |-> FALSE, answer |-> "none", total |-> 0]

(* Stripe never gives back more than the charge.                           *)
UpToAmount == {n \in Int : n <= Amount}

TypeOK ==
  /\ payment \in [status : {"authorized", "captured", "refunded", "canceled"},
                  refunded : 0 .. Amount, disputed : BOOLEAN]
  /\ dispute \in {"none", "open", "resolved"}
  /\ attempt \in [Refunds -> [status : RefundStates, kind : {"refund", "void"},
                    amount : 0 .. Amount, known : BOOLEAN, tries : 0 .. MaxTries]]
  /\ approval \in [Refunds -> {"none", "pending", "rejected", "executed"}]
  /\ ledger \in [Refunds -> 0 .. 1]
  /\ intent \in {"held", "taken", "canceled"}
  /\ refund \in [Refunds -> RefundStates]
  /\ first \in [Refunds -> RefundStates]
  /\ charged \in UpToAmount
  /\ totals \subseteq UpToAmount
  /\ proc \in [Procs -> [op : Ops \cup {"none"}, at : Stages \cup {"none"},
                  of : Refunds \cup {NoRefund}, kind : {"refund", "void"},
                  known : BOOLEAN, answer : RefundStates \cup {"taken", "canceled"},
                  total : UpToAmount]]
  /\ mover \in [Refunds -> Ops \cup {"none"}]
  /\ faults \in 0 .. MaxFaults

Init ==
  /\ payment = [status |-> "authorized", refunded |-> 0, disputed |-> FALSE]
  /\ dispute = "none"
  /\ attempt = [r \in Refunds |-> [status |-> "none", kind |-> "refund",
                                   amount |-> 0, known |-> FALSE, tries |-> 0]]
  /\ approval = [r \in Refunds |-> "none"]
  /\ ledger = [r \in Refunds |-> 0]
  /\ intent = "held"
  /\ refund = [r \in Refunds |-> "none"] /\ first = [r \in Refunds |-> "none"]
  /\ charged = 0 /\ totals = {0}
  /\ proc = [p \in Procs |-> Idle]
  /\ mover = [r \in Refunds |-> "none"]
  /\ faults = 0

-----------------------------------------------------------------------------
(* Two row locks outlive a step: the approval's, for as long as its        *)
(* decision runs, and the dispute's, from the step at "dispute" to the     *)
(* one at "resolve".  An orphan holds neither.                             *)
ApprovalLocked(r) == \E q \in Procs : proc[q].op = "decide" /\ proc[q].of = r

HoldsDispute(q) ==
  /\ proc[q].of \in DisputeRefunds
  /\ proc[q].op \in {"request", "decide"}
  /\ proc[q].at \notin {"dispute", "commit"}

DisputeLocked == \E q \in Procs : HoldsDispute(q)

Waiting(p) ==
  \/ proc[p].at = "dispute" /\ DisputeLocked
  \/ proc[p].at = "gate" /\ ApprovalLocked(proc[p].of)

Goto(p, stage) == proc' = [proc EXCEPT ![p].at = stage]

(* An error: open transactions roll back and their locks are free.  The    *)
(* worker catches it and counts the try.                                   *)
Abort(p) ==
  proc' = [proc EXCEPT ![p] = IF @.op = "sweep" THEN [@ EXCEPT !.at = "giveup"]
                                                ELSE Idle]

(* The attempt is done with: what each caller does next.  A dispute is     *)
(* resolved only with the money back, else the resolver leaves it and the  *)
(* executor throws; an orphan has lost the connection it would go on with. *)
Finish(p, status) ==
  LET me == proc[p] IN
    proc' = [proc EXCEPT ![p] =
      CASE me.op \in {"request", "decide"} /\ me.of \in DisputeRefunds ->
             IF status = "succeeded" THEN [me EXCEPT !.at = "resolve"] ELSE Idle
        [] me.op = "decide" /\ me.of \notin DisputeRefunds -> [me EXCEPT !.at = "commit"]
        [] OTHER -> Idle]

Fault == faults < MaxFaults /\ faults' = faults + 1

-----------------------------------------------------------------------------
(* issueManualRefund and refundPayment take a request as it comes;         *)
(* resolveDispute looks first, without a lock, for a disputed payment it   *)
(* can refund.  The same request may be sent again at any time.            *)
Request(p, r) ==
  /\ proc[p] = Idle
  /\ r \in DisputeRefunds =>
       /\ dispute = "open" /\ payment.disputed
       /\ \/ payment.status = "captured"
          \/ payment.status = "authorized" /\ Asked[r] = Amount
  /\ proc' = [proc EXCEPT ![p] =
       [Idle EXCEPT !.op = "request", !.of = r,
                    !.at = IF r \in DisputeRefunds THEN "dispute" ELSE "reserve"]]
  /\ UNCHANGED <<rows, stripe, mover, faults>>

(* A second administrator approves: the decision locks the row and runs    *)
(* the executor of the movement.                                           *)
Approve(p, r) ==
  /\ proc[p] = Idle
  /\ approval[r] = "pending"
  /\ ~ ApprovalLocked(r)
  /\ proc' = [proc EXCEPT ![p] =
       [Idle EXCEPT !.op = "decide", !.of = r,
                    !.at = IF r \in DisputeRefunds THEN "dispute" ELSE "reserve"]]
  /\ UNCHANGED <<rows, stripe, mover, faults>>

Reject(r) ==
  /\ approval[r] = "pending"
  /\ ~ ApprovalLocked(r)
  /\ approval' = [approval EXCEPT ![r] = "rejected"]
  /\ UNCHANGED <<payment, dispute, attempt, ledger, stripe, proc, mover, faults>>

(* The job takes up an attempt that was left pending for 30 s: the request *)
(* that reserved it is past its gate by then, whatever became of it.       *)
Sweep(r) ==
  /\ proc[Sweeper] = Idle
  /\ attempt[r].status = "pending"
  /\ approval[r] = "none" => \A p \in Handlers : proc[p].of = r => proc[p].at # "gate"
  /\ attempt' = [attempt EXCEPT ![r].tries = IF @ < MaxTries THEN @ + 1 ELSE @]
  /\ proc' = [proc EXCEPT ![Sweeper] =
       [Idle EXCEPT !.op = "sweep", !.of = r, !.at = "provider",
                    !.kind = attempt[r].kind, !.known = attempt[r].known]]
  /\ UNCHANGED <<payment, dispute, approval, ledger, stripe, mover, faults>>

(* executeDisputeResolution locks the dispute first.                       *)
LockDispute(p) ==
  /\ proc[p].at = "dispute"
  /\ ~ DisputeLocked
  /\ IF dispute = "resolved" THEN Abort(p) ELSE Goto(p, "reserve")
  /\ UNCHANGED <<rows, stripe, mover, faults>>

-----------------------------------------------------------------------------
(* reservePaymentRefund: a key that is known returns its attempt as it is, *)
(* a new one is checked against the payment and the dispute.               *)
NewAmount(r) == IF Asked[r] = 0 THEN Amount - payment.refunded ELSE Asked[r]

Refundable(r) ==
  /\ payment.status \in {"authorized", "captured"}
  /\ dispute = "open" => r \in DisputeRefunds
  /\ NewAmount(r) \in 1 .. Amount - payment.refunded
  /\ payment.status = "authorized" => NewAmount(r) = Amount - payment.refunded

NewAttempt(r) ==
  [status |-> "pending", amount |-> NewAmount(r), known |-> FALSE, tries |-> 0,
   kind |-> IF payment.status = "authorized" THEN "void" ELSE "refund"]

(* Mutant of NeedsApproval: the threshold itself is let through.           *)
AboveThreshold(a) == a.amount > Threshold

NeedsApproval(a) == a.amount >= Threshold

(* What processPaymentRefund does with the attempt it has got.             *)
Proceed(p, a) ==
  LET me == [proc[p] EXCEPT !.kind = a.kind, !.known = a.known] IN
    CASE a.status = "succeeded" ->
           proc' = [proc EXCEPT ![p] =
             IF me.of \in DisputeRefunds THEN [me EXCEPT !.at = "resolve"]
             ELSE IF me.op = "decide" THEN [me EXCEPT !.at = "commit"]
             ELSE Idle]
      [] a.status # "succeeded" /\ me.op = "request" /\ NeedsApproval(a) ->
           proc' = [proc EXCEPT ![p] = [me EXCEPT !.at = "gate"]]
      [] OTHER -> proc' = [proc EXCEPT ![p] = [me EXCEPT !.at = "provider"]]

Reserve(p) ==
  LET r == proc[p].of IN
    /\ proc[p].at = "reserve"
    /\ \/ /\ attempt[r].status # "none"
          /\ Proceed(p, attempt[r])
          /\ UNCHANGED attempt
       \/ /\ attempt[r].status = "none" /\ Refundable(r)
          /\ attempt' = [attempt EXCEPT ![r] = NewAttempt(r)]
          /\ Proceed(p, NewAttempt(r))
       \/ /\ attempt[r].status = "none" /\ ~ Refundable(r)
          /\ Abort(p)
          /\ UNCHANGED attempt
    /\ UNCHANGED <<payment, dispute, approval, ledger, stripe, mover, faults>>

(* requestMoneyMovementApproval: queue the movement, or find it queued or  *)
(* decided already; nothing moves either way.                              *)
Gate(p) ==
  LET r == proc[p].of IN
    /\ proc[p].at = "gate"
    /\ ~ ApprovalLocked(r)
    /\ approval' = [approval EXCEPT ![r] = IF @ = "none" THEN "pending" ELSE @]
    /\ proc' = [proc EXCEPT ![p] = Idle]
    /\ UNCHANGED <<payment, dispute, attempt, ledger, stripe, mover, faults>>

-----------------------------------------------------------------------------
(* Stripe.  A refund is made once per key, from a charge that still covers *)
(* it; a repeated key is answered as the first time.                       *)
MakeRefund(r) ==
  /\ refund[r] = "none"
  /\ intent = "taken"
  /\ charged + attempt[r].amount <= Amount
  /\ charged' = charged + attempt[r].amount
  /\ totals' = totals \cup {charged'}
  /\ \E now \in {"pending", "succeeded"} :
       /\ refund' = [refund EXCEPT ![r] = now]
       /\ first' = [first EXCEPT ![r] = now]
  /\ UNCHANGED intent

CancelIntent ==
  /\ intent = "held"
  /\ intent' = "canceled"
  /\ UNCHANGED <<refund, first, charged, totals>>

(* The call moves money and is answered, or its answer is lost on the way. *)
MovesMoney(p) ==
  LET me == proc[p] IN
    /\ me.at = "provider"
    /\ IF me.kind = "void" THEN CancelIntent ELSE ~ me.known /\ MakeRefund(me.of)
    /\ mover' = [mover EXCEPT ![me.of] = me.op]
    /\ \/ /\ proc' = [proc EXCEPT ![p].answer =
                        IF me.kind = "void" THEN "canceled" ELSE first'[me.of],
                                   ![p].at =
                        IF me.kind = "refund" /\ first'[me.of] = "succeeded"
                          THEN "charge" ELSE "settle"]
          /\ UNCHANGED faults
       \/ Abort(p) /\ Fault
    /\ UNCHANGED rows

(* Mutant of Seen: a refund is always asked for by its key.                *)
SeenByKey(me) == IF me.kind = "void" THEN intent ELSE first[me.of]

(* Mutant of Seen: an intent that cannot be canceled is taken for canceled. *)
SeenCanceled(me) ==
  IF me.kind = "void" THEN "canceled"
  ELSE IF me.known THEN refund[me.of] ELSE first[me.of]

(* The intent as it is, a refund by its id as it is or by its key as it    *)
(* was.                                                                    *)
Seen(me) ==
  IF me.kind = "void" THEN intent
  ELSE IF me.known THEN refund[me.of] ELSE first[me.of]

(* The call finds the money moved already.                                 *)
FindsMoved(p) ==
  LET me == proc[p] IN
    /\ me.at = "provider"
    /\ Seen(me) \notin {"held", "none"}
    /\ proc' = [proc EXCEPT ![p].answer = Seen(me),
                            ![p].at = IF me.kind = "refund" /\ Seen(me) = "succeeded"
                                        THEN "charge" ELSE "settle"]
    /\ UNCHANGED <<rows, stripe, mover, faults>>

(* Stripe refuses: nothing is taken yet, or too little is left.            *)
Refused(p) ==
  LET me == proc[p] IN
    /\ me.at = "provider" /\ me.kind = "refund" /\ refund[me.of] = "none"
    /\ \/ intent # "taken"
       \/ charged + attempt[me.of].amount > Amount
    /\ Abort(p)
    /\ UNCHANGED <<rows, stripe, mover, faults>>

(* settlePaymentRefund asks for the charge's total before its transaction. *)
ReadTotal(p) ==
  /\ proc[p].at = "charge"
  /\ IF charged < attempt[proc[p].of].amount THEN Abort(p)
     ELSE proc' = [proc EXCEPT ![p].total = charged, ![p].at = "settle"]
  /\ UNCHANGED <<rows, stripe, mover, faults>>

-----------------------------------------------------------------------------
(* Mutant of LargerOf: a late total lowers the amount.                    *)
LatestOf(a, b) == b

LargerOf(a, b) == IF a > b THEN a ELSE b

(* Mutant of Settled: a settlement does not look for an earlier one.       *)
NeverSettled(r) == FALSE

Settled(r) == attempt[r].status = "succeeded"

(* settlePaymentRefund, its transaction.                                   *)
SettleRefund(p) ==
  LET me == proc[p]
      r == me.of
      next == LargerOf(payment.refunded, me.total)
  IN
    /\ me.at = "settle" /\ me.kind = "refund"
    /\ IF Settled(r)
         THEN Finish(p, "succeeded") /\ UNCHANGED <<attempt, payment, ledger>>
         ELSE /\ attempt' = [attempt EXCEPT ![r].status = me.answer, ![r].known = TRUE]
              /\ Finish(p, me.answer)
              /\ IF me.answer = "succeeded"
                   THEN /\ payment' = [payment EXCEPT !.refunded = next,
                               !.status = IF next = Amount THEN "refunded" ELSE @]
                        /\ ledger' = [ledger EXCEPT ![r] = @ + 1]
                   ELSE UNCHANGED <<payment, ledger>>
    /\ UNCHANGED <<dispute, approval, stripe, mover, faults>>

(* settlePaymentVoid: of an intent taken meanwhile a refund is made, later *)
(* and by another run.                                                     *)
SettleVoid(p) ==
  LET me == proc[p]
      r == me.of
  IN
    /\ me.at = "settle" /\ me.kind = "void"
    /\ \/ /\ Settled(r)
          /\ Finish(p, "succeeded")
          /\ UNCHANGED <<attempt, payment>>
       \/ /\ ~ Settled(r) /\ me.answer = "taken"
          /\ attempt' = [attempt EXCEPT ![r].kind = "refund"]
          /\ Finish(p, attempt[r].status)
          /\ UNCHANGED payment
       \/ /\ ~ Settled(r) /\ me.answer = "canceled"
          /\ attempt' = [attempt EXCEPT ![r].status = "succeeded"]
          /\ payment' = [payment EXCEPT !.status =
                           IF @ = "authorized" THEN "canceled" ELSE @]
          /\ Finish(p, "succeeded")
    /\ UNCHANGED <<dispute, approval, ledger, stripe, mover, faults>>

(* The money is back: the dispute's transaction commits.                   *)
ResolveDispute(p) ==
  LET me == proc[p] IN
    /\ me.at = "resolve"
    /\ dispute' = "resolved"
    /\ payment' = [payment EXCEPT !.disputed = FALSE,
         !.status = IF payment.disputed /\ Asked[me.of] = Amount /\ attempt[me.of].known
                      THEN "refunded" ELSE @]
    /\ proc' = [proc EXCEPT ![p] =
                  IF me.op = "decide" THEN [me EXCEPT !.at = "commit"] ELSE Idle]
    /\ UNCHANGED <<attempt, approval, ledger, stripe, mover, faults>>

(* The decision commits, after all its executor has done.                  *)
CommitDecision(p) ==
  /\ proc[p].at = "commit"
  /\ approval' = [approval EXCEPT ![proc[p].of] = "executed"]
  /\ proc' = [proc EXCEPT ![p] = Idle]
  /\ UNCHANGED <<payment, dispute, attempt, ledger, stripe, mover, faults>>

(* Mutant of GiveUp: the last try fails an attempt whatever became of it.  *)
GiveUpAny ==
  LET r == proc[Sweeper].of IN
    /\ proc[Sweeper].at = "giveup"
    /\ attempt' = [attempt EXCEPT ![r].status =
                     IF attempt[r].tries = MaxTries THEN "failed" ELSE @]
    /\ proc' = [proc EXCEPT ![Sweeper] = Idle]
    /\ UNCHANGED <<payment, dispute, approval, ledger, stripe, mover, faults>>

(* The job notes the error; after the last try the attempt has failed.     *)
GiveUp ==
  LET r == proc[Sweeper].of IN
    /\ proc[Sweeper].at = "giveup"
    /\ attempt' = [attempt EXCEPT ![r].status =
                     IF @ = "pending" /\ attempt[r].tries = MaxTries THEN "failed" ELSE @]
    /\ proc' = [proc EXCEPT ![Sweeper] = Idle]
    /\ UNCHANGED <<payment, dispute, approval, ledger, stripe, mover, faults>>

-----------------------------------------------------------------------------
(* A failed call or transaction; a process that dies, an orphan at any     *)
(* time.                                                                   *)
Fails(p) ==
  /\ proc[p] # Idle
  /\ proc[p].at # "giveup"
  /\ Fault
  /\ Abort(p)
  /\ UNCHANGED <<rows, stripe, mover>>

Dies(p) ==
  /\ proc[p] # Idle
  /\ Fault \/ (proc[p].op = "orphan" /\ UNCHANGED faults)
  /\ proc' = [proc EXCEPT ![p] = Idle]
  /\ UNCHANGED <<rows, stripe, mover>>

(* idle_in_transaction_session_timeout: Stripe is slow, the session that   *)
(* holds the rows is ended and its locks are free.  The refund goes on,    *)
(* over connections of its own, in a process that is shutting down.        *)
IdleTimeout(p) ==
  /\ proc[p].at \in {"provider", "charge"}
  /\ proc[p].op = "decide" \/ HoldsDispute(p)
  /\ Fault
  /\ proc' = [proc EXCEPT ![p].op = "orphan"]
  /\ UNCHANGED <<rows, stripe, mover>>

(* Mutant of StatementTimeout: a wait for a row has no end.                *)
NoTimeout(p) == FALSE

(* statement_timeout ends the wait for a row.                              *)
StatementTimeout(p) ==
  /\ Waiting(p)
  /\ Abort(p)
  /\ UNCHANGED <<rows, stripe, mover, faults>>

-----------------------------------------------------------------------------
(* The parties and Stripe's webhooks.                                      *)
OpenDispute ==
  /\ dispute = "none"
  /\ dispute' = "open"
  /\ payment' = [payment EXCEPT !.disputed = payment.status \in {"authorized", "captured"}]
  /\ UNCHANGED <<attempt, approval, ledger, stripe, proc, mover, faults>>

ResolveWithoutRefund ==
  /\ dispute = "open"
  /\ ~ DisputeLocked
  /\ dispute' = "resolved"
  /\ payment' = [payment EXCEPT !.disputed = FALSE]
  /\ UNCHANGED <<attempt, approval, ledger, stripe, proc, mover, faults>>

(* captureAuthorizedPayment: Stripe takes the money, then the row says so. *)
Capture ==
  /\ payment.status = "authorized" /\ dispute # "open"
  /\ intent = "held"
  /\ intent' = "taken"
  /\ UNCHANGED <<rows, refund, first, charged, totals, proc, mover, faults>>

RecordCapture ==
  /\ intent = "taken" /\ payment.status = "authorized"
  /\ payment' = [payment EXCEPT !.status = "captured"]
  /\ UNCHANGED <<dispute, attempt, approval, ledger, stripe, proc, mover, faults>>

CanceledWebhook ==
  /\ intent = "canceled" /\ payment.status # "captured"
  /\ payment' = [payment EXCEPT !.status = "canceled"]
  /\ UNCHANGED <<dispute, attempt, approval, ledger, stripe, proc, mover, faults>>

(* Mutant of RefundedWebhook: a partial refund makes the payment refunded. *)
RefundedAnyTotal ==
  \E total \in totals \ {0} :
    /\ payment' = [payment EXCEPT !.refunded = LargerOf(@, total), !.status = "refunded"]
    /\ UNCHANGED <<dispute, attempt, approval, ledger, stripe, proc, mover, faults>>

(* charge.refunded, with any total the charge has had: applyChargeRefund.  *)
RefundedWebhook ==
  \E total \in totals \ {0} :
    /\ payment' = [payment EXCEPT !.refunded = LargerOf(@, total),
                                  !.status = IF total = Amount THEN "refunded" ELSE @]
    /\ UNCHANGED <<dispute, attempt, approval, ledger, stripe, proc, mover, faults>>

(* Stripe finishes a refund it had answered as pending.                    *)
RefundEnds(r) ==
  /\ refund[r] = "pending"
  /\ \E end \in {"succeeded", "failed"} :
       /\ refund' = [refund EXCEPT ![r] = end]
       /\ charged' = IF end = "failed" THEN charged - attempt[r].amount ELSE charged
  /\ totals' = totals \cup {charged'}
  /\ UNCHANGED <<rows, intent, first, proc, mover, faults>>

-----------------------------------------------------------------------------
Step(p) ==
  \/ LockDispute(p) \/ Reserve(p) \/ Gate(p)
  \/ MovesMoney(p) \/ FindsMoved(p) \/ Refused(p) \/ ReadTotal(p)
  \/ SettleRefund(p) \/ SettleVoid(p) \/ ResolveDispute(p) \/ CommitDecision(p)
  \/ StatementTimeout(p)

Next ==
  \/ \E p \in Handlers, r \in Refunds : Request(p, r) \/ Approve(p, r)
  \/ \E r \in Refunds : Reject(r) \/ Sweep(r) \/ RefundEnds(r)
  \/ \E p \in Procs : Step(p) \/ Fails(p) \/ Dies(p) \/ IdleTimeout(p)
  \/ GiveUp
  \/ OpenDispute \/ ResolveWithoutRefund
  \/ Capture \/ RecordCapture \/ CanceledWebhook \/ RefundedWebhook

Spec == Init /\ [][Next]_vars

(* Every process goes on, or times out; cron runs the job again and again; *)
(* Stripe ends what it has begun.                                          *)
Fairness ==
  /\ \A p \in Procs : WF_vars(Step(p))
  /\ WF_vars(GiveUp)
  /\ \A r \in Refunds : SF_vars(Sweep(r)) /\ WF_vars(RefundEnds(r))

FairSpec == Spec /\ Fairness

-----------------------------------------------------------------------------
(* The ledger has one entry for every refund recorded as made, and none    *)
(* for one that was not, whoever settled it and however often.             *)
LedgerMatchesAttempts ==
  \A r \in Refunds :
    ledger[r] = IF attempt[r].status = "succeeded" /\ attempt[r].kind = "refund"
                  THEN 1 ELSE 0

(* The money of a set of refunds, counted cent by cent.                    *)
Cents(S) == {c \in S \X (1 .. Amount) : c[2] <= attempt[c[1]].amount}
Total(S) == Cardinality(Cents(S))

Recorded == {r \in Refunds : ledger[r] = 1}

(* What the payment says was refunded covers every refund recorded as made *)
(* and is a total the charge has had, although totals come late, out of    *)
(* order and next to the settlements that count the same refund.           *)
RefundedIsExplained ==
  payment.refunded >= Total(Recorded) /\ payment.refunded \in totals

(* What an attempt means to who asked for it.                              *)
Outcome(a) ==
  CASE a.status = "none"                              -> "none"
    [] a.status = "succeeded" /\ a.kind = "refund"    -> "returned"
    [] a.status = "succeeded" /\ a.kind = "void"      -> "voided"
    [] OTHER                                          -> "asked"

Promise == INSTANCE RefundPromise
             WITH outcome <- [r \in Refunds |-> Outcome(attempt[r])],
                  claim <- [r \in Refunds |-> attempt[r].amount],
                  refunded <- payment.refunded

(* The refunds of a payment, seen from outside: each ends at most once and *)
(* for good, the amount refunded never falls and covers them, and money    *)
(* that was never taken is not given back, whatever processes, approvals,  *)
(* retries and webhooks do in between.                                     *)
PromiseKept == Promise!Spec

(* A payment is 'refunded' only when all of it was, and 'canceled' only    *)
(* when its authorization is gone; an attempt recorded as a void that      *)
(* succeeded leaves no payment to be captured.                             *)
StatusIsExplained ==
  /\ payment.status = "refunded" => payment.refunded = Amount
  /\ payment.status = "canceled" => intent = "canceled"
  /\ \A r \in Refunds : attempt[r].status = "succeeded" /\ attempt[r].kind = "void"
       => intent = "canceled" /\ payment.status = "canceled"

(* A request below the threshold aside, no administrator's own request     *)
(* moves money: the handler that queues it stops short of Stripe.          *)
QueuedRequestMovesNothing ==
  \A r \in Refunds : attempt[r].amount >= Threshold => mover[r] # "request"

(* Once settled or decided, for good: no late answer, replay or second     *)
(* decision undoes a refund recorded as made or a rejection.               *)
SettledIsFinal ==
  [][\A r \in Refunds :
       /\ attempt[r].status = "succeeded" => attempt'[r] = attempt[r]
       /\ approval[r] \in {"rejected", "executed"} => approval'[r] = approval[r]]_vars

(* No attempt stays pending: the job settles it or gives it up.            *)
EveryAttemptEnds ==
  \A r \in Refunds : attempt[r].status = "pending" ~> attempt[r].status # "pending"

(* No caller waits for ever for a row another one holds.                   *)
EveryCallEnds == \A p \in Procs : proc[p] # Idle ~> proc[p] = Idle

(* "The gate runs BEFORE any provider call, so a queued movement never     *)
(* touches Stripe until a second admin approves it."                       *)
UnapprovedMovesNothing ==
  [][\A r \in Refunds :
       approval[r] \in {"pending", "rejected"} /\ mover'[r] # mover[r]
         => mover'[r] \in {"decide", "orphan"}]_vars
=============================================================================
