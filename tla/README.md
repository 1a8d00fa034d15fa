# TLA+ models of OxSteed's money and job protocols

OxSteed is a marketplace for local help: customers post jobs, helpers bid on
them, and money moves on several payment rails. The repository is one
Express/PostgreSQL server (`src/server`), a web client (`src/client`), a mobile
shell (`src/native`) and tooling. Nearly all protocol state is in PostgreSQL and
is changed by short transactions of several server processes; cron jobs run in
each of those processes. What is hard is what happens *between* transactions:
leases that lapse, processes that die, calls to a partner whose answer is lost,
deployments that are half done, and two people or workers acting on one row.

The models are about that. They live in this directory, beside the code:

| Module | Models | Checked by (cfg) | Proved in |
|---|---|---|---|
| `HelperLedger` | one helper's Credit account and its reservations | with the cash-out runs | `CreditCashout_proofs` |
| `CreditCashout` | cash-out requests, submission worker, settlement, review, destinations | with the cash-out runs | `CreditCashout_proofs` |
| `InHouseCashout` | the core with OxSteed's own bank payout rail | `InHouseSafety`, `InHouseLive` | `InHouseCashout_proofs` |
| `PartnerCashout` | the core with an external payout partner | with `SteadyPartnerCashout` | `PartnerCashout_proofs` |
| `SteadyPartnerCashout` | the same, remembering whether a deployment switched the partner | `Partner` | `PartnerCashout_proofs` |
| `CashoutPromise` | abstract: what a cash-out promises a helper | as property `PromiseKept` | `PromiseCorrect` (twice) |
| `FencedJobLock` | the lock and the write fence of scheduled jobs | `JobLock` | `FencedJobLock_proofs` |
| `JobEventOutbox` | the outbox that announces job edits to bidders | `OutboxSafety`, `OutboxLive` | `JobEventOutbox_proofs` |
| `JobCreditHold` | the Credit held for a job: wallet reservation, hold, payment row | with `JobPayment` | `JobPayment_proofs` |
| `JobCardPayment` | the card authorization of a job: row, intents, re-authorization attempts, webhooks | with `JobPayment` | `JobPayment_proofs` |
| `JobPayment` | both composed with the job: change orders, rail switches, completion, cancellation | with `JobCharges` | `JobPayment_proofs` |
| `JobCharges` | the same, remembering whether a capture at the provider was rolled back | `JobPayment`, `JobRepriced` | `JobPayment_proofs` |
| `PaymentRefund` | refunds of a card payment: attempts, approval, dispute, reconciliation, webhooks | `Refund`, `RefundLive`, `RefundUnapproved` | `PaymentRefund_proofs` |
| `RefundPromise` | abstract: what refunding a payment promises | as property `PromiseKept` of `Refund` | `PaymentRefund_proofs` |
| `WebhookIntake` | receipts and watermarks of the providers' webhooks: claim, order, retry, replay, release | `Webhook` | `WebhookIntake_proofs` |

`MC*.tla` give the constants their small values. To check a module and a proof:

    tlc -config InHouseSafety.cfg MCInHouseCashout
    tlapm InHouseCashout_proofs.tla

## 1. Inventory of the system

Paths are relative to `src/server`.

**Helper ledger and reservations** (`services/oxsteedCreditReservationService.js`,
`services/oxsteedCreditService.js`). State: accounts with `balance_cents` and
`reserved_cents`, reservations (`active`, `released`), posted transactions unique
by idempotency key. Operations: reserve, release, post a journal. Every operation
locks the account row, so it is atomic; the hard part is that requests, refunds,
fees and settlements interleave on one balance. Correct when `reserved_cents` is
the sum of active reservations, reserved money is backed, and the balance is
explained by its postings.

**Cash-out requests** (`services/creditCashoutService.js`). State: a row per
request with `status`, `review_reason`, `submit_attempts`, `lease_token`,
`lease_expires_at`, `available_at`. Operations: request, cancel (owner), reject
(one administrator), release (two administrators), claim under a lease, submit,
give back, hold as unknown outcome, settle, poll. Called by routes and by
`jobs/paymentLayersWorker.js`; calls the ledger, the destinations and a payout
partner. Hard: everything a late worker may still do, a partner that paid without
the worker knowing, settlement without a lease by polls and administrators.
Correct when a request holds its reservation exactly while it is open, is paid
exactly if its journal is posted, ends once, and is not lost in the queue.

**Payout destinations** (`services/creditPayoutDestinationService.js`). State:
`status`, verification secret and attempts, `cooling_off_until`,
`first_payout_at`. Operations: add, verify, disable, load for a payout. Correct
when no first payout goes out before the cooling-off ends and an account in use
stays enabled.

**In-house bank payout rail** (`services/creditBankPayoutService.js`). State:
instructions (`pending_export`, `exported`, `paid`, `returned`) with the two
confirming administrators. Operations: create, export a batch, first, second and
conflicting confirmation, settle the purpose, report the status of a cash-out.
Correct when instruction and request never disagree and nobody moves money alone.

**External payout partners** (`services/payoutPartners/index.js`). An adapter
interface with one payout per idempotency key; the shipped adapters are stubs.
Correct when requests end on the partner's word and submitted money does not come
back.

**Job locking** (`jobs/jobLockingService.js`). State: a row of `cron_job_locks`
per job, and a fence in memory per run. Operations: acquire or take over, renew,
release, fenced query and transaction. Correct when a live lease is respected, a
stale run's writes are bounded, and a crash does not stop the job for good.

**Job event outbox** (`services/jobEventOutbox.js`, `jobs/jobEventOutbox.js`).
State: rows with `coalesce_key`, `status`, `attempts`, `locked_at`, `lease_token`.
Operations: enqueue and coalesce, claim, deliver, finish, prune. Called by
`services/jobEditService.js` in the transaction of an edit. Hard: edits racing
deliveries, stale claims, clashes of the unique index on retry. Correct when every
edit is announced or visibly given up.

**Payment rails of a job** (`services/paymentRails/`, `services/oxsteedCreditService.js`,
`controllers/jobController.js`, `services/jobCancellationService.js`). State: the
job's `status`, `payment_rail`, `transaction_mode`, `job_value_cents` and
`metadata.creditPaymentHoldId`, the holds, the `job_credit_payments` rows and the
wallet's `reserved_cents`, the pending switch. Operations: place, replace, release,
capture and expire a hold; request and answer a switch; complete, confirm by
itself, release after the review window, cancel. Hard: four records describe one
hold and are written by different handlers; holds end on their own; give-back runs
after the commit. Correct when an active hold is always found by its row, the
wallet reserves that hold and nothing else, and a job is on the Credit rail exactly
if it has a held row.

**Payment re-authorization** (`services/jobPaymentReauthorizationService.js`,
`services/jobChangeOrderFinance.js`, `services/paymentCaptureService.js`,
`controllers/webhookController.js`). State: the payments row with amount, capture
amount, missing increase and authorized amount, the attempts, the flags in the
job's metadata; the PaymentIntents at Stripe. Operations: create a payment, apply
an approved change order, re-price or replace the authorization, confirm, expire,
webhooks, capture at completion. Hard: the provider knows things before the server
does and the other way round, intents are canceled after the commit, and a capture
can not be rolled back. Correct when a captured row is what the provider took, no
capture asks for more than was authorized, a shortfall is always flagged, and no
authorization of the customer's card is forgotten.

**Payment refunds** (`services/paymentRefundService.js`, `services/paymentRefundStateService.js`,
`jobs/paymentRefundReconciliation.js`, `controllers/disputeAdminController.js`). State:
attempts by idempotency key, the payments row with status and refunded amount, the
ledger's refund rows, the dispute. Operations: reserve an attempt, ask Stripe,
settle, void an authorization, reconcile what was left pending, apply Stripe's
totals, resolve a dispute with or without a refund. Hard: three transactions and
two calls that only the attempt's row ties together; any of them may be the last
one; a repeated key repeats the first answer; totals arrive late. Correct when every
refund made is in the ledger once, the payment's status says what happened to its
money, and every attempt ends.

**Dual approval of money movements** (`services/dualApprovalService.js`,
`services/moneyMovementExecutors.js`). State: one row per movement. Operations:
queue, approve (which runs the executor inside the deciding transaction), reject.
Hard: the executor commits on other connections and calls a provider, so the
decision's rollback does not roll it back, and its lock is held meanwhile. Correct
when nothing large moves on one administrator's word and a decision is final.

**Webhook intake** (`controllers/webhookController.js`, `jobs/webhookReceiptRecovery.js`,
`services/webhookReceiptRecoveryService.js`). State: a receipt per event
(`processing`, `processed`, `failed`, `resolved`; attempts and time of the last
claim) and a watermark per object, the newest event begun. Operations: claim a
receipt, look whether a refused one is in flight, compare with the watermark, run
the event's handler, mark the receipt; replay, close, release a stalled one. Calls
the handlers of the payment models above. Hard: every statement commits on its
own, deliveries are repeated and come in any order, two processes may serve one
event, and a mark is written whatever the receipt has become. Correct when nothing
is acknowledged or marked `processed` that has neither run nor been overtaken, an
event runs again only after something went wrong, an older state does not come back,
and every event is answered.

**Not modelled**: section 9.

How the parts interact in one cash-out: a route calls `requestCashout`, which in
one transaction locks the destination, reserves on the ledger and inserts the
request; the worker, run in any process under a *job lock* it asks only once,
claims due requests and submits them; the rail answers at once, on a poll, or by
the confirmation of a second administrator, and each of these ends in
`settleInTransaction`, which releases the reservation and posts the journal.

## 2. The cash-out modules

`HelperLedger` has the fragments of transactions that touch one helper's account.
They are not actions: `CreditCashout` conjoins them into its own actions, as the
code calls them inside a caller's transaction. A check that throws in the code
rolls the caller back and is therefore a guard. `reservation[r]` is keyed by
the reference `('credit_cashout', r)`.

`CreditCashout` has the state that does not depend on the rail and one action per
operation. `Settle(r, token, outcome)` is `settleInTransaction`; `NoToken` stands
for a caller without a lease. A worker's rows are `batch[w][r]` (the
`submit_attempts` it saw, 0 for "not in the batch") with the token `token[w]`.
`InHouseCashout` and `PartnerCashout` extend it with what submitting means:

- In-house, `SubmitInHouse` is one transaction that re-reads the row under its
  lock, files the instruction and settles as submitted.
- With an external partner, `CallPartner` happens outside of any transaction,
  without looking at the row again, and `SettleAnswer` or `LoseAnswer` follows.
  The partner itself (`PartnerAfter`, `Report`, `PartnerFinishes`) is external and
  is what the interface comment of `payoutPartners/index.js` demands.

`RequestCashout` is also guarded by the rail being configured in some process.
Refusals that only mean "not now" (feature flags, KYC, sanctions, caps) are the
action not being taken; replays of idempotency keys change nothing and are
stutters.

Time is two bits per object: `leaseLive` and `cooled`. `Due` uses `dueNow`, fixed
at the insert, because `available_at` is computed once. `configured[w]` is a
process's environment: it changes only between batches (a restart), per process,
because deployments roll.

`CashoutPromise` is the helper's view: an accepted request takes its amount out of
the spendable money; later it is paid, or exactly that amount comes back once.
`PromiseKept` maps `phase` to the status by `Phase` and `funds` to
`balance - reserved`. The step that could go wrong is settlement: releasing the
reservation and posting the debit must cancel out for the helper.

## 3. The other modules

`FencedJobLock`: `holder` and `unexpired` are the row; `lockValue`, `leaseLost`
and `inTransaction` belong to a run. A renewal that succeeds is `Expire` not
happening; one that fails flips the flag, after which the row may be released
while the handler goes on. `late` is a history variable that counts commits of a
run after another run took the lock. Assumption: lock values (host, process,
time) are unique per acquisition. Handlers await their fenced transactions one
after the other, as those in the repository do.

`JobEventOutbox`: one job. A row is named by the edit that inserted it and
`covers` is the history of edits merged into it. Delivery has two halves, because
the revision is read (`LoadJob`) before it is announced (`NotifyBidders`);
`FinishJobEvent` models the unique-index violation, which ends the batch.
`attempts` is saturated at `MaxAttempts`: beyond it the code behaves the same.
Bidders over the hourly cap are skipped by the code and not counted here.

## 4. A job and its money

`JobCreditHold` and `JobCardPayment` have the state of the two kinds of money and
one operator per handler or branch of a handler; `JobPayment` has the job, turns
those operators into actions and conjoins them where the code does both in one
transaction (`DecideChange`, `AcceptSwitch`, `FinishCapture`).

Credit. `hold[h]` is `oxsteed_credit_holds`, `row[h]` the `job_credit_payments` row
written for hold `h`, `holdId` the pointer in the job's metadata, `creditDue` the
flag `creditAdjustmentRequired` with its amount. The rest of the wallet is
external: whether it covers a new hold is a choice (`RepriceCredit`), and
`reserved` is this job's share. `EndHold` is the scheduled expiry and a release by
the owner, neither of which looks at the job. `CaptureAccepted` is what the code
says: `capturePayment` names an actor that `captureCreditHoldInTransaction` refuses,
so the body of `CapturePayment` is never taken in a run, `AutoRelease` only fails,
and a completion that has to capture Credit rolls back. The operator is kept
because it is the code, and it is covered by the proofs.

Card. `payment` is the one payments row of the job, `payment.authorized` its
`metadata.authorized_amount_cents`, which stays when a change order reduces the
amount. `intent` is the provider's side. `attempt[i]` is the status of the
re-authorization whose intent is `i`; `"closed"` stands for canceled, failed and
expired. `events` are webhooks not yet delivered, in any order and any time later.
`releasing` is the work after a commit: intents the process is about to cancel and
forgets if it dies (`LoseCancellation`). `quoted` is the job `createPaymentIntent` read without a
lock. `completing` says that a completion has captured at the provider and its
transaction, which holds the payments row, is still open: `FinishCapture` commits
it or rolls it back, `RollBackCapture` is a failure in between; `RowFree` is that
row lock. Whoever needs the row waits.

Abstractions. One payments row; charge model `direct` only; Credit that pays for
the job, not Credit as collateral; one undecided change order at a time (a second
one can follow it); who of the two parties asks for a switch and who answers is
not kept; the stand-alone capture endpoint, refunds (section 5) and the flag for holds about to
expire are left out; the webhook of a cancellation that can change nothing is left
out. The provider cancels and captures when asked, and an authorization may
lapse (`Lapse`).

The properties are about records that different handlers write:

- `HoldHasItsRow`, `ReservedIsTheHold`, `HeldRowIffCreditRail`: hold, row, pointer,
  reservation and rail never part, through replacements, expiry and switches.
- `CapturedIsTaken`, `CapturedIsFinal`: what the row says is captured was captured,
  in that amount, also when the completion rolled back and only a late webhook
  tells; afterwards nothing moves the row.
- `AskNoMoreThanAuthorized`, `IncreaseIsFlagged`: row, intent and the job's flag are
  re-priced in step, although the three are checked in different places.
- `NoForgottenAuthorization`: unless a process dies, a card lapses or a completion
  rolls back by failure, an authorized intent backs the row or an
  open attempt, is about to be canceled, or a webhook for it is on its way.
- `ChargedOnce`: of all the intents a job went through, one is captured, the row's,
  and only for a completed job; unless a capture was lost, which `JobCharges`
  remembers in `lost`: the provider captured and the transaction around it was
  rolled back.

## 5. The refunds of a payment

`PaymentRefund` has one payment and a set of requests, each with its key. A process
is a record `proc[p]`: the operation (`request`, `decide`, `sweep`), the place it has
reached, and what it has read and not read again (the attempt's kind, whether it
knew the refund's id, Stripe's answer, the charge's total). The places are the
awaits of `processPaymentRefund` in their order:

    (dispute) -> reserve -> (gate) -> provider -> (charge) -> settle -> (resolve) -> (commit)

A dispute's refund passes `dispute` and `resolve`, which hold the dispute's row
between them; a request that needs approval ends at `gate`; a decision ends at
`commit`, and its approval's row is locked from `Approve` on. These two row locks
are the only ones that outlive a step (`ApprovalLocked`, `DisputeLocked`); the
locks of payment and attempt end with the transaction, which is one step.
`Waiting(p)` is a process that needs a locked row, `StatementTimeout` the database
ending the wait.

The transaction that holds those two rows is idle while its process waits for Stripe,
and `idle_in_transaction_session_timeout` (60 s, `db.js:32`) may end it: `IdleTimeout`
frees the locks and turns the process into an `orphan`, whose refund goes on over
connections of its own and settles, but which can neither resolve the dispute nor
commit the decision. The driver reports the lost session as an error nobody listens
for, the server begins to shut down (`index.js:1042`), and so an orphan may also end
at any time (`Dies`). A decision on a dispute loses both transactions at once, and
only while it waits for Stripe, since a statement ends after 30 s.

Stripe is external: `MakeRefund` makes one refund per key and remembers in `first`
what the key's first call was answered, which a repeated key is answered again
(`Seen`); with the refund's id it answers the refund as it is. `charged` is the
charge's `amount_refunded`, and `totals` every value it has had, so that
`RefundedWebhook` may apply an old one: receipts and watermarks of webhooks drop
events that are known to be stale, and do not order two that are handled at once.
`RefundEnds` is a pending refund that succeeds or fails.

`Sweep` takes an attempt the job may take: pending for 30 seconds, which a handler
on its way to the gate has passed by then; that is its second guard. Failures are
`Fails` (an error, which the worker counts as a try and everybody else rolls back
on), `Dies` (a process is killed), `IdleTimeout` and the lost answer in `MovesMoney`.
Each uses up one of `MaxFaults`, except the end of an orphan.

Abstractions. `Init` is an authorized payment whose authorization webhook has been
applied; one dispute, whose requests ask for an amount; an amount is a whole
number of cents, `Asked[r] = 0` stands for "all that is left". Which administrator
asks and which decides is left out: the code refuses self-approval, which changes
nothing. A capture takes the whole amount. The authorization does not lapse, an
idempotency key does not expire, a refund that succeeded does not fail later, and no
rail switch writes the payment's status meanwhile (`JobPayment` has lapses and
switches). Fees, promotions, reversals of Credit and notices follow a settlement and
are left out. `RecordCapture` stands for the
row written after the capture and for the webhook that reports it.

The properties are about what the three transactions leave behind:

- `LedgerMatchesAttempts`: one ledger row per refund recorded as made, though the
  requester, an approver and the job may all settle the same attempt;
- `RefundedIsExplained`: the refunded amount covers those refunds and is a total
  the charge has had, so a webhook that arrives first is not counted twice;
- `StatusIsExplained`: `refunded` means all of it, `canceled` means Stripe has let go;
- `QueuedRequestMovesNothing`: what needs approval is not asked of Stripe by its
  request, `mover` being a history variable;
- `SettledIsFinal`: an ended refund and a decision stay as they are;
- `EveryAttemptEnds`, `EveryCallEnds`: nothing stays pending, nobody waits for ever.

`RefundPromise` is the same payment seen by those who asked for refunds: a request
claims an amount once, and ends once as money given back or as a void; the amount
the payment says was refunded never falls, never exceeds the payment, and covers
what is recorded as given back; and a payment that was voided gives nothing back.
The mapping is `Promise` in `PaymentRefund`: `Outcome(a)` is what an attempt means
to its requester (`pending` and `failed` are both still `asked`, since a settlement
may yet follow), the claim is the attempt's amount, and `refunded` is the
payment's column. Everything else, processes, approvals, locks, Stripe, is a stutter
of the promise. `PromiseKept` says that `PaymentRefund` implements it.

### The webhooks that carry it

`WebhookIntake` is the envelope all Stripe events pass, which the other models take
for granted when they apply a webhook in any order, late or more than once. It has the events
of one object, numbered in the order the watermark uses: `event_created`, and the
id within one second. `handler[h]` is a request: `of` the event, `by` whom it was
sent, `at` the place between two statements:

    (free) -> compare -> handle -> mark -> (free)    claimed
                     \-> drop ----------> (free)    outdated
    (free) -> look ---------------------> (free)    refused: 409 or duplicate

`Begin` is the upsert of the receipt, `Look` the second read after a refusal,
`Compare` the upsert of the watermark, `DropStale` the stale branch, `Handle` the
effects of the event, `MarkProcessed` and `MarkFailed` the writes at the end, which
test nothing. `recent[e]` is `last_seen_at` within fifteen minutes; `Ages` ends it. A
request that dies, or fails before the handler has learned its `receiptId`, is
`Dies`. `Replay` is an operator, whose request is the same handler with an event
fetched from Stripe; `Resolve` closes a receipt; `Release` is the job.

Abstractions. The effects of a handler are one write of the object's rows, as in
`syncConnectAccountState`, whose writes after the first only copy the same event;
what other handlers do is in the models above. `Release` takes all stalled receipts,
not 200 at a time, and the exceptions it records are left out. A replay reads the
receipt before it begins, so it may find any status. Events without an object or a
time have no watermark and are left out; so are signatures, which only refuse.

- `ProcessedIsExplained`: late, repeated and unfenced marks never leave an event
  `processed` that has not run and is not outdated;
- `AnsweredIsDone`: a refused delivery does not acknowledge what another one has yet
  to do; a fault of that event is the one exception, see the list in section 9;
- `RunsAreExplained`: one run, and one more per fault at most;
- `NewestWins`: what an object shows is older than what it has shown only if the
  newer event was begun between the older one's comparison and its effects
  (`overtaken`, a history variable);
- `EveryEventSettles`: crashes delay an event, no more: it is answered, and its receipt
  does not stay in `processing`.

## 6. Runs

| Run | Question | Bounds |
|---|---|---|
| `in_house_safety` | do ledger, request, instruction and promise stay in step under every interleaving? | 2 requests of 2 for a balance of 3 (4 after an earning), 2 workers, 3 tokens, 2 administrators, 1 destination, `MaxSubmitAttempts` 1 |
| `in_house_queue` | is an accepted request lost in the queue? | 1 request, 2 workers, 3 tokens, `MaxSubmitAttempts` 2 |
| `partner` | do requests end on the partner's word, and is money of a submitted payout given back while the partner stays on? | as `in_house_safety`, without a destination being disabled (`Usable`); `SteadySpec` remembers in `switched` that a deployment changed a configuration, and `SteadyNoMoneyBack` asks only while none has |
| `job_lock` | is a live lease respected, how many late commits, does the job run again? | 3 runs, 4 lock values |
| `outbox_safety` | is an edit forgotten, or a row 'sent' too early? | 2 edits, 2 workers, 5 tokens, `MaxAttempts` 3 |
| `outbox_live` | is every edit announced or given up visibly? | 2 edits, 1 worker, 3 tokens, `MaxAttempts` 2 |
| `job_payment` | do job, Credit, card row and provider stay in step, and is the card charged once? | `ChargesSpec`, which only adds `lost`; prices 1 and 2, 3 intents, 3 holds, 2 change orders or switches in all (`MaxTurns`), 1 crash, lapse or rollback (`MaxFaults`), and of these and an open dispute 2 at a time (`FewTurns`) |
| `refund` | is every refund counted once and the payment's status explained, whoever settles and in whatever order totals come, and is that what `RefundPromise` says? | 2 requests, of 2 (a dispute's) and of all that is left, of an amount of 3, threshold 2, 1 handler and the job, `MaxTries` 1, 1 fault |
| `refund_live` | does every attempt end, and every call? does a queued request keep its hands off, and an end stay an end? | 1 refund of the dispute, 2 handlers, `MaxTries` 2, 1 fault |
| `webhook` | is every event done once, in order, and answered? | 2 events of one object, 2 requests, 1 fault per event (`MaxFaults`) |
| `refund_unapproved` | "a queued movement never touches Stripe until a second admin approves it" | 2 requests of a dispute for an amount of 2, 2 handlers; violated |
| `job_repriced` | "a replacement ... for the full new amount" | price 2, 1 change order, no faults; violated |

Why the bounds are enough. Two requests suffice to compete for a balance that
serves one. Two workers suffice for a stale one and a current one; the code
compares a worker only with the row. There is always a fresh token: a token is
remembered by at most one row each and one worker each, and a worker that claims
holds none of its own, so 3 never block a claim while the other worker still holds an
old token (TLC finds the same states with 4), and the lock has one value more than there are runs. `MaxSubmitAttempts` 1 (code: 8) makes the limit reachable by two claims;
the code only compares with it. Safety runs use symmetry over requests, workers,
tokens, administrators; liveness runs and `job_lock` use none. The outbox may run
out of edits and rows, and a job ends, so the cfgs of `JobEventOutbox` and
`JobPayment` do not ask for deadlock freedom; the others do.

For a job, two prices are an increase and a decrease; three intents are the first
one, an attempt and the attempt that supersedes it; three holds survive two
replacements. Two turns let a change order follow another one, or a switch race
one, which is what the re-authorization protocol is about; one fault is enough to
lose each thing that is kept in memory, once. `FewTurns` leaves out two turns
together with a fault or a dispute, and so keeps every pair of them: about 1.1
million states instead of more than 6 million. The theorems remove these bounds.

For refunds, an amount of 3 of which a dispute asks 2 has a partial refund, a
remainder and a full refund, and
the threshold of 2 (code: 50000 cents by default) makes the dispute's refund need approval and
a remainder of 1 not. Two
requests compete for one remainder; a handler and the job settle the same attempt, and
in `refund_live` a requester, an approver and the job are there at once; an orphan is
there next to one of them (`FewAtOnce`) and, in `refund`, as long as the other request
is not reserved (`OrphanAlone`). `MaxTries` (code: 48) is compared only with itself:
2, in `refund_live`, lets the job try again before it gives up. One fault lets any
one step be the last one of its process, anywhere. Without symmetry of requests,
which differ, the runs have about 1.8 million and 133 thousand states.
A refund may never be asked for, so the cfgs do not ask for deadlock freedom;
`EveryCallEnds` does.

For webhooks, two events of one object are an older and a newer one; a third would
only be another older or newer one for each pair. Two requests serve one event twice
at a time, or both. One fault per event lets each of them fail, crash, stall or lose
its answer, once; theorems remove the bound. About 236 thousand states. All events may
be done with, so deadlock is not asked for; `EveryEventSettles` is.

What the violated runs show (details and quotes in `PROJECT.json`, "findings"):

1. `refund_unapproved`: a request that needs approval leaves its attempt `pending`,
   and the reconciliation job finishes pending attempts without looking for an
   approval; so does a request that has been rejected. What does hold is
   `QueuedRequestMovesNothing`, about the handler itself.
2. `job_repriced`: a price lowered between the customer's confirmation and its
   webhook is re-authorized at the old amount, because "authorized before the
   webhook" overwrites the new price with the authorized one; nothing stays
   flagged and completion captures the old price.

Other disagreements between code and comments that the models contain are listed at
the end of section 9.

## 7. Fairness, and why the code justifies it

- *Time passes*: `LeaseExpires`, `CoolingOffEnds`, `BecomesStale` and the expiry
  of a job lock whose run is gone are weakly fair.
- *Cron fires again*: a claim of any particular claimable row is strongly fair.
  The queries order by id or due time under a limit, so every due row is reached.
  It supposes that the feature flags and the Credit rail are on.
- *Nobody fails always at the same point*: a worker that holds a row under a
  current lease acts on it, again and again (strong fairness of `HandleInTime`,
  `LoadInTime`, `FinishInTime`). The act may still be a failure every time: a
  failing submission or a failing delivery satisfies it. The one exception is
  parking a request for review, a local transaction.
- *A process that serves a refund goes on*: its next step is weakly fair, a failed
  one included, and a wait for a row ends by `statement_timeout`. The job's query
  takes the attempt untouched for longest first and touches it, so any particular
  pending attempt is taken again and again (strong fairness of `Sweep`). Stripe
  ends a refund it has begun. Nothing is assumed of administrators: nobody has to
  ask again, approve or reject.
- *The provider retries*: an event that is not answered is delivered again and again,
  and a request finds a free process at times (strong fairness of `Deliver`, while it
  is not answered). A request's next statement is weakly fair (`Step`); failures and
  crashes are not, and are bounded per event: the provider's retries end after some
  days, so it is supposed that an event does not fail each time until then. A receipt
  nobody works on gets old, and the release job runs (weak fairness of `Ages` and
  `Release`). Nothing is assumed of operators.
- *Handlers end*: `Finish` of the job lock is strongly fair, since a handler may
  be in a transaction in between.
- Nothing is assumed of owners, reviewers, administrators, partners or
  deployments; `QueueDrains` is therefore conditional on deployments having
  settled with the rail on.

## 8. Proofs

For every number of requests, workers, tokens, administrators, destinations,
amounts and attempts, under the ASSUMEs of the modules (finite set of requests,
positive amounts and movements, null values distinct from real ones):

- in-house: `TypeCorrect`, `ReservedCorrect`, `ReserveCorrect`, `BalanceCorrect`,
  `ReservationCorrect`, `LeaseCorrect`, `PaidCorrect`, `FenceCorrect`,
  `InstructionCorrect`, `TwoPersonCorrect`, `CoolingOffCorrect`, `FinalCorrect`,
  `PromiseCorrect`;
- external partner: `TypeCorrect`, `ReserveCorrect`, `SettlementCorrect`, `PromiseCorrect`,
  `SteadyCorrect`;
- job lock: `TypeCorrect`, `LateCommitBounded`, `LeaseRespected`;
- outbox: `TypeCorrect`, `EditsCorrect`, `SentCorrect`;
- a job's money, for any prices and any number of holds, intents, change orders,
  switches and faults: `TypeCorrect`, `HoldCorrect`, `ReservationCorrect`,
  `RailCorrect`, `CaptureCorrect`, `AuthorizationCorrect`, `FlagCorrect`,
  `WatchCorrect`, `CapturedCorrect`, `ChargesCorrect`;
- refunds, for any set of requests, amounts, threshold, handlers, tries and faults:
  `TypeCorrect`, `LedgerCorrect`, `StatusCorrect`, `QueuedCorrect`, `FinalCorrect`,
  `RefundedCorrect`, `PromiseCorrect`;
- webhooks, for any events of one object, requests and faults: `TypeCorrect`,
  `ProcessedCorrect`, `AnsweredCorrect`, `RunsCorrect`, `NewestCorrect`.

Each module's `TypeOK` is proved; TLC checks it in `in_house_safety`.
`ReservedCorrect`, `BalanceCorrect`, `LeaseCorrect`, `FenceCorrect` and `FinalCorrect` (of cash-outs)
are facts the other results rest on and have no run of their own.

The argument for cash-outs. Sums are cardinalities: `Total(S)` counts the pairs
`(r, cent)`, so that adding or removing one request changes it by `Amount[r]`
(the first part of
`CreditCashout_proofs`), without induction. `LedgerSafe` (typed, `reserved` is the
sum, backed, explained) is preserved by each fragment. `CoreInv` adds what makes
the worker's steps safe: `LeaseOnlyWhileSubmitting` is why a bare token match, all
the give-back update tests, cannot hit a row somebody else has finished;
`OpenIffReserved` and `PaidIffPosted` are why settlement never releases or posts
twice; `TokenWithBatch` and `FencedBatchIsCurrent` are about late workers (fresh
tokens make a match mean "the same claim"); `CooledFirst` says that what is past
the queue had its destination cooled. `CreditCashout_proofs` shows that every
core action preserves `CoreInv` and is a step of the promise or a stutter.
`IInv` and `PInv` add what each rail needs (`InstructionMatchesRequest` needs the
request's status to be `submitted` while an instruction is unfinished; the
external rail needs `AnswersAreTrue`: an answer in flight is what the partner
did). `PromiseKept` follows from `CoreInv` and one lemma per kind of step.

`SteadyCorrect` is about the history variable `switched`. While the partner has been
configured in every process from the start, a request that was taken up stays
`submitting`, `submitted`, `paid` or `failed`, or is held for its unknown outcome:
the way back to the queue (`GiveBack`) takes a process that finds no partner.
`cancelCashout` and `rejectHeldCashout` then find a status or a review reason they refuse. A switch ends the invariant's premise for good, which is
why it is stated with `~switched` and not as an invariant of `PartnerCashout`.

For the job lock, `LateIsOver`: a run with a late commit has no open transaction
and its value is not in the row, so it cannot verify again, and no acquisition
brings the value back, because it is fresh among the values runs hold.

For the outbox, `LoadedCovers` is the heart: while a worker holds the lease of its
row, the row stands for no edit newer than the revision the worker loaded. It
holds because only pending rows take edits, because the edit commits revision and
event together, and because a second claim changes the token. `WorkInHand` ties a
delivery to the revision it announced, and `RowsArePast` says that a new row never
displaces what an old one stands for. `SentIsAnnounced` and `NoEditForgotten` are
then inductive.

For a job's money, `IInv` is `JobInv`, `CreditInv` and `CardInv`, with `AllWatched`
while nothing has failed. `CreditInv` says that a held row belongs to the hold the
pointer names; with `HoldHasItsRow` that leaves at most one active hold, which is
why subtracting its amount from `reserved` never goes wrong. `JobInv` needs
`switchTo # rail` (accepting a switch to Credit then starts without a held row)
and that give-back is only under way for a cancelled job. `CardInv` is why captures
are exact: `WithinIntent` bounds amount and authorized amount by the intent until
it is captured, which is what survives a reduction followed by an increase;
`CaptureInHand` says that the locked row keeps the captured amount until the
transaction ends; `EventsTrue` says that what a webhook tells does not stop being
true. `AllWatched` strengthens `NoForgottenAuthorization` by the one case it lacks:
the closed attempt whose intent is still confirmable, so that the webhook is yet
to be sent. The first part of `JobPayment_proofs` has one lemma per card operation and joins them
in `CardMoveSafe` and `CardMoveWatches`; the last part shows that every step
of the job is such an operation or leaves the card alone.

`ChargesCorrect`: `ChargesInv` says that the one captured intent is the row's, and
that either a completion has the row locked or it has told the row. Only a
completion captures, and it locks the row (`NewlyCaptured`); nothing else moves a
locked row (`LockedRowStays`), and a captured one never changes (`CapturedStays`). So
the row can be moved away from a captured intent only after a completion ended
without telling it, which is what `lost` remembers. The webhook of a capture then
comes too late to tell anything (`RowLearnsFromCompletion`), which is why a row that
says captured belongs to a completion that committed (`CompletionEnds`).

For refunds, `IInv` says that what a process has read and not read again stays
true enough to act on. `ProcsInv`: a process between its reservation and its
settlement has an attempt that exists; a request that got that far is of a small
amount; a process that knows a void while the attempt has become a refund finds the
intent taken; a total it settles with covers its refund. `Keeps` lists what no step
undoes, and is why the steps of other processes keep this true. `OneDecision`: no
two processes decide one approval, which is the row lock, and makes a committed
decision the only one. `StripeInv`: nothing is given back of an intent that was not
taken, so a payment whose intent is canceled has no refund. `AttemptsInv`: the
refunded amount covers each refund that has its ledger row. A process may settle
late, after the attempt is done or has become a refund: `Settled` is read again under
the lock, which is why `LedgerMatchesAttempts` is inductive although nothing orders
the settlers.

`RefundedCorrect` needs more than a bound per refund, because a total that Stripe
reports counts some refunds and not others, and is settled with after others were
made. `Covered` says, for every `n` from the recorded amount up to the payment's, that
the refunds recorded as made fit into `n` together with those that a process is about
to record on the word of a total of at most `n`: the totals were read in some order. Sums are again
cardinalities of sets of pairs, so a settlement adds exactly one refund's cents and no
induction is needed. `AmountsAreFinal` says that an attempt's amount, once claimed, is never
changed, although the attempt may be retried and a void may turn into a refund.

`PromiseCorrect` of refunds: `OutcomeValues` and `OneOutcome` turn an attempt into its
outcome; `SamePromise` says that a step which leaves outcomes, amounts and
`payment.refunded` alone is a stutter; there is one lemma for each transaction that
does not (`ReservePromise`, `SettleRefundPromise`, `SettleVoidPromise`, the worker's
and the webhook's), and `StepPromise` joins them. That a settlement is a `GiveBack`
rests on `RefundedIsExplained` after the step; that nothing follows a void, on
`StatusIsExplained` and `StripeInv`: the intent of a void is canceled, so no total
grows.

For webhooks, `IInv` joins the properties with what they rest on. `HandlerInv`
(`Informed`): a request past the comparison serves an event the watermark has reached, a
request that is to mark it has run it, and one that drops it is older than the
watermark; the watermark never goes back, so this stays true however late the
request goes on. `ClaimInv` (`Counted`): a claim of an event is paid for by its
first delivery or by a fault. An event whose receipt is in `processing` with nobody at
work, or `failed`, has lost a claim to a fault, and only then is it claimed again; so
the runs, and the requests that may still run, never outnumber the claims, and the
claims never outnumber the faults by more than one. `RanInv` says that what ran had
passed the watermark, which is what `NewestWins` compares with.

Only model-checked: the liveness properties (`QueueDrains`, `JobRunsAgain`,
`EveryEditSettles`, `EveryAttemptEnds`, `EveryCallEnds`, `EveryEventSettles`), as
liveness under fairness and ENABLED are out of the prover's reach. Every safety and
action property of a passing run, and both promises, are stated by a theorem. No
model uses a RECURSIVE operator, so all of them can be proved about, and nothing
rests on induction over data.

## 9. Not modelled, and why

- *Dual approval of other movements* (marketplace, food, payouts): the same gate and
  decision around executors that are one transaction or another provider's call.
- *Refunds of other products*, and the fees, promotions, Credit reversals and notices
  that follow a settled refund. The authorization's own webhook is applied before
  `Init`; a late one is a hazard listed without a property.
- *Other envelopes of webhooks*: Didit's is a twin of the one modelled; those of Checkr,
  Stripe Identity and Resend claim differently (see below) and have no order to keep.
  The deletion of receipts after 365 days is later than any delivery.
- *Verification of payout destinations* (micro-deposits, attempts): a life cycle of
  its own; cash-outs see only that a destination is verified and has cooled off.
- *Customer wallets beyond one job's hold, sub-banks, fees, FX, limits, the hash
  chain, food, consulting and restaurant payments*: large, mostly data and reporting over the
  same ledger operations.
- *Platform-held charges, partial captures, offline confirmations, tips, Credit collateral*:
  other products of the payment layers; the modelled ones are the ones a default
  configuration uses together with Credit.
- *Job editing beyond its outbox event, booking requests*: guarded updates of one
  row. *Other outboxes and schedulers*: variants of the claim, lease and finish
  protocol of `JobEventOutbox`.
- *Web client, mobile shell, prototypes, scripts*: no protocol state of their own.

Most of the repository's lines are user interface, routes and data access of those
kinds, so the models stand for a small share of it: the part where processes race
for money.

Seen while modelling, and part of the models, but not the subject of a run:

- after a capture whose completion was rolled back, an approved increase is
  re-authorized and the row moves to another intent, which the next completion
  captures as well, while "only one authorization is ever captured"
  (`services/jobPaymentReauthorizationService.js:15`). `ChargedOnce` therefore excludes
  lost captures. The key of the capture is that of the payments row
  (`services/paymentCaptureService.js:247`), and what the provider answers to a key
  it has seen with another intent is not modelled;
- no Credit hold of a job is ever captured, because of the actor `capturePayment`
  names (`services/paymentRails/creditRail.js:248`,
  `services/oxsteedCreditService.js:3245`);
- an increase approved while an attempt for an earlier one is open lets that
  attempt clear the flag at the earlier amount
  (`services/jobPaymentReauthorizationService.js:358`);
- a switch away from the card leaves the flag of a due re-authorization on the
  job, which can then not be completed (`services/paymentRails/railSwitch.js:158`);
- the Credit of a cancelled job is given back by a call nothing repeats
  (`services/jobCancellationService.js:428`);
- a hold that expired is not replaced when the customer re-authorizes with Credit,
  and the flag is cleared all the same
  (`services/jobPaymentReauthorizationService.js:494`);
- a request parked as "unknown outcome" on the in-house rail after too many failed
  claims becomes `submitted` with no instruction when it is released from review: it
  can not be confirmed, canceled or rejected, and its reserve stays locked
  (`services/creditCashoutService.js:453`);
- give-back returns a row to `requested` although an earlier process may have called
  the partner under a lease that has lapsed; the owner can then cancel it
  (`services/creditCashoutService.js:444`; latent, since only stubs ship);
- check and write of `disableDestination` are not one step
  (`services/creditPayoutDestinationService.js:328`);
- the job fence's verification locks nothing, so one transaction can still commit after
  the hand-over (`jobs/jobLockingService.js:79`); `AtMostOneLateCommit` is what holds;
- the executor of a refund works on connections of its own, so a decision that fails
  after it leaves the money moved and the approval pending, open to a rejection
  (`services/moneyMovementExecutors.js:54`);
- a resolver locks the dispute and asks for the approval's row, an approver holds that
  row and asks for the dispute; the database sees an idle transaction and no cycle,
  and `statement_timeout` ends it (`controllers/disputeAdminController.js:155`);
- "Holding the lock across the provider call serializes resolvers"
  (`controllers/disputeAdminController.js:149`) holds for 60 seconds: when Stripe takes
  longer, the database ends the idle transaction, and a second resolver may pass while
  the first one's refund goes on (`IdleTimeout`, `db.js:32`);
- a pending refund counts in the charge's total, and the refunded amount of a payment
  is never lowered when it fails (`services/paymentRefundService.js:165`);
- watermark and effects of a webhook are two steps, so "delayed deliveries cannot
  overwrite an authoritative state" (`migrations/522_webhook_event_ordering.sql:1`)
  holds but for an event overtaken in between; `NewestWins` is what holds;
- a receipt that fails between a refused claim and the look at its status is
  acknowledged as a duplicate (`controllers/webhookController.js:542`); only the
  operator's list of failed receipts still has it;
- a receipt is claimed again after fifteen minutes although its handler may be at
  work, so "replayed webhooks cannot re-run side effects"
  (`migrations/207_webhook_event_receipts.sql:1`) is up to the handlers' own keys;
- receipts of Checkr and Stripe Identity are never claimed a second time, so an event
  whose handler failed is answered as a duplicate for good
  (`controllers/verificationController.js:133`).
