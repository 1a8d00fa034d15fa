---------------------------- MODULE HelperLedger ----------------------------
(***************************************************************************)
(* One helper's partner_payable account on the OxSteed Credit ledger and   *)
(* the reservations made on it.  An operation below is a fragment of a     *)
(* database transaction of some caller: the account row is locked FOR      *)
(* UPDATE, so a fragment is atomic, and an error thrown by it rolls the    *)
(* whole caller back, which is why error paths are guards here.            *)
(*                                                                         *)
(* Requests stand for the business references ('credit_cashout', id) that  *)
(* reservations and cash_out postings are keyed by.                        *)
(***************************************************************************)
EXTENDS Integers, FiniteSets

CONSTANTS
  Requests,        \* cash-out requests of this helper
  Amount,          \* the amount of each request, in minor units
  OpeningBalance,  \* balance of the account before the first step
  Movements,       \* amounts of the other postings on the account
  MaxBalance       \* bound on what earnings may lift the balance to

ASSUME RequestsFinite == IsFiniteSet(Requests)
ASSUME AmountPositive == Amount \in [Requests -> Nat \ {0}]
ASSUME OpeningBalanceNat == OpeningBalance \in Nat
ASSUME MovementsPositive == Movements \subseteq Nat \ {0}
ASSUME MaxBalanceNat == MaxBalance \in Nat

VARIABLES
  balance,      \* oxsteed_credit_accounts.balance_cents
  reserved,     \* oxsteed_credit_accounts.reserved_cents
  reservation,  \* oxsteed_credit_reservations.status, per reference
  journal,      \* requests with a posted 'cash_out' transaction
  netOther      \* opening balance plus every other posting, net

ledgerVars == <<balance, reserved, reservation, journal, netOther>>

ReservationStatus == {"none", "active", "released"}

(* The money of a set of requests, counted minor unit by minor unit.       *)
Cents(S) == UNION {{r} \X (1 .. Amount[r]) : r \in S}
Total(S) == Cardinality(Cents(S))

Active == {r \in Requests : reservation[r] = "active"}

LedgerTypeOK ==
  /\ balance \in Int
  /\ reserved \in Int
  /\ reservation \in [Requests -> ReservationStatus]
  /\ journal \subseteq Requests
  /\ netOther \in Int

LedgerInit ==
  /\ balance = OpeningBalance
  /\ reserved = 0
  /\ reservation = [r \in Requests |-> "none"]
  /\ journal = {}
  /\ netOther = OpeningBalance

-----------------------------------------------------------------------------
Available == balance - reserved

(* reserveFunds: fails closed when the amount exceeds balance - reserved.  *)
(* The caller has just inserted the business row, so its reference cannot  *)
(* have an active reservation yet and the replay branch is not taken.      *)
ReserveFunds(r) ==
  /\ reservation[r] # "active"
  /\ Amount[r] <= Available
  /\ reserved' = reserved + Amount[r]
  /\ reservation' = [reservation EXCEPT ![r] = "active"]

(* What releaseReservation leaves in reserved_cents: releasing what is not *)
(* active is a no-op, a release larger than reserved_cents is refused.     *)
ReleasedReserve(r) ==
  IF reservation[r] = "active" THEN reserved - Amount[r] ELSE reserved

ReleaseReservation(r) ==
  /\ reservation[r] = "active" => Amount[r] <= reserved
  /\ reserved' = ReleasedReserve(r)
  /\ reservation' = [reservation EXCEPT
                       ![r] = IF @ = "active" THEN "released" ELSE @]

(* postJournalTransaction for 'cash_out' (debit the helper, credit the     *)
(* treasury) after the reservation was released in the same transaction.   *)
(* A helper account is non_negative_balance, so what is reserved for other *)
(* requests is not spendable; a second posting under the key of r is a     *)
(* replay.                                                                 *)
PostCashOutJournal(r) ==
  /\ r \notin journal => Amount[r] <= balance - ReleasedReserve(r)
  /\ balance' = IF r \in journal THEN balance ELSE balance - Amount[r]
  /\ journal' = journal \cup {r}

(* postJournalTransaction for every other leg on the account: a 'purchase' *)
(* credits the helper ...                                                  *)
PostEarning(a) ==
  /\ balance + a <= MaxBalance
  /\ balance' = balance + a
  /\ netOther' = netOther + a
  /\ UNCHANGED <<reserved, reservation, journal>>

(* Mutant of PostDebit: checks the balance, not what is available.         *)
PostDebitOfReserved(a) ==
  /\ a <= balance
  /\ balance' = balance - a
  /\ netOther' = netOther - a
  /\ UNCHANGED <<reserved, reservation, journal>>

(* ... and a 'refund' or a platform 'fee' debits it, never below what is   *)
(* reserved.                                                               *)
PostDebit(a) ==
  /\ a <= Available
  /\ balance' = balance - a
  /\ netOther' = netOther - a
  /\ UNCHANGED <<reserved, reservation, journal>>

-----------------------------------------------------------------------------
(* reserved_cents is exactly the money of the active reservations: what    *)
(* reconciliation of the account has to prove, whatever order requests,    *)
(* releases and settlements committed in.                                  *)
ReservedIsSum == reserved = Total(Active)

(* Reserved money is always backed by the balance, so a confirmed payout   *)
(* can always be posted and the balance of a helper never goes negative.   *)
ReserveBacked == 0 <= reserved /\ reserved <= balance

(* The balance is explained by its postings: everything else that was      *)
(* posted, less each paid cash-out exactly once.                           *)
BalanceExplained == balance = netOther - Total(journal)
=============================================================================
