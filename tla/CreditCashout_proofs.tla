------------------------ MODULE CreditCashout_proofs ------------------------
(***************************************************************************)
(* What the operations of the helper ledger and the steps shared by both   *)
(* payout rails preserve: the inductive invariant CoreInv, and the promise *)
(* to the helper.                                                          *)
(***************************************************************************)
EXTENDS CreditCashout, FiniteSetTheorems, TLAPS

-----------------------------------------------------------------------------
(* The helper ledger: how the money of a set of requests changes with the  *)
(* set, and what each ledger operation preserves.                          *)
LedgerSafe == /\ LedgerTypeOK
              /\ ReservedIsSum
              /\ ReserveBacked
              /\ BalanceExplained

-----------------------------------------------------------------------------
(* The money of one request is its amount.                                 *)
LEMMA CentsOfOne ==
  ASSUME NEW r \in Requests
  PROVE  /\ IsFiniteSet({r} \X (1 .. Amount[r]))
         /\ Cardinality({r} \X (1 .. Amount[r])) = Amount[r]
<1>1. Amount[r] \in Nat /\ Amount[r] > 0
  BY AmountPositive
<1>2. IsFiniteSet({r}) /\ Cardinality({r}) = 1
  BY FS_Singleton
<1>3. IsFiniteSet(1 .. Amount[r]) /\ Cardinality(1 .. Amount[r]) = Amount[r]
  <2>1. ASSUME NEW n \in Nat \ {0}
        PROVE  IsFiniteSet(1 .. n) /\ Cardinality(1 .. n) = n
    <3>1. 1 \in Int /\ n \in Int /\ ~(1 > n) /\ n - 1 + 1 = n
      OBVIOUS
    <3>2. /\ IsFiniteSet(1 .. n)
          /\ Cardinality(1 .. n) = IF 1 > n THEN 0 ELSE n - 1 + 1
      BY <3>1, FS_Interval, Zenon
    <3>. QED  BY <3>1, <3>2
  <2>. QED  BY <2>1, AmountPositive
<1>4. /\ IsFiniteSet({r} \X (1 .. Amount[r]))
      /\ Cardinality({r} \X (1 .. Amount[r])) = 1 * Amount[r]
  <2>. DEFINE T == 1 .. Amount[r]
  <2>. HIDE DEF T
  <2>1. IsFiniteSet({r}) /\ IsFiniteSet(T)
    BY <1>2, <1>3 DEF T
  <2>2. IsFiniteSet({r} \X T) /\ Cardinality({r} \X T) = Cardinality({r}) * Cardinality(T)
    BY <2>1, FS_Product, ZenonT(30)
  <2>. QED  BY <1>2, <1>3, <2>2 DEF T
<1>. QED  BY <1>1, <1>4

(* The money of any set of requests is a natural number.                   *)
LEMMA CentsFinite ==
  ASSUME NEW S \in SUBSET Requests
  PROVE  IsFiniteSet(Cents(S)) /\ Total(S) \in Nat
<1>. DEFINE Of(r) == {r} \X (1 .. Amount[r])
            T == {Of(r) : r \in S}
            f == [r \in S |-> Of(r)]
<1>1. IsFiniteSet(S)
  BY RequestsFinite, FS_Subset
<1>2. f \in Surjection(S, T)
  BY DEF Surjection
<1>3. IsFiniteSet(T)
  <2>. HIDE DEF f, T
  <2>. QED  BY <1>1, <1>2, FS_Surjection
<1>4. \A X \in T : IsFiniteSet(X)
  BY CentsOfOne
<1>5. IsFiniteSet(UNION T)
  <2>. HIDE DEF T
  <2>. QED  BY <1>3, <1>4, FS_UNION
<1>6. Cents(S) = UNION T
  BY DEF Cents
<1>. QED  BY <1>5, <1>6, FS_CardinalityType DEF Total

(* No request, no money.                                                   *)
LEMMA TotalEmpty == Total({}) = 0
<1>1. Cents({}) = {}
  BY DEF Cents
<1>. QED  BY <1>1, FS_EmptySet DEF Total

(* Adding a request to a set adds its amount.                              *)
LEMMA TotalAdd ==
  ASSUME NEW S \in SUBSET Requests, NEW r \in Requests, r \notin S
  PROVE  Total(S \cup {r}) = Total(S) + Amount[r]
<1>. DEFINE One == {r} \X (1 .. Amount[r])
<1>1. Total(S \cup {r}) = Cardinality(Cents(S) \cup One)
  BY DEF Total, Cents
<1>2. Cents(S) \cap One = {}
  BY DEF Cents
<1>3. IsFiniteSet(Cents(S)) /\ Cardinality(Cents(S)) \in Nat
  BY CentsFinite DEF Total
<1>4. IsFiniteSet(One) /\ Cardinality(One) = Amount[r]
  BY CentsOfOne
<1>5. Cardinality(Cents(S) \cup One)
        = Cardinality(Cents(S)) + Cardinality(One) - Cardinality({})
  <2>. HIDE DEF One
  <2>. QED  BY <1>2, <1>3, <1>4, FS_Union
<1>6. Cardinality({}) = 0 /\ Amount[r] \in Nat
  BY FS_EmptySet, AmountPositive
<1>7. Total(S) = Cardinality(Cents(S))
  BY DEF Total
<1>. HIDE DEF One
<1>. QED  BY <1>1, <1>3, <1>4, <1>5, <1>6, <1>7

(* Taking a request out of a set takes its amount, which was there.        *)
LEMMA TotalRemove ==
  ASSUME NEW S \in SUBSET Requests, NEW r \in S
  PROVE  /\ Total(S \ {r}) = Total(S) - Amount[r]
         /\ Amount[r] <= Total(S)
<1>1. /\ S \ {r} \in SUBSET Requests
      /\ r \notin S \ {r}
      /\ (S \ {r}) \cup {r} = S
  OBVIOUS
<1>2. Total(S) = Total(S \ {r}) + Amount[r]
  BY <1>1, TotalAdd
<1>3. Total(S \ {r}) \in Nat /\ Amount[r] \in Nat
  BY <1>1, CentsFinite, AmountPositive
<1>. QED  BY <1>2, <1>3
-----------------------------------------------------------------------------
(* What each operation of the ledger preserves.                            *)

(* A new account is consistent.                                            *)
LEMMA LedgerInitSafe == LedgerInit => LedgerSafe
<1>. SUFFICES ASSUME LedgerInit PROVE LedgerSafe
  OBVIOUS
<1>1. Active = {}
  BY DEF LedgerInit, Active
<1>2. LedgerTypeOK
  BY OpeningBalanceNat DEF LedgerInit, LedgerTypeOK, ReservationStatus
<1>3. Total(Active) = 0 /\ Total(journal) = 0
  BY <1>1, TotalEmpty DEF LedgerInit
<1>. QED
  BY <1>2, <1>3, OpeningBalanceNat
  DEF LedgerSafe, LedgerInit, ReservedIsSum, ReserveBacked, BalanceExplained

(* A step that leaves the account alone.                                   *)
LEMMA LedgerUnchangedSafe ==
  ASSUME LedgerSafe, UNCHANGED ledgerVars
  PROVE  LedgerSafe'
BY DEF LedgerSafe, ledgerVars, LedgerTypeOK, ReservedIsSum, ReserveBacked,
       BalanceExplained, Active

(* Reserving keeps the account consistent.                                 *)
LEMMA ReserveFundsSafe ==
  ASSUME NEW r \in Requests, LedgerSafe,
         ReserveFunds(r), UNCHANGED <<balance, journal, netOther>>
  PROVE  LedgerSafe'
<1>1. LedgerTypeOK'
  BY AmountPositive
  DEF LedgerSafe, LedgerTypeOK, ReserveFunds, ReservationStatus
<1>2. Active' = Active \cup {r} /\ r \notin Active
  BY DEF LedgerSafe, LedgerTypeOK, ReserveFunds, Active
<1>3. Total(Active') = Total(Active) + Amount[r]
  BY <1>2, TotalAdd DEF Active
<1>4. ReservedIsSum' /\ ReserveBacked'
  <2>1. ReservedIsSum'
    BY <1>3 DEF LedgerSafe, ReserveFunds, ReservedIsSum
  <2>2. Amount[r] \in Nat
    BY AmountPositive
  <2>3. /\ reserved' = reserved + Amount[r]
        /\ balance' = balance
        /\ Amount[r] <= balance - reserved
    BY DEF ReserveFunds, Available
  <2>4. reserved \in Int /\ balance \in Int /\ 0 <= reserved
    BY DEF LedgerSafe, LedgerTypeOK, ReserveBacked
  <2>5. ReserveBacked'
    BY <2>2, <2>3, <2>4 DEF ReserveBacked
  <2>. QED  BY <2>1, <2>5
<1>5. BalanceExplained'
  BY DEF LedgerSafe, BalanceExplained
<1>. QED  BY <1>1, <1>4, <1>5 DEF LedgerSafe

(* What a release does to reserved_cents, in every state of the account.   *)
LEMMA ReleaseReservationFacts ==
  ASSUME NEW r \in Requests, LedgerSafe, ReleaseReservation(r)
  PROVE  /\ reserved' \in Int /\ 0 <= reserved' /\ reserved' <= reserved
         /\ reservation' \in [Requests -> ReservationStatus]
         /\ ReservedIsSum'
<1>1. reservation' \in [Requests -> ReservationStatus]
  BY DEF LedgerSafe, LedgerTypeOK, ReleaseReservation, ReservationStatus
<1>2. CASE reservation[r] = "active"
  <2>1. r \in Active /\ Active' = Active \ {r}
    BY <1>2 DEF LedgerSafe, LedgerTypeOK, ReleaseReservation, Active
  <2>2. Active \in SUBSET Requests
    BY DEF Active
  <2>3. /\ Total(Active') = Total(Active) - Amount[r]
        /\ Amount[r] <= Total(Active)
    BY <2>1, <2>2, TotalRemove
  <2>. QED
    BY <1>1, <1>2, <2>3, AmountPositive
    DEF LedgerSafe, LedgerTypeOK, ReleaseReservation, ReleasedReserve,
        ReservedIsSum
<1>3. CASE reservation[r] # "active"
  <2>1. Active' = Active
    BY <1>3 DEF LedgerSafe, LedgerTypeOK, ReleaseReservation, Active
  <2>. QED
    BY <1>1, <1>3, <2>1
    DEF LedgerSafe, LedgerTypeOK, ReleaseReservation, ReleasedReserve,
        ReservedIsSum, ReserveBacked
<1>. QED  BY <1>2, <1>3

(* Releasing without posting keeps the account consistent.                 *)
LEMMA ReleaseReservationSafe ==
  ASSUME NEW r \in Requests, LedgerSafe,
         ReleaseReservation(r), UNCHANGED <<balance, journal, netOther>>
  PROVE  LedgerSafe'
<1>. USE ReleaseReservationFacts
<1>1. LedgerTypeOK'
  BY DEF LedgerSafe, LedgerTypeOK
<1>2. ReserveBacked'
  BY DEF LedgerSafe, LedgerTypeOK, ReserveBacked
<1>3. BalanceExplained'
  BY DEF LedgerSafe, BalanceExplained
<1>. QED  BY <1>1, <1>2, <1>3 DEF LedgerSafe

(* Releasing and posting the cash-out keeps the account consistent.        *)
LEMMA PayOutSafe ==
  ASSUME NEW r \in Requests, LedgerSafe,
         ReleaseReservation(r), PostCashOutJournal(r), netOther' = netOther
  PROVE  LedgerSafe'
<1>1. reserved' = ReleasedReserve(r)
  BY DEF ReleaseReservation
<1>2. LedgerTypeOK'
  BY ReleaseReservationFacts, AmountPositive
  DEF LedgerSafe, LedgerTypeOK, PostCashOutJournal
<1>3. ReservedIsSum'
  BY ReleaseReservationFacts
<1>4. ReserveBacked'
  BY <1>1, ReleaseReservationFacts, AmountPositive
  DEF LedgerSafe, LedgerTypeOK, ReserveBacked, PostCashOutJournal
<1>5. BalanceExplained'
  <2>1. CASE r \in journal
    <3>1. journal' = journal /\ balance' = balance
      BY <2>1 DEF PostCashOutJournal
    <3>. QED  BY <3>1 DEF LedgerSafe, BalanceExplained
  <2>2. CASE r \notin journal
    <3>1. journal' = journal \cup {r} /\ balance' = balance - Amount[r]
      BY <2>2 DEF PostCashOutJournal
    <3>2. journal \in SUBSET Requests
      BY DEF LedgerSafe, LedgerTypeOK
    <3>3. Total(journal') = Total(journal) + Amount[r] /\ Total(journal) \in Nat
      BY <2>2, <3>1, <3>2, TotalAdd, CentsFinite
    <3>. QED
      BY <3>1, <3>3, AmountPositive
      DEF LedgerSafe, LedgerTypeOK, BalanceExplained
  <2>. QED  BY <2>1, <2>2
<1>. QED  BY <1>2, <1>3, <1>4, <1>5 DEF LedgerSafe

(* Every other posting keeps the account consistent.                       *)
LEMMA OtherPostingSafe ==
  ASSUME NEW a \in Movements, LedgerSafe, PostEarning(a) \/ PostDebit(a)
  PROVE  LedgerSafe'
<1>1. a \in Nat /\ a > 0
  BY MovementsPositive
<1>2. Active' = Active /\ journal' = journal /\ reserved' = reserved
  BY DEF PostEarning, PostDebit, Active
<1>3. LedgerTypeOK'
  BY <1>1 DEF LedgerSafe, LedgerTypeOK, PostEarning, PostDebit
<1>4. ReservedIsSum'
  BY <1>2 DEF LedgerSafe, ReservedIsSum
<1>5. ReserveBacked'
  BY <1>1 DEF LedgerSafe, LedgerTypeOK, ReserveBacked, PostEarning, PostDebit,
              Available
<1>6. BalanceExplained'
  <2>1. journal \in SUBSET Requests
    BY DEF LedgerSafe, LedgerTypeOK
  <2>2. Total(journal) \in Nat /\ Total(journal') = Total(journal)
    BY <1>2, <2>1, CentsFinite
  <2>. QED
    BY <1>1, <2>2
    DEF LedgerSafe, LedgerTypeOK, BalanceExplained, PostEarning, PostDebit
<1>. QED  BY <1>3, <1>4, <1>5, <1>6 DEF LedgerSafe

-----------------------------------------------------------------------------
(* Reserving takes the amount out of the money that can be spent ...       *)
LEMMA ReserveFundsAvailable ==
  ASSUME NEW r \in Requests, LedgerSafe, ReserveFunds(r), balance' = balance
  PROVE  Amount[r] <= Available /\ Available' = Available - Amount[r]
<1>1. Amount[r] \in Nat
  BY AmountPositive
<1>. QED  BY <1>1 DEF LedgerSafe, LedgerTypeOK, ReserveFunds, Available

(* ... releasing an active reservation puts it back ...                    *)
LEMMA ReleaseReservationAvailable ==
  ASSUME NEW r \in Requests, LedgerSafe, ReleaseReservation(r),
         reservation[r] = "active", balance' = balance
  PROVE  Available' = Available + Amount[r]
<1>1. Amount[r] \in Nat
  BY AmountPositive
<1>2. reserved' = reserved - Amount[r]
  BY DEF ReleaseReservation, ReleasedReserve
<1>. QED  BY <1>1, <1>2 DEF LedgerSafe, LedgerTypeOK, Available

(* ... paying it out does not change it ...                                *)
LEMMA PayOutAvailable ==
  ASSUME NEW r \in Requests, LedgerSafe,
         ReleaseReservation(r), PostCashOutJournal(r),
         reservation[r] = "active", r \notin journal
  PROVE  Available' = Available
<1>1. Amount[r] \in Nat
  BY AmountPositive
<1>2. reserved' = reserved - Amount[r] /\ balance' = balance - Amount[r]
  BY DEF ReleaseReservation, ReleasedReserve, PostCashOutJournal
<1>. QED  BY <1>1, <1>2 DEF LedgerSafe, LedgerTypeOK, Available

(* ... and every other posting changes it by its amount.                   *)
LEMMA OtherPostingAvailable ==
  ASSUME NEW a \in Movements, LedgerSafe
  PROVE  /\ PostEarning(a) => Available' = Available + a
         /\ PostDebit(a) => a <= Available /\ Available' = Available - a
<1>1. a \in Nat
  BY MovementsPositive
<1>. QED
  BY <1>1 DEF LedgerSafe, LedgerTypeOK, PostEarning, PostDebit, Available

-----------------------------------------------------------------------------
(* A process that still has rows to submit remembers its lease token.      *)
TokenWithBatch ==
  \A w \in Workers, r \in Requests : Holds(w, r) => token[w] # NoToken

(* A destination is paid, and a request submitted, only once the first     *)
(* payout to the destination has cooled off.                               *)
CooledFirst ==
  /\ \A d \in Destinations : firstPaid[d] => cooled[d]
  /\ \A r \in Requests :
       (dueNow[r] \/ status[r] = "submitting") => cooled[DestOf[r]]
  /\ \A w \in Workers, r \in Requests : Holds(w, r) => cooled[DestOf[r]]

(* What every step of the core preserves.  CoreTypeOK and the ledger       *)
(* invariants are not inductive on their own: a payout is only backed      *)
(* because an open request still has its reservation (OpenIffReserved), a  *)
(* settled one never reopens because no token matches it any more          *)
(* (LeaseOnlyWhileSubmitting with TokenWithBatch).                         *)
CoreInv ==
  /\ CoreTypeOK
  /\ LedgerSafe
  /\ LeaseOnlyWhileSubmitting
  /\ OpenIffReserved
  /\ PaidIffPosted
  /\ FencedBatchIsCurrent
  /\ TokenWithBatch
  /\ CooledFirst

KeepsPromise == [Promise!Next]_(Promise!promiseVars)

-----------------------------------------------------------------------------
(* The core starts safe.                                                   *)
LEMMA CoreInitSafe == CoreInit => CoreInv
<1>. SUFFICES ASSUME CoreInit PROVE CoreInv
  OBVIOUS
<1>1. LedgerSafe
  BY LedgerInitSafe DEF CoreInit
<1>2. CoreTypeOK
  BY <1>1, MaxSubmitAttemptsNat
  DEF CoreInit, CoreTypeOK, LedgerSafe, Status, AttemptCount
<1>3. LeaseOnlyWhileSubmitting
  BY NoTokenFresh DEF CoreInit, LeaseOnlyWhileSubmitting
<1>4. OpenIffReserved /\ PaidIffPosted
  BY DEF CoreInit, LedgerInit, OpenIffReserved, PaidIffPosted, OpenStatuses,
         Terminal
<1>5. FencedBatchIsCurrent /\ TokenWithBatch /\ CooledFirst
  BY DestOfType
  DEF CoreInit, FencedBatchIsCurrent, TokenWithBatch, CooledFirst, Holds
<1>. QED  BY <1>1, <1>2, <1>3, <1>4, <1>5 DEF CoreInv

(* The initial state is the promise's.                                     *)
LEMMA CoreInitPromise == CoreInit => Promise!Init
<1>. SUFFICES ASSUME CoreInit PROVE Promise!Init
  OBVIOUS
<1>1. [r \in Requests |-> Phase(status[r])] = [r \in Requests |-> "none"]
  <2>1. Phase("none") = "none"
    BY DEF Phase, OpenStatuses
  <2>2. \A r \in Requests : Phase(status[r]) = "none"
    BY <2>1 DEF CoreInit
  <2>. QED  BY <2>2
<1>2. Available = OpeningBalance
  BY OpeningBalanceNat DEF CoreInit, LedgerInit, Available
<1>. QED  BY <1>1, <1>2 DEF Promise!Init

(* What the helper sees changes with the status of one request alone.      *)
LEMMA PhaseOfOne ==
  ASSUME NEW r \in Requests, NEW s \in Status, CoreTypeOK,
         status' = [status EXCEPT ![r] = s]
  PROVE  [q \in Requests |-> Phase(status'[q])]
           = [[q \in Requests |-> Phase(status[q])] EXCEPT ![r] = Phase(s)]
<1>1. \A q \in Requests : status'[q] = IF q = r THEN s ELSE status[q]
  BY DEF CoreTypeOK
<1>. DEFINE F == [q \in Requests |-> Phase(status[q])]
            G == [q \in Requests |-> Phase(status'[q])]
            H == [F EXCEPT ![r] = Phase(s)]
<1>2. \A q \in Requests : F[q] = Phase(status[q]) /\ G[q] = Phase(status'[q])
  OBVIOUS
<1>3. \A q \in Requests : H[q] = IF q = r THEN Phase(s) ELSE F[q]
  <2>1. DOMAIN F = Requests
    OBVIOUS
  <2>. HIDE DEF F
  <2>. QED  BY <2>1
<1>4. \A q \in Requests : G[q] = H[q]
  <2>. HIDE DEF F, G, H
  <2>. QED  BY <1>1, <1>2, <1>3
<1>. QED  BY <1>4

(* Which phase each status shows the helper.                               *)
LEMMA PhaseValues ==
  /\ Phase("none") = "none"
  /\ Phase("paid") = "paid"
  /\ \A s \in OpenStatuses : Phase(s) = "pending"
  /\ \A s \in Terminal \ {"paid"} : Phase(s) = "returned"
BY DEF Phase, OpenStatuses, Terminal

(* Three ways to keep the promise: no phase changes, a pending request is  *)
(* paid, a pending request gives its amount back.                          *)
LEMMA SamePhasePromise ==
  ASSUME CoreInv, Available' = Available,
         \A q \in Requests : Phase(status'[q]) = Phase(status[q])
  PROVE  KeepsPromise
<1>1. [q \in Requests |-> Phase(status'[q])]
        = [q \in Requests |-> Phase(status[q])]
  OBVIOUS
<1>. QED  BY <1>1 DEF KeepsPromise, Promise!promiseVars

(* A pending request is paid: what can be spent stays the same.            *)
LEMMA PayPromise ==
  ASSUME NEW r \in Requests, CoreInv, status[r] \in OpenStatuses,
         status' = [status EXCEPT ![r] = "paid"], Available' = Available
  PROVE  KeepsPromise
<1>1. [q \in Requests |-> Phase(status'[q])]
        = [[q \in Requests |-> Phase(status[q])] EXCEPT ![r] = "paid"]
  BY PhaseOfOne, PhaseValues DEF CoreInv, Status
<1>2. Phase(status[r]) = "pending"
  BY PhaseValues
<1>3. Promise!Pay(r)
  BY <1>1, <1>2 DEF Promise!Pay
<1>. QED  BY <1>3 DEF KeepsPromise, Promise!Next

(* A pending request ends otherwise: its amount can be spent again.        *)
LEMMA ReturnPromise ==
  ASSUME NEW r \in Requests, NEW s \in Terminal \ {"paid"}, CoreInv,
         status[r] \in OpenStatuses,
         status' = [status EXCEPT ![r] = s],
         Available' = Available + Amount[r]
  PROVE  KeepsPromise
<1>1. [q \in Requests |-> Phase(status'[q])]
        = [[q \in Requests |-> Phase(status[q])] EXCEPT ![r] = "returned"]
  <2>1. s \in Status /\ Phase(s) = "returned"
    BY PhaseValues DEF Status, Terminal
  <2>. QED  BY <2>1, PhaseOfOne DEF CoreInv
<1>2. Phase(status[r]) = "pending"
  BY PhaseValues
<1>3. Promise!Return(r)
  BY <1>1, <1>2 DEF Promise!Return
<1>. QED  BY <1>3 DEF KeepsPromise, Promise!Next

(* Requesting.                                                             *)
LEMMA RequestCashoutSafe ==
  ASSUME NEW r \in Requests, CoreInv, RequestCashout(r)
  PROVE  CoreInv'
<1>1. LedgerSafe'
  BY ReserveFundsSafe DEF CoreInv, RequestCashout
<1>2. CoreTypeOK'
  BY <1>1, DestOfType
  DEF CoreInv, CoreTypeOK, LedgerSafe, RequestCashout, Status, destVars,
      workerVars
<1>3. LeaseOnlyWhileSubmitting'
  BY DEF CoreInv, CoreTypeOK, LeaseOnlyWhileSubmitting, RequestCashout
<1>4. OpenIffReserved' /\ PaidIffPosted'
  BY DEF CoreInv, CoreTypeOK, LedgerTypeOK, OpenIffReserved, PaidIffPosted,
         OpenStatuses, Terminal, RequestCashout, ReserveFunds
<1>5. FencedBatchIsCurrent' /\ TokenWithBatch'
  BY DEF CoreInv, FencedBatchIsCurrent, TokenWithBatch, Holds, RequestCashout,
         workerVars
<1>6. CooledFirst'
  BY DestOfType
  DEF CoreInv, CoreTypeOK, CooledFirst, Holds, RequestCashout, workerVars,
      destVars
<1>. QED  BY <1>1, <1>2, <1>3, <1>4, <1>5, <1>6 DEF CoreInv

(* Requesting takes the amount out of what can be spent.                   *)
LEMMA RequestCashoutPromise ==
  ASSUME NEW r \in Requests, CoreInv, RequestCashout(r)
  PROVE  KeepsPromise
<1>1. PICK s \in {"requested", "held_for_review"} :
             status' = [status EXCEPT ![r] = s]
  BY DEF RequestCashout
<1>2. Phase(status[r]) = "none" /\ Phase(s) = "pending"
  BY DEF RequestCashout, Phase, OpenStatuses
<1>3. [q \in Requests |-> Phase(status'[q])]
        = [[q \in Requests |-> Phase(status[q])] EXCEPT ![r] = "pending"]
  BY <1>1, <1>2, PhaseOfOne DEF CoreInv, Status
<1>4. Amount[r] <= Available /\ Available' = Available - Amount[r]
  BY ReserveFundsAvailable DEF CoreInv, RequestCashout
<1>5. Promise!Accept(r)
  BY <1>2, <1>3, <1>4 DEF Promise!Accept
<1>. QED  BY <1>5 DEF KeepsPromise, Promise!Next

-----------------------------------------------------------------------------
(* Reviewing and canceling.                                                *)

(* The owner and a reviewer end a request in the same way: its funds are   *)
(* released and it takes a terminal status other than paid.                *)
EndsUnpaid(r, s) ==
  /\ status[r] \in {"requested", "held_for_review"}
  /\ ReleaseReservation(r)
  /\ status' = [status EXCEPT ![r] = s]
  /\ UNCHANGED <<balance, journal, netOther, reviewReason, attempts, lease,
                 leaseLive, dueNow, destVars, configured, workerVars>>

(* Ending a request unpaid gives its amount back and breaks nothing.       *)
LEMMA EndsUnpaidSafe ==
  ASSUME NEW r \in Requests, NEW s \in {"canceled", "rejected"}, CoreInv,
         EndsUnpaid(r, s)
  PROVE  CoreInv' /\ KeepsPromise
<1>1. LedgerSafe'
  BY ReleaseReservationSafe DEF CoreInv, EndsUnpaid
<1>2. CoreTypeOK'
  BY <1>1 DEF CoreInv, CoreTypeOK, LedgerSafe, EndsUnpaid, Status, destVars,
              workerVars
<1>3. LeaseOnlyWhileSubmitting'
  BY DEF CoreInv, CoreTypeOK, LeaseOnlyWhileSubmitting, EndsUnpaid
<1>4. reservation[r] = "active"
  BY DEF CoreInv, OpenIffReserved, EndsUnpaid, OpenStatuses
<1>5. OpenIffReserved' /\ PaidIffPosted'
  BY <1>4 DEF CoreInv, CoreTypeOK, LedgerTypeOK, OpenIffReserved, PaidIffPosted,
              OpenStatuses, Terminal, EndsUnpaid, ReleaseReservation
<1>6. FencedBatchIsCurrent' /\ TokenWithBatch'
  BY DEF CoreInv, FencedBatchIsCurrent, TokenWithBatch, Holds, EndsUnpaid,
         workerVars
<1>7. CooledFirst'
  BY DEF CoreInv, CoreTypeOK, CooledFirst, Holds, EndsUnpaid, workerVars,
         destVars
<1>8. KeepsPromise
  <2>1. Available' = Available + Amount[r]
    BY <1>4, ReleaseReservationAvailable DEF CoreInv, EndsUnpaid
  <2>2. status[r] \in OpenStatuses /\ s \in Terminal \ {"paid"}
    BY DEF EndsUnpaid, OpenStatuses, Terminal
  <2>. QED  BY <2>1, <2>2, ReturnPromise DEF EndsUnpaid
<1>. QED  BY <1>1, <1>2, <1>3, <1>5, <1>6, <1>7, <1>8 DEF CoreInv

(* Releasing a request from review moves it between open states.           *)
LEMMA ReleaseHeldSafe ==
  ASSUME NEW r \in Requests, CoreInv, ReleaseHeld(r)
  PROVE  CoreInv' /\ KeepsPromise
<1>1. PICK s \in {"requested", "submitted"} :
             status' = [status EXCEPT ![r] = s]
  BY DEF ReleaseHeld
<1>2. LedgerSafe'
  BY LedgerUnchangedSafe DEF CoreInv, ReleaseHeld
<1>3. CoreTypeOK'
  BY <1>1, <1>2 DEF CoreInv, CoreTypeOK, LedgerSafe, ReleaseHeld, Status,
                    destVars, workerVars
<1>4. LeaseOnlyWhileSubmitting'
  BY <1>1 DEF CoreInv, CoreTypeOK, LeaseOnlyWhileSubmitting, ReleaseHeld
<1>5. OpenIffReserved' /\ PaidIffPosted'
  BY <1>1 DEF CoreInv, CoreTypeOK, OpenIffReserved, PaidIffPosted,
              OpenStatuses, Terminal, ReleaseHeld, ledgerVars
<1>6. FencedBatchIsCurrent' /\ TokenWithBatch'
  BY DEF CoreInv, FencedBatchIsCurrent, TokenWithBatch, Holds, ReleaseHeld,
         workerVars
<1>7. CooledFirst'
  BY <1>1 DEF CoreInv, CoreTypeOK, CooledFirst, Holds, ReleaseHeld, workerVars,
              destVars
<1>8. KeepsPromise
  <2>1. status[r] \in OpenStatuses /\ status'[r] \in OpenStatuses
    BY <1>1 DEF CoreInv, CoreTypeOK, ReleaseHeld, OpenStatuses
  <2>2. \A q \in Requests : Phase(status'[q]) = Phase(status[q])
    BY <1>1, <2>1, PhaseValues DEF CoreInv, CoreTypeOK
  <2>3. Available' = Available
    BY DEF ReleaseHeld, ledgerVars, Available
  <2>. QED  BY <2>2, <2>3, SamePhasePromise
<1>. QED  BY <1>2, <1>3, <1>4, <1>5, <1>6, <1>7, <1>8 DEF CoreInv

(* Every step of the owner and the reviewers keeps the invariant.          *)
LEMMA RequestStepSafe ==
  ASSUME CoreInv, RequestStep
  PROVE  CoreInv' /\ KeepsPromise
<1>1. PICK r \in Requests : \/ RequestCashout(r) \/ CancelCashout(r)
                            \/ RejectHeld(r) \/ ReleaseHeld(r)
  BY DEF RequestStep
<1>2. CASE RequestCashout(r)
  BY <1>2, RequestCashoutSafe, RequestCashoutPromise
<1>3. CASE CancelCashout(r)
  <2>1. EndsUnpaid(r, "canceled")
    BY <1>3 DEF CancelCashout, EndsUnpaid
  <2>. QED  BY <2>1, EndsUnpaidSafe
<1>4. CASE RejectHeld(r)
  <2>1. EndsUnpaid(r, "rejected")
    BY <1>4 DEF RejectHeld, EndsUnpaid
  <2>. QED  BY <2>1, EndsUnpaidSafe
<1>5. CASE ReleaseHeld(r)
  BY <1>5, ReleaseHeldSafe
<1>. QED  BY <1>1, <1>2, <1>3, <1>4, <1>5

-----------------------------------------------------------------------------
(* Settling, and what else a worker does with a row of its batch.          *)

(* A step on one row either leaves the workers alone or is the end of one  *)
(* worker's dealing with that row.                                         *)
LeavesBatch(r) ==
  UNCHANGED workerVars \/ \E w \in Workers : DropFromBatch(w, r)

(* A worker that drops a row keeps its token for its other rows.           *)
LEMMA LeavesBatchFacts ==
  ASSUME NEW r \in Requests, CoreInv, LeavesBatch(r)
  PROVE  /\ token' \in [Workers -> Tokens \cup {NoToken}]
         /\ batch' \in [Workers -> [Requests -> AttemptCount]]
         /\ \A v \in Workers, q \in Requests :
              Holds(v, q)' => /\ Holds(v, q)
                              /\ token'[v] = token[v]
                              /\ batch'[v][q] = batch[v][q]
<1>1. CASE UNCHANGED workerVars
  BY <1>1 DEF CoreInv, CoreTypeOK, workerVars, Holds
<1>2. ASSUME NEW w \in Workers, DropFromBatch(w, r)
      PROVE  /\ token' \in [Workers -> Tokens \cup {NoToken}]
             /\ batch' \in [Workers -> [Requests -> AttemptCount]]
             /\ \A v \in Workers, q \in Requests :
                  Holds(v, q)' => /\ Holds(v, q)
                                  /\ token'[v] = token[v]
                                  /\ batch'[v][q] = batch[v][q]
  <2>1. 0 \in AttemptCount
    BY MaxSubmitAttemptsNat DEF AttemptCount
  <2>2. token' \in [Workers -> Tokens \cup {NoToken}]
    BY <1>2 DEF CoreInv, CoreTypeOK, DropFromBatch
  <2>3. batch' \in [Workers -> [Requests -> AttemptCount]]
    BY <1>2, <2>1 DEF CoreInv, CoreTypeOK, DropFromBatch
  <2>4. \A v \in Workers, q \in Requests :
          batch'[v][q] = IF v = w /\ q = r THEN 0 ELSE batch[v][q]
    BY <1>2 DEF CoreInv, CoreTypeOK, DropFromBatch
  <2>5. ASSUME NEW v \in Workers, NEW q \in Requests, Holds(v, q)'
        PROVE  /\ Holds(v, q)
               /\ token'[v] = token[v]
               /\ batch'[v][q] = batch[v][q]
    <3>1. Holds(v, q) /\ batch'[v][q] = batch[v][q] /\ ~(v = w /\ q = r)
      BY <2>4, <2>5 DEF Holds
    <3>2. token'[v] = token[v]
      BY <1>2, <3>1 DEF CoreInv, CoreTypeOK, DropFromBatch, Holds
    <3>. QED  BY <3>1, <3>2
  <2>. QED  BY <2>2, <2>3, <2>5
<1>. QED  BY <1>1, <1>2 DEF LeavesBatch

(* Such a step leaves every other row's lease as it is.                    *)
RowStep(r) ==
  /\ LeavesBatch(r)
  /\ lease' = lease \/ lease' = [lease EXCEPT ![r] = NoToken]
  /\ UNCHANGED <<attempts, cooled>>

(* A step on one row can not make an old token match again.                *)
LEMMA RowStepKeepsFence ==
  ASSUME NEW r \in Requests, CoreInv, RowStep(r)
  PROVE  /\ FencedBatchIsCurrent'
         /\ TokenWithBatch'
         /\ \A w \in Workers, q \in Requests :
              Holds(w, q)' => cooled'[DestOf[q]]
<1>1. \A v \in Workers, q \in Requests :
        Holds(v, q)' => /\ Holds(v, q)
                        /\ token'[v] = token[v]
                        /\ batch'[v][q] = batch[v][q]
  BY LeavesBatchFacts DEF RowStep
<1>2. \A q \in Requests : lease'[q] \in {lease[q], NoToken}
  BY DEF CoreInv, CoreTypeOK, RowStep
<1>3. attempts' = attempts /\ cooled' = cooled
  BY DEF RowStep
<1>4. FencedBatchIsCurrent'
  <2>. SUFFICES ASSUME NEW w \in Workers, NEW q \in Requests,
                       Holds(w, q)', token'[w] # NoToken, lease'[q] = token'[w]
                PROVE  batch'[w][q] = attempts'[q]
    BY DEF FencedBatchIsCurrent
  <2>. QED  BY <1>1, <1>2, <1>3 DEF CoreInv, FencedBatchIsCurrent
<1>5. TokenWithBatch'
  BY <1>1 DEF CoreInv, TokenWithBatch
<1>6. \A w \in Workers, q \in Requests : Holds(w, q)' => cooled'[DestOf[q]]
  BY <1>1, <1>3 DEF CoreInv, CooledFirst
<1>. QED  BY <1>4, <1>5, <1>6

(* A settlement either does nothing or takes one of its three branches.    *)
LEMMA SettleCases ==
  ASSUME NEW r \in Requests, NEW t, NEW o \in {"paid", "failed", "submitted"},
         Settle(r, t, o)
  PROVE  \/ UNCHANGED <<ledgerVars, rowVars, firstPaid>>
         \/ /\ CanSettle(r, t)
            /\ ClearLease(r)
            /\ UNCHANGED <<netOther, reviewReason, attempts, dueNow>>
            /\ \/ o = "paid" /\ SettlePaid(r)
               \/ o = "failed" /\ SettleFailed(r)
               \/ o = "submitted" /\ SettleSubmitted(r)
<1>1. CASE CanSettle(r, t)
  BY <1>1 DEF Settle
<1>2. CASE ~CanSettle(r, t)
  BY <1>2 DEF Settle, ledgerVars, rowVars
<1>. QED  BY <1>1, <1>2

(* Settling, by a worker or without one, whatever token and outcome.       *)
LEMMA SettleSafe ==
  ASSUME NEW r \in Requests, NEW t, NEW o \in {"paid", "failed", "submitted"},
         CoreInv, Settle(r, t, o), LeavesBatch(r), cooled[DestOf[r]],
         UNCHANGED <<destStatus, disabling, cooled, configured>>
  PROVE  CoreInv' /\ KeepsPromise
<1>. DEFINE Done == /\ CanSettle(r, t)
                    /\ ClearLease(r)
                    /\ UNCHANGED <<netOther, reviewReason, attempts, dueNow>>
<1>1. CASE UNCHANGED <<ledgerVars, rowVars, firstPaid>>
  <2>1. RowStep(r)
    BY <1>1 DEF RowStep, rowVars
  <2>2. LedgerSafe'
    BY <1>1, LedgerUnchangedSafe DEF CoreInv
  <2>3. CoreTypeOK'
    BY <1>1, <2>2, LeavesBatchFacts
    DEF CoreInv, CoreTypeOK, LedgerSafe, rowVars
  <2>4. LeaseOnlyWhileSubmitting' /\ OpenIffReserved' /\ PaidIffPosted'
    BY <1>1
    DEF CoreInv, LeaseOnlyWhileSubmitting, OpenIffReserved, PaidIffPosted,
        rowVars, ledgerVars
  <2>5. CooledFirst'
    BY <1>1, <2>1, RowStepKeepsFence DEF CoreInv, CooledFirst, rowVars
  <2>6. KeepsPromise
    BY <1>1, SamePhasePromise DEF rowVars, ledgerVars, Available
  <2>. QED
    BY <2>1, <2>2, <2>3, <2>4, <2>5, <2>6, RowStepKeepsFence DEF CoreInv
<1>2. ASSUME Done, \/ o = "paid" /\ SettlePaid(r)
                   \/ o = "failed" /\ SettleFailed(r)
                   \/ o = "submitted" /\ SettleSubmitted(r)
      PROVE  CoreInv' /\ KeepsPromise
  <2>1. status' = [status EXCEPT ![r] = o]
    BY <1>2 DEF SettlePaid, SettleFailed, SettleSubmitted
  <2>2. RowStep(r)
    BY <1>2 DEF RowStep, ClearLease
  <2>3. /\ status[r] \in OpenStatuses
        /\ reservation[r] = "active"
        /\ r \notin journal
    BY <1>2
    DEF CanSettle, CoreInv, OpenIffReserved, PaidIffPosted, OpenStatuses
  <2>4. LedgerSafe'
    <3>1. CASE o = "paid"
      BY <1>2, <3>1, PayOutSafe DEF SettlePaid, CoreInv
    <3>2. CASE o = "failed"
      BY <1>2, <3>2, ReleaseReservationSafe DEF SettleFailed, CoreInv
    <3>3. CASE o = "submitted"
      BY <1>2, <3>3, LedgerUnchangedSafe
      DEF SettleSubmitted, CoreInv, ledgerVars
    <3>. QED  BY <3>1, <3>2, <3>3
  <2>5. firstPaid' \in {firstPaid, [firstPaid EXCEPT ![DestOf[r]] = TRUE]}
    BY <1>2 DEF SettlePaid, SettleFailed, SettleSubmitted
  <2>6. CoreTypeOK'
    BY <1>2, <2>1, <2>4, <2>5, LeavesBatchFacts, DestOfType
    DEF CoreInv, CoreTypeOK, LedgerSafe, ClearLease, Status
  <2>7. LeaseOnlyWhileSubmitting'
    BY <1>2, <2>1
    DEF CoreInv, CoreTypeOK, LeaseOnlyWhileSubmitting, ClearLease
  <2>8. /\ \A q \in Requests \ {r} : reservation'[q] = reservation[q]
        /\ reservation'[r] = IF o = "submitted" THEN "active" ELSE "released"
        /\ journal' = IF o = "paid" THEN journal \cup {r} ELSE journal
    BY <1>2, <2>3
    DEF SettlePaid, SettleFailed, SettleSubmitted, ReleaseReservation,
        PostCashOutJournal, CoreInv, CoreTypeOK, LedgerTypeOK
  <2>9. OpenIffReserved' /\ PaidIffPosted'
    <3>1. \A q \in Requests : status'[q] = IF q = r THEN o ELSE status[q]
      BY <2>1 DEF CoreInv, CoreTypeOK
    <3>2. OpenIffReserved'
      BY <2>8, <3>1 DEF CoreInv, OpenIffReserved, OpenStatuses, Terminal
    <3>3. PaidIffPosted'
      BY <2>3, <2>8, <3>1 DEF CoreInv, PaidIffPosted
    <3>. QED  BY <3>2, <3>3
  <2>10. CooledFirst'
    BY <1>2, <2>1, <2>2, <2>5, RowStepKeepsFence, DestOfType
    DEF CoreInv, CoreTypeOK, CooledFirst
  <2>11. KeepsPromise
    <3>1. CASE o = "paid"
      <4>1. Available' = Available
        BY <1>2, <2>3, <3>1, PayOutAvailable DEF SettlePaid, CoreInv
      <4>. QED  BY <2>1, <2>3, <3>1, <4>1, PayPromise
    <3>2. CASE o = "failed"
      <4>1. Available' = Available + Amount[r]
        BY <1>2, <2>3, <3>2, ReleaseReservationAvailable
        DEF SettleFailed, CoreInv
      <4>. QED  BY <2>1, <2>3, <3>2, <4>1, ReturnPromise DEF Terminal
    <3>3. CASE o = "submitted"
      <4>1. Available' = Available
        BY <1>2, <3>3 DEF SettleSubmitted, Available
      <4>2. \A q \in Requests : Phase(status'[q]) = Phase(status[q])
        BY <2>1, <2>3, <3>3, PhaseValues DEF CoreInv, CoreTypeOK, OpenStatuses
      <4>. QED  BY <4>1, <4>2, SamePhasePromise
    <3>. QED  BY <3>1, <3>2, <3>3
  <2>. QED
    BY <2>2, <2>4, <2>6, <2>7, <2>9, <2>10, <2>11, RowStepKeepsFence
    DEF CoreInv
<1>. HIDE DEF Done
<1>. QED  BY <1>1, <1>2, SettleCases DEF Done

(* Giving back, parking for review and failing to submit move one row      *)
(* between open states, or only end the worker's dealing with it.          *)
OpenRowStep(r) ==
  /\ RowStep(r)
  /\ UNCHANGED <<ledgerVars, dueNow, destVars, configured>>
  /\ reviewReason' \in
       {reviewReason, [reviewReason EXCEPT ![r] = "partner_outcome_unknown"]}
  /\ \/ UNCHANGED <<status, lease, leaseLive>>
     \/ /\ status[r] = "submitting"
        /\ \E s \in {"requested", "held_for_review"} :
             status' = [status EXCEPT ![r] = s]
        /\ ClearLease(r)

(* A step between open states keeps the invariant and the promise.         *)
LEMMA OpenRowStepSafe ==
  ASSUME NEW r \in Requests, CoreInv, OpenRowStep(r)
  PROVE  CoreInv' /\ KeepsPromise
<1>1. RowStep(r)
  BY DEF OpenRowStep
<1>2. LedgerSafe'
  BY LedgerUnchangedSafe DEF CoreInv, OpenRowStep
<1>3. \/ UNCHANGED <<status, lease, leaseLive>>
      \/ \E s \in {"requested", "held_for_review"} :
           /\ status[r] = "submitting"
           /\ status' = [status EXCEPT ![r] = s]
           /\ ClearLease(r)
  BY DEF OpenRowStep
<1>4. CoreTypeOK'
  <2>1. status' \in [Requests -> Status]
    BY <1>3 DEF CoreInv, CoreTypeOK, Status
  <2>2. /\ lease' \in [Requests -> Tokens \cup {NoToken}]
        /\ leaseLive' \in [Requests -> BOOLEAN]
    BY <1>3 DEF CoreInv, CoreTypeOK, ClearLease
  <2>3. reviewReason' \in [Requests -> {"none", "rule",
                                         "partner_outcome_unknown"}]
    BY DEF CoreInv, CoreTypeOK, OpenRowStep
  <2>4. /\ token' \in [Workers -> Tokens \cup {NoToken}]
        /\ batch' \in [Workers -> [Requests -> AttemptCount]]
    BY <1>1, LeavesBatchFacts DEF RowStep
  <2>. QED
    BY <1>2, <2>1, <2>2, <2>3, <2>4
    DEF CoreInv, CoreTypeOK, LedgerSafe, OpenRowStep, RowStep, destVars
<1>5. LeaseOnlyWhileSubmitting'
  BY <1>3 DEF CoreInv, CoreTypeOK, LeaseOnlyWhileSubmitting, ClearLease
<1>6. UNCHANGED <<reservation, journal>>
  BY DEF OpenRowStep, ledgerVars
<1>7. OpenIffReserved' /\ PaidIffPosted'
  BY <1>3, <1>6 DEF CoreInv, CoreTypeOK, OpenIffReserved, PaidIffPosted,
                    OpenStatuses, Terminal
<1>8. CooledFirst'
  BY <1>1, <1>3, RowStepKeepsFence
  DEF CoreInv, CoreTypeOK, CooledFirst, OpenRowStep, destVars
<1>9. KeepsPromise
  <2>1. \A q \in Requests : Phase(status'[q]) = Phase(status[q])
    BY <1>3, PhaseValues DEF CoreInv, CoreTypeOK, OpenStatuses
  <2>2. Available' = Available
    BY DEF OpenRowStep, ledgerVars, Available
  <2>. QED  BY <2>1, <2>2, SamePhasePromise
<1>. QED
  BY <1>1, <1>2, <1>4, <1>5, <1>7, <1>8, <1>9, RowStepKeepsFence DEF CoreInv

(* A token that still matches the row says that it is still submitting.    *)
LEMMA MatchingTokenMeansSubmitting ==
  ASSUME NEW w \in Workers, NEW r \in Requests, CoreInv, Holds(w, r),
         lease[r] = token[w]
  PROVE  status[r] = "submitting"
BY DEF CoreInv, LeaseOnlyWhileSubmitting, TokenWithBatch

(* Giving back is fenced by the lease token, and so is harmless.           *)
LEMMA GiveBackSafe ==
  ASSUME NEW w \in Workers, NEW r \in Requests, CoreInv, GiveBack(w, r)
  PROVE  CoreInv' /\ KeepsPromise
<1>1. RowStep(r)
  BY DEF GiveBack, RowStep, LeavesBatch, ClearLease, destVars
<1>2. lease[r] = token[w] => status[r] = "submitting"
  BY MatchingTokenMeansSubmitting DEF GiveBack
<1>3. OpenRowStep(r)
  BY <1>1, <1>2 DEF GiveBack, OpenRowStep
<1>. QED  BY <1>3, OpenRowStepSafe

(* Parking a request for review is fenced and so is harmless.              *)
LEMMA HoldUnknownOutcomeSafe ==
  ASSUME NEW w \in Workers, NEW r \in Requests, CoreInv,
         HoldUnknownOutcome(w, r)
  PROVE  CoreInv' /\ KeepsPromise
<1>1. RowStep(r)
  BY DEF HoldUnknownOutcome, RowStep, LeavesBatch, ClearLease, destVars
<1>2. OpenRowStep(r)
  BY <1>1 DEF HoldUnknownOutcome, OpenRowStep
<1>. QED  BY <1>2, OpenRowStepSafe

(* A submission that throws changes nothing but the batch.                 *)
LEMMA SubmitErrorSafe ==
  ASSUME NEW w \in Workers, NEW r \in Requests, CoreInv, SubmitError(w, r)
  PROVE  CoreInv' /\ KeepsPromise
<1>1. RowStep(r)
  BY DEF SubmitError, RowStep, LeavesBatch, rowVars, destVars
<1>2. OpenRowStep(r)
  BY <1>1 DEF SubmitError, OpenRowStep, rowVars
<1>. QED  BY <1>2, OpenRowStepSafe

-----------------------------------------------------------------------------
(* Claiming, switching the partner, crashing.                              *)
LEMMA SaturatedType ==
  ASSUME NEW n \in AttemptCount
  PROVE  Saturated(n) \in AttemptCount /\ Saturated(n) # 0
BY MaxSubmitAttemptsNat DEF AttemptCount, Saturated

(* A claim's token is new, so no other worker's token matches a row.       *)
LEMMA ClaimDueSafe ==
  ASSUME NEW w \in Workers, CoreInv, ClaimDue(w)
  PROVE  CoreInv' /\ KeepsPromise
<1>1. PICK S \in SUBSET Claimable \ {{}}, t \in FreshTokens :
        /\ status' = [r \in Requests |->
                        IF r \in S THEN "submitting" ELSE status[r]]
        /\ lease' = [r \in Requests |-> IF r \in S THEN t ELSE lease[r]]
        /\ leaseLive' = [r \in Requests |-> r \in S \/ leaseLive[r]]
        /\ attempts' = [r \in Requests |->
                          IF r \in S THEN Saturated(attempts[r])
                          ELSE attempts[r]]
        /\ token' = [token EXCEPT ![w] = t]
        /\ batch' = [batch EXCEPT ![w] =
             [r \in Requests |-> IF r \in S THEN Saturated(attempts[r]) ELSE 0]]
  BY DEF ClaimDue
<1>2. UNCHANGED <<ledgerVars, reviewReason, dueNow, destVars, configured>>
  BY DEF ClaimDue
<1>3. /\ \A r \in S : /\ r \in Requests
                      /\ status[r] \in {"requested", "submitting"}
                      /\ cooled[DestOf[r]]
      /\ t \in Tokens /\ t # NoToken
      /\ \A r \in Requests : lease[r] # t
      /\ \A v \in Workers : token[v] # t
  <2>1. \A r \in S : Due(r) => cooled[DestOf[r]]
    BY DEF Claimable, Due, CoreInv, CooledFirst
  <2>. QED
    BY <2>1, NoTokenFresh
    DEF Claimable, FreshTokens, CoreInv, CooledFirst
<1>4. \A r \in Requests : /\ Saturated(attempts[r]) \in AttemptCount
                          /\ Saturated(attempts[r]) # 0
  BY SaturatedType DEF CoreInv, CoreTypeOK
<1>5. \A v \in Workers, r \in Requests :
        batch'[v][r] = IF v = w
                       THEN IF r \in S THEN Saturated(attempts[r]) ELSE 0
                       ELSE batch[v][r]
  BY <1>1 DEF CoreInv, CoreTypeOK
<1>6. \A v \in Workers : token'[v] = IF v = w THEN t ELSE token[v]
  BY <1>1 DEF CoreInv, CoreTypeOK
<1>7. LedgerSafe'
  BY <1>2, LedgerUnchangedSafe DEF CoreInv
<1>8. CoreTypeOK'
  <2>1. /\ status' \in [Requests -> Status]
        /\ lease' \in [Requests -> Tokens \cup {NoToken}]
        /\ leaseLive' \in [Requests -> BOOLEAN]
        /\ attempts' \in [Requests -> AttemptCount]
    BY <1>1, <1>3, <1>4 DEF CoreInv, CoreTypeOK, Status
  <2>2. token' \in [Workers -> Tokens \cup {NoToken}]
    BY <1>1, <1>3 DEF CoreInv, CoreTypeOK
  <2>3. batch' \in [Workers -> [Requests -> AttemptCount]]
    <3>1. 0 \in AttemptCount
      BY MaxSubmitAttemptsNat DEF AttemptCount
    <3>2. [r \in Requests |-> IF r \in S THEN Saturated(attempts[r]) ELSE 0]
            \in [Requests -> AttemptCount]
      BY <1>4, <3>1
    <3>. QED  BY <1>1, <3>2 DEF CoreInv, CoreTypeOK
  <2>. QED
    BY <1>2, <1>7, <2>1, <2>2, <2>3
    DEF CoreInv, CoreTypeOK, LedgerSafe, destVars
<1>9. LeaseOnlyWhileSubmitting'
  BY <1>1, <1>3 DEF CoreInv, LeaseOnlyWhileSubmitting
<1>10. OpenIffReserved' /\ PaidIffPosted'
  BY <1>1, <1>2, <1>3
  DEF CoreInv, OpenIffReserved, PaidIffPosted, OpenStatuses, Terminal,
      ledgerVars
<1>11. FencedBatchIsCurrent'
  <2>. SUFFICES ASSUME NEW v \in Workers, NEW r \in Requests,
                       Holds(v, r)', token'[v] # NoToken, lease'[r] = token'[v]
                PROVE  batch'[v][r] = attempts'[r]
    BY DEF FencedBatchIsCurrent
  <2>1. CASE v = w
    BY <1>1, <1>5, <2>1 DEF Holds
  <2>2. CASE v # w
    <3>1. r \notin S
      BY <1>1, <1>3, <1>6, <2>2
    <3>. QED
      BY <1>1, <1>5, <1>6, <2>2, <3>1 DEF CoreInv, FencedBatchIsCurrent, Holds
  <2>. QED  BY <2>1, <2>2
<1>12. TokenWithBatch'
  BY <1>3, <1>5, <1>6 DEF CoreInv, TokenWithBatch, Holds
<1>13. CooledFirst'
  BY <1>1, <1>2, <1>3, <1>5 DEF CoreInv, CooledFirst, Holds, destVars
<1>14. KeepsPromise
  <2>1. \A q \in Requests : Phase(status'[q]) = Phase(status[q])
    BY <1>1, <1>3, PhaseValues DEF OpenStatuses
  <2>2. Available' = Available
    BY <1>2 DEF ledgerVars, Available
  <2>. QED  BY <2>1, <2>2, SamePhasePromise
<1>. QED
  BY <1>7, <1>8, <1>9, <1>10, <1>11, <1>12, <1>13, <1>14 DEF CoreInv

(* A restart with another configuration, and a crash, touch no row.        *)
LEMMA RestartSafe ==
  ASSUME NEW w \in Workers, CoreInv, SwitchPartner(w) \/ WorkerCrash(w)
  PROVE  CoreInv' /\ KeepsPromise
<1>1. UNCHANGED <<ledgerVars, rowVars, destVars>>
  BY DEF SwitchPartner, WorkerCrash
<1>2. /\ configured' \in [Workers -> BOOLEAN]
      /\ token' \in [Workers -> Tokens \cup {NoToken}]
      /\ batch' \in [Workers -> [Requests -> AttemptCount]]
  <2>1. 0 \in AttemptCount
    BY MaxSubmitAttemptsNat DEF AttemptCount
  <2>2. CASE SwitchPartner(w)
    BY <2>2 DEF SwitchPartner, CoreInv, CoreTypeOK, workerVars
  <2>3. CASE WorkerCrash(w)
    <3>1. [r \in Requests |-> 0] \in [Requests -> AttemptCount]
      BY <2>1
    <3>. QED  BY <2>3, <3>1 DEF WorkerCrash, CoreInv, CoreTypeOK
  <2>. QED  BY <2>2, <2>3
<1>3. \A v \in Workers, q \in Requests :
        Holds(v, q)' => /\ Holds(v, q)
                        /\ token'[v] = token[v]
                        /\ batch'[v][q] = batch[v][q]
  BY DEF SwitchPartner, WorkerCrash, CoreInv, CoreTypeOK, workerVars, Holds
<1>4. LedgerSafe'
  BY <1>1, LedgerUnchangedSafe DEF CoreInv
<1>5. CoreTypeOK'
  BY <1>1, <1>2, <1>4
  DEF CoreInv, CoreTypeOK, LedgerSafe, rowVars, destVars
<1>6. LeaseOnlyWhileSubmitting' /\ OpenIffReserved' /\ PaidIffPosted'
  BY <1>1 DEF CoreInv, LeaseOnlyWhileSubmitting, OpenIffReserved,
              PaidIffPosted, rowVars, ledgerVars
<1>7. FencedBatchIsCurrent' /\ TokenWithBatch'
  BY <1>1, <1>3 DEF CoreInv, FencedBatchIsCurrent, TokenWithBatch, rowVars
<1>8. CooledFirst'
  BY <1>1, <1>3 DEF CoreInv, CooledFirst, rowVars, destVars
<1>9. KeepsPromise
  BY <1>1, SamePhasePromise DEF rowVars, ledgerVars, Available
<1>. QED  BY <1>4, <1>5, <1>6, <1>7, <1>8, <1>9 DEF CoreInv

(* Every step of a process outside of its rail keeps the invariant.        *)
LEMMA WorkerStepSafe ==
  ASSUME NEW w \in Workers, CoreInv, WorkerStep(w) \/ WorkerCrash(w)
  PROVE  CoreInv' /\ KeepsPromise
BY ClaimDueSafe, RestartSafe, GiveBackSafe, HoldUnknownOutcomeSafe,
   SubmitErrorSafe
DEF WorkerStep

-----------------------------------------------------------------------------
(* The environment.                                                        *)

(* Time passes and destinations are disabled: no row changes but for the   *)
(* liveness of leases, and cooling-off only ever ends.                     *)
QuietStep ==
  /\ UNCHANGED <<ledgerVars, status, reviewReason, attempts, lease, dueNow,
                 firstPaid, configured, workerVars>>
  /\ leaseLive' \in [Requests -> BOOLEAN]
  /\ destStatus' \in [Destinations -> {"verified", "disabled"}]
  /\ disabling' \in [Destinations -> BOOLEAN]
  /\ cooled' \in [Destinations -> BOOLEAN]
  /\ \A d \in Destinations : cooled[d] => cooled'[d]

(* Passing time and disabled destinations break nothing.                   *)
LEMMA QuietStepSafe ==
  ASSUME CoreInv, QuietStep
  PROVE  CoreInv' /\ KeepsPromise
<1>1. LedgerSafe'
  BY LedgerUnchangedSafe DEF CoreInv, QuietStep
<1>2. CoreTypeOK'
  BY <1>1 DEF CoreInv, CoreTypeOK, LedgerSafe, QuietStep, workerVars
<1>3. LeaseOnlyWhileSubmitting' /\ OpenIffReserved' /\ PaidIffPosted'
  BY DEF CoreInv, LeaseOnlyWhileSubmitting, OpenIffReserved, PaidIffPosted,
         QuietStep, ledgerVars
<1>4. FencedBatchIsCurrent' /\ TokenWithBatch'
  BY DEF CoreInv, FencedBatchIsCurrent, TokenWithBatch, Holds, QuietStep,
         workerVars
<1>5. CooledFirst'
  BY DestOfType DEF CoreInv, CooledFirst, Holds, QuietStep, workerVars
<1>6. KeepsPromise
  BY SamePhasePromise DEF QuietStep, ledgerVars, Available
<1>. QED  BY <1>1, <1>2, <1>3, <1>4, <1>5, <1>6 DEF CoreInv

(* Other postings change what can be spent by their amount alone.          *)
LEMMA OtherPostingStepSafe ==
  ASSUME CoreInv, OtherPosting
  PROVE  CoreInv' /\ KeepsPromise
<1>1. PICK a \in Movements : PostEarning(a) \/ PostDebit(a)
  BY DEF OtherPosting
<1>2. UNCHANGED <<rowVars, destVars, configured, workerVars>>
  BY DEF OtherPosting
<1>3. LedgerSafe'
  BY <1>1, OtherPostingSafe DEF CoreInv
<1>4. CoreTypeOK'
  BY <1>2, <1>3
  DEF CoreInv, CoreTypeOK, LedgerSafe, rowVars, destVars, workerVars
<1>5. UNCHANGED <<reservation, journal>>
  BY <1>1 DEF PostEarning, PostDebit
<1>6. LeaseOnlyWhileSubmitting' /\ OpenIffReserved' /\ PaidIffPosted'
  BY <1>2, <1>5 DEF CoreInv, LeaseOnlyWhileSubmitting, OpenIffReserved,
                    PaidIffPosted, rowVars
<1>7. FencedBatchIsCurrent' /\ TokenWithBatch' /\ CooledFirst'
  BY <1>2 DEF CoreInv, FencedBatchIsCurrent, TokenWithBatch, CooledFirst, Holds,
              rowVars, destVars, workerVars
<1>8. KeepsPromise
  <2>1. [q \in Requests |-> Phase(status'[q])]
          = [q \in Requests |-> Phase(status[q])]
    BY <1>2 DEF rowVars
  <2>2. \/ Available' = Available + a
        \/ a <= Available /\ Available' = Available - a
    BY <1>1, OtherPostingAvailable DEF CoreInv
  <2>3. Promise!Earn(a) \/ Promise!Spend(a)
    BY <2>1, <2>2 DEF Promise!Earn, Promise!Spend
  <2>. QED  BY <2>3 DEF KeepsPromise, Promise!Next
<1>. QED  BY <1>3, <1>4, <1>6, <1>7, <1>8 DEF CoreInv

(* Every step of the environment keeps the invariant.                      *)
LEMMA EnvironmentStepSafe ==
  ASSUME CoreInv, EnvironmentStep
  PROVE  CoreInv' /\ KeepsPromise
<1>1. ASSUME NEW r \in Requests, LeaseExpires(r) PROVE QuietStep
  BY <1>1 DEF LeaseExpires, QuietStep, CoreInv, CoreTypeOK, destVars
<1>2. ASSUME NEW d \in Destinations, CoolingOffEnds(d) PROVE QuietStep
  BY <1>2 DEF CoolingOffEnds, QuietStep, CoreInv, CoreTypeOK, rowVars
<1>3. ASSUME NEW d \in Destinations, DisableCheck(d) \/ DisableWrite(d)
      PROVE  QuietStep
  BY <1>3 DEF DisableCheck, DisableWrite, QuietStep, CoreInv, CoreTypeOK,
              rowVars
<1>. QED
  BY <1>1, <1>2, <1>3, QuietStepSafe, OtherPostingStepSafe DEF EnvironmentStep

(* Nothing changes the core.                                               *)
LEMMA CoreUnchangedSafe ==
  ASSUME CoreInv, UNCHANGED coreVars
  PROVE  CoreInv' /\ KeepsPromise
<1>1. QuietStep
  BY DEF QuietStep, coreVars, rowVars, destVars, CoreInv, CoreTypeOK
<1>. QED  BY <1>1, QuietStepSafe

-----------------------------------------------------------------------------
(* What the steps leave alone.                                             *)

(* Besides settling, nothing moves a request that was submitted or has     *)
(* ended, pays or fails one, or takes back that a cooling-off has ended.   *)
CoreFrame ==
  /\ \A r \in Requests :
       /\ status[r] \in Terminal \cup {"submitted"} => status'[r] = status[r]
       /\ status'[r] \in {"paid", "failed"} => status'[r] = status[r]
  /\ \A d \in Destinations : cooled[d] => cooled'[d]

(* Owners and reviewers move only requests that are not submitted.         *)
LEMMA RequestStepFrame ==
  ASSUME CoreInv, RequestStep
  PROVE  CoreFrame
<1>1. PICK r \in Requests : \/ RequestCashout(r) \/ CancelCashout(r)
                            \/ RejectHeld(r) \/ ReleaseHeld(r)
  BY DEF RequestStep
<1>2. cooled' = cooled
  BY <1>1 DEF RequestCashout, CancelCashout, RejectHeld, ReleaseHeld, destVars
<1>3. PICK s \in Status \ {"paid", "failed"} :
             status' = [status EXCEPT ![r] = s]
  BY <1>1 DEF RequestCashout, CancelCashout, RejectHeld, ReleaseHeld, Status
<1>4. status[r] \in {"none", "requested", "held_for_review"}
  BY <1>1 DEF RequestCashout, CancelCashout, RejectHeld, ReleaseHeld
<1>. QED
  BY <1>2, <1>3, <1>4 DEF CoreFrame, CoreInv, CoreTypeOK, Terminal

(* Workers move only rows that are requested or being submitted.           *)
LEMMA WorkerStepFrame ==
  ASSUME NEW w \in Workers, CoreInv, WorkerStep(w) \/ WorkerCrash(w)
  PROVE  CoreFrame
<1>1. cooled' = cooled
  BY DEF WorkerStep, WorkerCrash, ClaimDue, SwitchPartner, GiveBack,
         HoldUnknownOutcome, SubmitError, destVars
<1>2. CASE ClaimDue(w)
  <2>1. PICK S \in SUBSET Claimable :
               status' = [r \in Requests |->
                            IF r \in S THEN "submitting" ELSE status[r]]
    BY <1>2 DEF ClaimDue
  <2>. QED
    BY <1>1, <2>1 DEF CoreFrame, Claimable, Terminal
<1>3. CASE SwitchPartner(w) \/ WorkerCrash(w)
  BY <1>1, <1>3 DEF SwitchPartner, WorkerCrash, rowVars, CoreFrame
<1>4. ASSUME NEW r \in Requests, GiveBack(w, r)
      PROVE  CoreFrame
  <2>1. lease[r] = token[w] => status[r] = "submitting"
    BY <1>4, MatchingTokenMeansSubmitting DEF GiveBack
  <2>2. \/ status' = status
        \/ /\ status[r] = "submitting"
           /\ status' = [status EXCEPT ![r] = "requested"]
    BY <1>4, <2>1 DEF GiveBack
  <2>. QED  BY <1>1, <2>2 DEF CoreFrame, CoreInv, CoreTypeOK, Terminal
<1>5. ASSUME NEW r \in Requests, HoldUnknownOutcome(w, r)
      PROVE  CoreFrame
  <2>1. \/ status' = status
        \/ /\ status[r] = "submitting"
           /\ status' = [status EXCEPT ![r] = "held_for_review"]
    BY <1>5 DEF HoldUnknownOutcome
  <2>. QED  BY <1>1, <2>1 DEF CoreFrame, CoreInv, CoreTypeOK, Terminal
<1>6. ASSUME NEW r \in Requests, SubmitError(w, r)
      PROVE  CoreFrame
  BY <1>1, <1>6 DEF SubmitError, rowVars, CoreFrame
<1>. QED  BY <1>2, <1>3, <1>4, <1>5, <1>6 DEF WorkerStep

(* The environment moves no request.                                       *)
LEMMA EnvironmentStepFrame ==
  ASSUME CoreInv, EnvironmentStep
  PROVE  CoreFrame
<1>1. status' = status
  BY DEF EnvironmentStep, LeaseExpires, CoolingOffEnds, DisableCheck,
         DisableWrite, OtherPosting, rowVars
<1>2. \A d \in Destinations : cooled[d] => cooled'[d]
  BY DEF EnvironmentStep, LeaseExpires, CoolingOffEnds, DisableCheck,
         DisableWrite, OtherPosting, destVars, CoreInv, CoreTypeOK
<1>. QED  BY <1>1, <1>2 DEF CoreFrame

(* Settling leaves every other request alone, and one that has ended.      *)
LEMMA SettleFrame ==
  ASSUME NEW r \in Requests, NEW t, NEW o \in {"paid", "failed", "submitted"},
         CoreInv, Settle(r, t, o)
  PROVE  \A q \in Requests :
           \/ status'[q] = status[q]
           \/ q = r /\ status[q] \notin Terminal /\ status'[q] = o
<1>1. CASE UNCHANGED <<ledgerVars, rowVars, firstPaid>>
  BY <1>1 DEF rowVars
<1>2. CASE CanSettle(r, t) /\ status' = [status EXCEPT ![r] = o]
  BY <1>2 DEF CanSettle, CoreInv, CoreTypeOK, Terminal
<1>. QED
  BY <1>1, <1>2, SettleCases DEF SettlePaid, SettleFailed, SettleSubmitted
=============================================================================
