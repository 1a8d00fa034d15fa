------------------------- MODULE JobPayment_proofs --------------------------
(***************************************************************************)
(* The money of a job, for any prices and any number of holds, intents,    *)
(* change orders, switches and faults.                                     *)
(***************************************************************************)
EXTENDS JobCharges, TLAPS

-----------------------------------------------------------------------------
(* The card authorization keeps its row, its intents and its attempts in   *)
(* step.                                                                   *)

(* The row names an intent that exists, and asks it for no more than it    *)
(* has, until the intent is captured.                                      *)
RowHasIntent ==
  /\ payment.status = "none" <=> payment.intent = NoIntent
  /\ payment.intent # NoIntent => intent[payment.intent].state # "none"

WithinIntent ==
  payment.intent # NoIntent /\ intent[payment.intent].state # "captured"
    => /\ payment.amount <= intent[payment.intent].amount
       /\ payment.authorized <= intent[payment.intent].amount

(* Between the capture at the provider and the commit the row stays open   *)
(* and keeps the amount that was captured: it is locked.                   *)
CaptureInHand == completing # "no" => OpenPayment /\ Taken

(* Webhooks tell of what the provider did for good.                        *)
EventsTrue ==
  \A i \in Intents :
    /\ <<"captured", i>> \in events => intent[i].state = "captured"
    /\ <<"canceled", i>> \in events => intent[i].state = "canceled"

AttemptHasIntent ==
  \A i \in Intents : attempt[i] # "none" => intent[i].state # "none"

CardInv ==
  /\ CardTypeOK
  /\ RowHasIntent
  /\ WithinIntent
  /\ CaptureInHand
  /\ CapturedIsTaken
  /\ IncreaseIsFlagged
  /\ EventsTrue
  /\ AttemptHasIntent

(* Who sees to an intent that can still hold the customer's money: the row,*)
(* an open attempt, a cancellation in memory, or the webhook of a closed   *)
(* attempt, which is still to come when the intent is not confirmed yet.   *)
Watched(i) ==
  \/ i = payment.intent \/ attempt[i] = "pending" \/ i \in releasing
  \/ attempt[i] = "closed" /\ intent[i].state = "confirmable"
  \/ attempt[i] = "closed" /\ <<"authorized", i>> \in events

AllWatched ==
  \A i \in Intents : intent[i].state \in {"confirmable", "authorized"} => Watched(i)

-----------------------------------------------------------------------------
(* Asking the provider to cancel an intent changes neither its amount nor  *)
(* whether it exists, and nothing of one that is captured or canceled.     *)
LEMMA CanceledKeeps ==
  ASSUME CardTypeOK, NEW i \in Intents
  PROVE  /\ Canceled(i) \in [state : IntentStates, amount : Nat]
         /\ Canceled(i).amount = intent[i].amount
         /\ Canceled(i).state \notin {"confirmable", "authorized"}
         /\ intent[i].state \in {"none", "captured", "canceled"} => Canceled(i) = intent[i]
         /\ intent[i].state \in {"confirmable", "authorized"} => Canceled(i).state = "canceled"
  BY DEF CardTypeOK, Canceled, IntentStates

(* What is missing is never negative.                                      *)
LEMMA ShortfallNat ==
  ASSUME NEW due \in Nat, NEW funded \in Nat
  PROVE  Shortfall(due, funded) \in Nat
  BY DEF Shortfall

(* Finalizing an attempt: the row moves onto an intent that exists, for    *)
(* exactly its amount, or nothing but the attempt changes.                 *)
LEMMA FinalizeSafe ==
  ASSUME CardInv, completing = "no",
         NEW i \in Intents, intent[i].state # "none", Finalize(i),
         UNCHANGED <<intent, quoted, completing>>, events' \subseteq events
  PROVE  CardInv'
<1>1. CASE attempt[i] = "pending" /\ payment.status = "authorized"
  <2>1. /\ payment' = [status |-> "authorized", intent |-> i, amount |-> intent[i].amount,
                       authorized |-> intent[i].amount, capture |-> intent[i].amount,
                       increase |-> 0]
        /\ attempt' = [attempt EXCEPT ![i] = "authorized"]
        /\ cardFlag' = "none"
        /\ releasing' = releasing \cup {payment.intent}
    BY <1>1 DEF Finalize
  <2>2. payment.intent \in Intents
    BY <1>1 DEF CardInv, CardTypeOK, RowHasIntent
  <2>3. CardTypeOK'
    BY <2>1, <2>2 DEF CardInv, CardTypeOK, PaymentStatuses
  <2>4. RowHasIntent' /\ WithinIntent'
    BY <2>1 DEF CardInv, CardTypeOK, RowHasIntent, WithinIntent, NoIntent, Intents
  <2>5. CaptureInHand' /\ CapturedIsTaken' /\ IncreaseIsFlagged'
    BY <2>1 DEF CaptureInHand, CapturedIsTaken, IncreaseIsFlagged
  <2>6. EventsTrue' /\ AttemptHasIntent'
    BY <2>1 DEF CardInv, CardTypeOK, EventsTrue, AttemptHasIntent
  <2>. QED  BY <2>3, <2>4, <2>5, <2>6 DEF CardInv
<1>2. CASE ~(attempt[i] = "pending" /\ payment.status = "authorized")
  <2>1. /\ attempt' = [attempt EXCEPT ![i] = "closed"]
        /\ releasing' = releasing \cup {i}
        /\ UNCHANGED <<payment, cardFlag>>
    BY <1>2 DEF Finalize
  <2>2. CardTypeOK'
    BY <2>1 DEF CardInv, CardTypeOK
  <2>3. RowHasIntent' /\ WithinIntent'
    BY <2>1 DEF CardInv, RowHasIntent, WithinIntent
  <2>4. CaptureInHand' /\ CapturedIsTaken' /\ IncreaseIsFlagged'
    BY <2>1 DEF CardInv, CaptureInHand, CapturedIsTaken, IncreaseIsFlagged, Taken,
                CaptureAmount
  <2>5. EventsTrue' /\ AttemptHasIntent'
    BY <2>1 DEF CardInv, CardTypeOK, EventsTrue, AttemptHasIntent
  <2>. QED  BY <2>2, <2>3, <2>4, <2>5 DEF CardInv
<1>. QED  BY <1>1, <1>2

(* An attempt that is resumed or confirmed is finalized, or closed because *)
(* the provider canceled its intent.                                       *)
LEMMA ResumeAttemptSafe ==
  ASSUME CardInv, NEW i \in Intents, ResumeAttempt(i)
  PROVE  CardInv'
  BY FinalizeSafe DEF ResumeAttempt, RowFree

(* The browser confirms an attempt the same way.                           *)
LEMMA ConfirmAttemptSafe ==
  ASSUME CardInv, NEW i \in Intents, ConfirmAttempt(i)
  PROVE  CardInv'
<1>1. CASE intent[i].state = "authorized"
  BY <1>1, FinalizeSafe DEF ConfirmAttempt, RowFree
<1>2. CASE intent[i].state # "authorized"
  <2>1. /\ attempt' = [attempt EXCEPT ![i] = "closed"]
        /\ intent[i].state = "canceled"
        /\ UNCHANGED <<payment, cardFlag, releasing, intent, events, quoted, completing>>
    BY <1>2 DEF ConfirmAttempt
  <2>2. CardTypeOK' /\ AttemptHasIntent'
    BY <2>1 DEF CardInv, CardTypeOK, AttemptHasIntent
  <2>3. UNCHANGED <<RowHasIntent, WithinIntent, CaptureInHand, CapturedIsTaken,
                    IncreaseIsFlagged, EventsTrue>>
    BY <2>1 DEF RowHasIntent, WithinIntent, CaptureInHand, CapturedIsTaken, Taken,
                CaptureAmount, OpenPayment, IncreaseIsFlagged, EventsTrue
  <2>. QED  BY <2>2, <2>3 DEF CardInv
<1>. QED  BY <1>1, <1>2

(* The webhook of an authorization finalizes an attempt or opens the row,  *)
(* never one that is captured.                                             *)
LEMMA DeliverAuthorizedSafe ==
  ASSUME CardInv, NEW i \in Intents, DeliverAuthorized(i)
  PROVE  CardInv'
<1>1. /\ completing = "no" /\ events' \subseteq events
      /\ UNCHANGED <<intent, quoted, completing>>
  BY DEF DeliverAuthorized, RowFree
<1>2. CASE attempt[i] \in {"pending", "closed"}
  <2>1. Finalize(i)
    BY <1>2 DEF DeliverAuthorized
  <2>. QED  BY <1>1, <1>2, <2>1, FinalizeSafe DEF CardInv, AttemptHasIntent
<1>3. CASE attempt[i] \in {"none", "authorized"}
  <2>1. /\ UNCHANGED <<attempt, cardFlag, releasing>>
        /\ \/ UNCHANGED payment
           \/ /\ payment.intent = i /\ payment.status # "captured"
              /\ payment' = [payment EXCEPT !.status = "authorized"]
    BY <1>3 DEF DeliverAuthorized
  <2>2. CardTypeOK'
    BY <1>1, <2>1 DEF CardInv, CardTypeOK, PaymentStatuses
  <2>3. RowHasIntent' /\ WithinIntent' /\ IncreaseIsFlagged'
    BY <1>1, <2>1 DEF CardInv, CardTypeOK, RowHasIntent, WithinIntent, IncreaseIsFlagged,
                      NoIntent, Intents
  <2>4. CaptureInHand' /\ CapturedIsTaken'
    BY <1>1, <2>1 DEF CardInv, CardTypeOK, CaptureInHand, CapturedIsTaken, Taken,
                      CaptureAmount
  <2>5. EventsTrue' /\ AttemptHasIntent'
    BY <1>1, <2>1 DEF CardInv, EventsTrue, AttemptHasIntent
  <2>. QED  BY <2>2, <2>3, <2>4, <2>5 DEF CardInv
<1>. QED  BY <1>2, <1>3 DEF CardInv, CardTypeOK

(* A change order: one case for each status of the row.                    *)
LEMMA RepriceCardSafe ==
  ASSUME CardInv, NEW target \in Nat, RepriceCard(target)
  PROVE  CardInv'
<1>1. completing = "no" /\ UNCHANGED <<events, releasing, quoted, completing>>
  BY DEF RepriceCard, RowFree
<1>2. CASE payment.status = "pending"
  <2>1. /\ payment' = [payment EXCEPT !.capture = target,
                          !.increase = Shortfall(target, payment.authorized)]
        /\ cardFlag' = "reprice"
        /\ UNCHANGED <<intent, attempt>>
    BY <1>2 DEF RepriceCard
  <2>2. CardTypeOK'
    BY <1>1, <2>1, ShortfallNat DEF CardInv, CardTypeOK
  <2>3. RowHasIntent' /\ WithinIntent' /\ IncreaseIsFlagged'
    BY <1>1, <2>1 DEF CardInv, CardTypeOK, RowHasIntent, WithinIntent, IncreaseIsFlagged
  <2>4. CaptureInHand' /\ CapturedIsTaken'
    BY <1>1, <1>2, <2>1 DEF CardInv, CardTypeOK, CaptureInHand, CapturedIsTaken
  <2>5. EventsTrue' /\ AttemptHasIntent'
    BY <1>1, <2>1 DEF CardInv, EventsTrue, AttemptHasIntent
  <2>. QED  BY <2>2, <2>3, <2>4, <2>5 DEF CardInv
<1>3. CASE payment.status = "authorized" /\ target <= payment.authorized
  <2>1. /\ payment' = [payment EXCEPT !.amount = target, !.capture = target, !.increase = 0]
        /\ cardFlag' = "none"
        /\ attempt' = [i \in Intents |-> IF i \in OpenAttempts THEN "closed" ELSE attempt[i]]
        /\ intent' = [i \in Intents |-> IF i \in OpenAttempts THEN Canceled(i) ELSE intent[i]]
    BY <1>3 DEF RepriceCard, CardInv, CardTypeOK
  <2>2. CardTypeOK'
    BY <1>1, <2>1, CanceledKeeps DEF CardInv, CardTypeOK
  <2>3. \A i \in Intents :
          /\ intent'[i].amount = intent[i].amount
          /\ intent[i].state # "none" => intent'[i].state # "none"
          /\ intent[i].state \in {"captured", "canceled"} => intent'[i] = intent[i]
    <3>1. CardTypeOK
      BY DEF CardInv
    <3>. SUFFICES ASSUME NEW i \in Intents
                  PROVE  /\ intent'[i].amount = intent[i].amount
                         /\ intent[i].state # "none" => intent'[i].state # "none"
                         /\ intent[i].state \in {"captured", "canceled"} =>
                              intent'[i] = intent[i]
      OBVIOUS
    <3>2. intent'[i] \in {Canceled(i), intent[i]}
      BY <2>1
    <3>. QED  BY <3>1, <3>2, CanceledKeeps DEF CardTypeOK, IntentStates
  <2>4. RowHasIntent'
    BY <2>1, <2>3 DEF CardInv, CardTypeOK, RowHasIntent
  <2>5. WithinIntent'
    BY <1>3, <2>1, <2>3 DEF CardInv, CardTypeOK, WithinIntent
  <2>6. CaptureInHand' /\ CapturedIsTaken' /\ IncreaseIsFlagged'
    BY <1>1, <1>3, <2>1 DEF CardInv, CardTypeOK, CaptureInHand, CapturedIsTaken,
                            IncreaseIsFlagged
  <2>7. EventsTrue' /\ AttemptHasIntent'
    BY <1>1, <2>1, <2>3 DEF CardInv, EventsTrue, AttemptHasIntent, OpenAttempts
  <2>. QED  BY <2>2, <2>4, <2>5, <2>6, <2>7 DEF CardInv
<1>4. CASE payment.status = "authorized" /\ target > payment.authorized
  <2>1. /\ payment' = [payment EXCEPT !.capture = payment.authorized,
                                      !.increase = target - payment.authorized]
        /\ cardFlag' = "reauthorize"
        /\ UNCHANGED <<intent, attempt>>
    BY <1>4 DEF RepriceCard, CardInv, CardTypeOK
  <2>2. CardTypeOK'
    <3>1. payment.authorized \in Nat /\ target - payment.authorized \in Nat
      BY <1>4 DEF CardInv, CardTypeOK
    <3>. QED  BY <1>1, <2>1, <3>1 DEF CardInv, CardTypeOK
  <2>3. RowHasIntent' /\ WithinIntent' /\ IncreaseIsFlagged'
    BY <1>1, <2>1 DEF CardInv, CardTypeOK, RowHasIntent, WithinIntent, IncreaseIsFlagged
  <2>4. CaptureInHand' /\ CapturedIsTaken'
    BY <1>1, <1>4, <2>1 DEF CardInv, CardTypeOK, CaptureInHand, CapturedIsTaken
  <2>5. EventsTrue' /\ AttemptHasIntent'
    BY <1>1, <2>1 DEF CardInv, EventsTrue, AttemptHasIntent
  <2>. QED  BY <2>2, <2>3, <2>4, <2>5 DEF CardInv
<1>5. CASE payment.status \notin {"pending", "authorized"}
  <2>1. UNCHANGED <<payment, intent, attempt, cardFlag>>
    BY <1>5 DEF RepriceCard
  <2>. QED
    BY <1>1, <2>1
    DEF CardInv, CardTypeOK, RowHasIntent, WithinIntent, CaptureInHand, CapturedIsTaken,
        Taken, CaptureAmount, OpenPayment, IncreaseIsFlagged, EventsTrue, AttemptHasIntent
<1>. QED  BY <1>2, <1>3, <1>4, <1>5 DEF CardInv, CardTypeOK

(* The intent and the row are re-priced together.                          *)
LEMMA RepriceIntentSafe ==
  ASSUME CardInv, RepriceIntent
  PROVE  CardInv'
<1>1. /\ completing = "no" /\ OpenPayment
      /\ intent[payment.intent].state = "confirmable"
      /\ intent' = [intent EXCEPT ![payment.intent].amount = payment.capture]
      /\ payment' = [payment EXCEPT !.amount = payment.capture,
                                 !.authorized = payment.capture, !.increase = 0]
      /\ cardFlag' = "none"
      /\ UNCHANGED <<attempt, events, releasing, quoted, completing>>
  BY DEF RepriceIntent, RowFree
<1>2. payment.intent \in Intents
  BY <1>1 DEF CardInv, CardTypeOK, RowHasIntent, OpenPayment
<1>3. /\ intent'[payment.intent] = [state |-> "confirmable", amount |-> payment.capture]
      /\ \A i \in Intents : intent'[i].state = intent[i].state
  BY <1>1, <1>2 DEF CardInv, CardTypeOK
<1>4. CardTypeOK'
  BY <1>1, <1>2 DEF CardInv, CardTypeOK
<1>5. RowHasIntent' /\ WithinIntent' /\ IncreaseIsFlagged'
  BY <1>1, <1>3 DEF CardInv, CardTypeOK, RowHasIntent, WithinIntent, IncreaseIsFlagged
<1>6. CaptureInHand' /\ CapturedIsTaken'
  BY <1>1 DEF CardInv, CardTypeOK, CaptureInHand, CapturedIsTaken, OpenPayment
<1>7. EventsTrue' /\ AttemptHasIntent'
  BY <1>1, <1>3 DEF CardInv, EventsTrue, AttemptHasIntent
<1>. QED  BY <1>4, <1>5, <1>6, <1>7 DEF CardInv

(* A row found confirmed after all is short by what the flag says.         *)
LEMMA RepriceBecomesReplacementSafe ==
  ASSUME CardInv, RepriceBecomesReplacement
  PROVE  CardInv'
<1>1. PICK funded : funded = intent[payment.intent].amount
  OBVIOUS
<1>2. /\ completing = "no" /\ OpenPayment
      /\ payment' = [payment EXCEPT !.status = "authorized", !.capture = funded,
                                    !.increase = Shortfall(payment.capture, funded)]
      /\ cardFlag' = "reauthorize"
      /\ UNCHANGED <<intent, attempt, events, releasing, quoted, completing>>
  BY <1>1 DEF RepriceBecomesReplacement, RowFree
<1>3. funded \in Nat
  BY <1>1, <1>2 DEF CardInv, CardTypeOK, RowHasIntent, OpenPayment
<1>4. CardTypeOK'
  <2>1. payment.capture \in Nat
    BY DEF CardInv, CardTypeOK
  <2>2. Shortfall(payment.capture, funded) \in Nat
    BY <1>3, <2>1, ShortfallNat
  <2>. QED  BY <1>2, <1>3, <2>2 DEF CardInv, CardTypeOK, PaymentStatuses
<1>5. RowHasIntent' /\ WithinIntent' /\ IncreaseIsFlagged'
  BY <1>2 DEF CardInv, CardTypeOK, RowHasIntent, WithinIntent, IncreaseIsFlagged,
              OpenPayment
<1>6. CaptureInHand' /\ CapturedIsTaken'
  BY <1>2 DEF CardInv, CardTypeOK, CaptureInHand, CapturedIsTaken
<1>7. EventsTrue' /\ AttemptHasIntent'
  BY <1>2 DEF CardInv, EventsTrue, AttemptHasIntent
<1>. QED  BY <1>4, <1>5, <1>6, <1>7 DEF CardInv

(* Reading the price changes no payment.                                   *)
LEMMA ReadPriceSafe ==
  ASSUME CardInv, NEW q \in Nat, ReadPrice(q)
  PROVE  CardInv'
<1>1. CardTypeOK' /\ RowHasIntent' /\ WithinIntent'
  BY DEF ReadPrice, CardInv, CardTypeOK, RowHasIntent, WithinIntent
<1>2. CaptureInHand' /\ CapturedIsTaken' /\ IncreaseIsFlagged'
  BY DEF ReadPrice, CardInv, CaptureInHand, CapturedIsTaken, IncreaseIsFlagged,
         OpenPayment
<1>3. EventsTrue' /\ AttemptHasIntent'
  BY DEF ReadPrice, CardInv, EventsTrue, AttemptHasIntent
<1>. QED  BY <1>1, <1>2, <1>3 DEF CardInv

(* A new row is backed by a new intent of the same amount.                 *)
LEMMA InsertPaymentSafe ==
  ASSUME CardInv, InsertPayment
  PROVE  CardInv'
<1>1. CardTypeOK' /\ RowHasIntent' /\ WithinIntent'
  BY DEF InsertPayment, CardInv, CardTypeOK, RowHasIntent, WithinIntent,
         NextIntent, NoIntent, Intents, PaymentStatuses, IntentStates
<1>2. CaptureInHand' /\ CapturedIsTaken' /\ IncreaseIsFlagged'
  BY DEF InsertPayment, CardInv, CaptureInHand, CapturedIsTaken,
         IncreaseIsFlagged, OpenPayment
<1>3. EventsTrue' /\ AttemptHasIntent'
  BY DEF InsertPayment, CardInv, EventsTrue, AttemptHasIntent, NextIntent
<1>. QED  BY <1>1, <1>2, <1>3 DEF CardInv

(* Only an intent that is not captured can be confirmed or lapse.          *)
LEMMA CustomerConfirmsSafe ==
  ASSUME CardInv, NEW i \in Intents, CustomerConfirms(i)
  PROVE  CardInv'
<1>1. CardTypeOK' /\ RowHasIntent' /\ WithinIntent'
  BY DEF CustomerConfirms, CardInv, CardTypeOK, RowHasIntent, WithinIntent,
         Events, IntentStates
<1>2. CaptureInHand' /\ CapturedIsTaken' /\ IncreaseIsFlagged'
  BY DEF CustomerConfirms, CardInv, CaptureInHand, CapturedIsTaken, Taken,
         CaptureAmount, IncreaseIsFlagged, OpenPayment
<1>3. EventsTrue' /\ AttemptHasIntent'
  BY DEF CustomerConfirms, CardInv, EventsTrue, AttemptHasIntent
<1>. QED  BY <1>1, <1>2, <1>3 DEF CardInv

(* An authorization that lapses was not captured.                          *)
LEMMA AuthorizationLapsesSafe ==
  ASSUME CardInv, NEW i \in Intents, AuthorizationLapses(i)
  PROVE  CardInv'
<1>1. CardTypeOK' /\ RowHasIntent' /\ WithinIntent'
  BY DEF AuthorizationLapses, CardInv, CardTypeOK, RowHasIntent, WithinIntent,
         Events, IntentStates
<1>2. CaptureInHand' /\ CapturedIsTaken' /\ IncreaseIsFlagged'
  BY DEF AuthorizationLapses, CardInv, CaptureInHand, CapturedIsTaken, Taken,
         CaptureAmount, IncreaseIsFlagged, OpenPayment
<1>3. EventsTrue' /\ AttemptHasIntent'
  BY DEF AuthorizationLapses, CardInv, CardTypeOK, EventsTrue, AttemptHasIntent
<1>. QED  BY <1>1, <1>2, <1>3 DEF CardInv

(* A new attempt takes a new intent and cancels those of open attempts.    *)
LEMMA StartAttemptSafe ==
  ASSUME CardInv, StartAttempt
  PROVE  CardInv'
<1>1. CardTypeOK' /\ RowHasIntent' /\ WithinIntent'
  <2>1. PICK i \in NextIntent :
          /\ intent' = [j \in Intents |->
                          IF j = i THEN [state |-> "confirmable", amount |-> Target]
                          ELSE IF j \in OpenAttempts THEN Canceled(j) ELSE intent[j]]
          /\ attempt' = [j \in Intents |->
                           IF j = i THEN "pending"
                           ELSE IF j \in OpenAttempts THEN "closed" ELSE attempt[j]]
    BY DEF StartAttempt
  <2>2. UNCHANGED <<payment, events, releasing, cardFlag, quoted, completing>>
    BY DEF StartAttempt
  <2>3. Target \in Nat
    BY DEF Target, CardInv, CardTypeOK
  <2>4. \A j \in Intents : Canceled(j) \in [state : IntentStates, amount : Nat]
    BY CanceledKeeps DEF CardInv
  <2>5. CardTypeOK'
    BY <2>1, <2>2, <2>3, <2>4 DEF CardInv, CardTypeOK, IntentStates
  <2>6. i \in Intents /\ intent[i].state = "none"
    BY DEF NextIntent
  <2>7. ASSUME payment.intent # NoIntent
        PROVE  /\ intent'[payment.intent].amount = intent[payment.intent].amount
               /\ intent'[payment.intent].state # "none"
               /\ intent'[payment.intent].state # "captured" =>
                    intent[payment.intent].state # "captured"
    <3>1. payment.intent \in Intents \ {i}
      BY <2>6, <2>7 DEF CardInv, CardTypeOK, RowHasIntent
    <3>2. intent'[payment.intent] \in {Canceled(payment.intent), intent[payment.intent]}
      BY <2>1, <3>1
    <3>3. intent[payment.intent].state \in IntentStates \ {"none"}
      BY <2>7, <3>1 DEF CardInv, CardTypeOK, RowHasIntent
    <3>. QED  BY <3>1, <3>2, <3>3, CanceledKeeps DEF CardInv, IntentStates
  <2>8. RowHasIntent'
    BY <2>2, <2>7 DEF CardInv, RowHasIntent
  <2>9. WithinIntent'
    BY <2>2, <2>7 DEF CardInv, WithinIntent
  <2>. QED  BY <2>5, <2>8, <2>9
<1>2. CaptureInHand' /\ CapturedIsTaken' /\ IncreaseIsFlagged'
  BY DEF StartAttempt, CaptureInHand, CapturedIsTaken, IncreaseIsFlagged,
         OpenPayment, RowFree
<1>3. EventsTrue' /\ AttemptHasIntent'
  BY DEF StartAttempt, CardInv, EventsTrue, AttemptHasIntent, OpenAttempts,
         NextIntent, Canceled
<1>. QED  BY <1>1, <1>2, <1>3 DEF CardInv

(* Closing an attempt touches neither the row nor an intent.               *)
LEMMA ExpireAttemptSafe ==
  ASSUME CardInv, NEW i \in Intents, ExpireAttempt(i)
  PROVE  CardInv'
<1>1. CardTypeOK' /\ RowHasIntent' /\ WithinIntent'
  BY DEF ExpireAttempt, CardInv, CardTypeOK, RowHasIntent, WithinIntent
<1>2. CaptureInHand' /\ CapturedIsTaken' /\ IncreaseIsFlagged'
  BY DEF ExpireAttempt, CardInv, CaptureInHand, CapturedIsTaken, Taken,
         CaptureAmount, IncreaseIsFlagged, OpenPayment
<1>3. EventsTrue' /\ AttemptHasIntent'
  BY DEF ExpireAttempt, CardInv, EventsTrue, AttemptHasIntent
<1>. QED  BY <1>1, <1>2, <1>3 DEF CardInv

(* A cancellation after the commit finds a captured intent as it is.       *)
LEMMA RunReleaseSafe ==
  ASSUME CardInv, NEW i \in Intents, RunRelease(i)
  PROVE  CardInv'
<1>1. CardTypeOK' /\ RowHasIntent' /\ WithinIntent'
  BY DEF RunRelease, CardInv, CardTypeOK, RowHasIntent, WithinIntent, Canceled,
         Events, IntentStates
<1>2. CaptureInHand' /\ CapturedIsTaken' /\ IncreaseIsFlagged'
  BY DEF RunRelease, CardInv, CaptureInHand, CapturedIsTaken, Taken,
         CaptureAmount, IncreaseIsFlagged, OpenPayment, Canceled
<1>3. EventsTrue' /\ AttemptHasIntent'
  BY DEF RunRelease, CardInv, EventsTrue, AttemptHasIntent, Canceled
<1>. QED  BY <1>1, <1>2, <1>3 DEF CardInv

(* The webhook of a cancellation spares a captured row.                    *)
LEMMA DeliverCanceledSafe ==
  ASSUME CardInv, NEW i \in Intents, DeliverCanceled(i)
  PROVE  CardInv'
<1>1. CardTypeOK' /\ RowHasIntent' /\ WithinIntent'
  BY DEF DeliverCanceled, CardInv, CardTypeOK, RowHasIntent, WithinIntent,
         NoIntent, Intents, PaymentStatuses
<1>2. CaptureInHand' /\ CapturedIsTaken' /\ IncreaseIsFlagged'
  BY DEF DeliverCanceled, CardInv, CaptureInHand, CapturedIsTaken, Taken,
         CaptureAmount, IncreaseIsFlagged, RowFree
<1>3. EventsTrue' /\ AttemptHasIntent'
  BY DEF DeliverCanceled, CardInv, EventsTrue, AttemptHasIntent
<1>. QED  BY <1>1, <1>2, <1>3 DEF CardInv

(* The webhook of a capture takes the row only at the amount captured.     *)
LEMMA DeliverCapturedSafe ==
  ASSUME CardInv, NEW i \in Intents, DeliverCaptured(i)
  PROVE  CardInv'
<1>1. CardTypeOK' /\ RowHasIntent' /\ WithinIntent'
  <2>1. \/ UNCHANGED payment
        \/ /\ payment.intent = i
           /\ payment' = [payment EXCEPT !.status = "captured"]
    BY DEF DeliverCaptured
  <2>2. UNCHANGED <<intent, attempt, releasing, cardFlag, quoted, completing>>
        /\ events' = events \ {<<"captured", i>>}
    BY DEF DeliverCaptured
  <2>3. CardTypeOK'
    BY <2>1, <2>2 DEF CardInv, CardTypeOK, PaymentStatuses
  <2>4. /\ payment'.intent = payment.intent /\ payment'.amount = payment.amount
        /\ payment'.authorized = payment.authorized /\ payment'.capture = payment.capture
        /\ payment'.status # payment.status =>
             payment'.status = "captured" /\ payment.intent = i
    BY <2>1 DEF CardInv, CardTypeOK
  <2>5. i # NoIntent
    BY DEF Intents, NoIntent
  <2>. QED
    BY <2>2, <2>3, <2>4, <2>5 DEF CardInv, RowHasIntent, WithinIntent
<1>2. CaptureInHand' /\ CapturedIsTaken' /\ IncreaseIsFlagged'
  BY DEF DeliverCaptured, CardInv, CardTypeOK, CaptureInHand, CapturedIsTaken,
         Taken, CaptureAmount, IncreaseIsFlagged, EventsTrue, RowFree,
         IntentStates
<1>3. EventsTrue' /\ AttemptHasIntent'
  BY DEF DeliverCaptured, CardInv, EventsTrue, AttemptHasIntent
<1>. QED  BY <1>1, <1>2, <1>3 DEF CardInv

(* Capturing at the provider, and the end of the transaction it was part   *)
(* of.                                                                     *)
LEMMA CaptureAtProviderSafe ==
  ASSUME CardInv, NEW who \in {"customer", "auto"}, CaptureAtProvider(who)
  PROVE  CardInv'
<1>1. CardTypeOK' /\ RowHasIntent' /\ WithinIntent'
  BY DEF CaptureAtProvider, CardInv, CardTypeOK, RowHasIntent, WithinIntent,
         CaptureAmount, Smaller, OpenPayment, Events, IntentStates
<1>2. CaptureInHand' /\ CapturedIsTaken' /\ IncreaseIsFlagged'
  BY DEF CaptureAtProvider, CardInv, CardTypeOK, RowHasIntent, CaptureInHand,
         CapturedIsTaken, Taken, CaptureAmount, IncreaseIsFlagged, OpenPayment
<1>3. EventsTrue' /\ AttemptHasIntent'
  BY DEF CaptureAtProvider, CardInv, CardTypeOK, EventsTrue, AttemptHasIntent
<1>. QED  BY <1>1, <1>2, <1>3 DEF CardInv

(* The commit takes what the provider has captured.                        *)
LEMMA CommitCaptureSafe ==
  ASSUME CardInv, completing # "no", CommitCapture
  PROVE  CardInv'
<1>1. CardTypeOK' /\ RowHasIntent' /\ WithinIntent'
  BY DEF CommitCapture, CardInv, CardTypeOK, RowHasIntent, WithinIntent,
         CaptureInHand, OpenPayment, PaymentStatuses
<1>2. CaptureInHand' /\ CapturedIsTaken' /\ IncreaseIsFlagged'
  BY DEF CommitCapture, CardInv, CaptureInHand, CapturedIsTaken, Taken,
         CaptureAmount, IncreaseIsFlagged
<1>3. EventsTrue' /\ AttemptHasIntent'
  BY DEF CommitCapture, CardInv, EventsTrue, AttemptHasIntent
<1>. QED  BY <1>1, <1>2, <1>3 DEF CardInv

(* A rollback leaves the row open and the capture at the provider.         *)
LEMMA AbandonCaptureSafe ==
  ASSUME CardInv, AbandonCapture
  PROVE  CardInv'
<1>1. CardTypeOK' /\ RowHasIntent' /\ WithinIntent'
  BY DEF AbandonCapture, CardInv, CardTypeOK, RowHasIntent, WithinIntent
<1>2. CaptureInHand' /\ CapturedIsTaken' /\ IncreaseIsFlagged'
  BY DEF AbandonCapture, CardInv, CaptureInHand, CapturedIsTaken, Taken,
         CaptureAmount, IncreaseIsFlagged
<1>3. EventsTrue' /\ AttemptHasIntent'
  BY DEF AbandonCapture, CardInv, EventsTrue, AttemptHasIntent
<1>. QED  BY <1>1, <1>2, <1>3 DEF CardInv

(* A switch to another rail finds no completion at work.                   *)
LEMMA LeaveCardRailSafe ==
  ASSUME CardInv, completing = "no", LeaveCardRail
  PROVE  CardInv'
<1>1. CardTypeOK' /\ RowHasIntent' /\ WithinIntent'
  BY DEF LeaveCardRail, CardInv, CardTypeOK, RowHasIntent, WithinIntent,
         OpenPayment, PaymentStatuses
<1>2. CaptureInHand' /\ CapturedIsTaken' /\ IncreaseIsFlagged'
  BY DEF LeaveCardRail, CardInv, CardTypeOK, CaptureInHand, CapturedIsTaken,
         Taken, CaptureAmount, IncreaseIsFlagged
<1>3. EventsTrue' /\ AttemptHasIntent'
  BY DEF LeaveCardRail, CardInv, EventsTrue, AttemptHasIntent
<1>. QED  BY <1>1, <1>2, <1>3 DEF CardInv

(* A cancellation lost with its process concerns no row.                   *)
LEMMA LoseReleaseSafe ==
  ASSUME CardInv, NEW i \in Intents, LoseRelease(i)
  PROVE  CardInv'
<1>1. CardTypeOK' /\ RowHasIntent' /\ WithinIntent'
  BY DEF LoseRelease, CardInv, CardTypeOK, RowHasIntent, WithinIntent
<1>2. CaptureInHand' /\ CapturedIsTaken' /\ IncreaseIsFlagged'
  BY DEF LoseRelease, CardInv, CaptureInHand, CapturedIsTaken, Taken,
         CaptureAmount, IncreaseIsFlagged, OpenPayment
<1>3. EventsTrue' /\ AttemptHasIntent'
  BY DEF LoseRelease, CardInv, EventsTrue, AttemptHasIntent
<1>. QED  BY <1>1, <1>2, <1>3 DEF CardInv

-----------------------------------------------------------------------------
(* What may happen to the card payment when no process dies.               *)
CardMove ==
  \/ \E q \in Nat : ReadPrice(q) \/ RepriceCard(q)
  \/ InsertPayment \/ RepriceIntent \/ RepriceBecomesReplacement \/ StartAttempt
  \/ \E i \in Intents :
       \/ CustomerConfirms(i) \/ AuthorizationLapses(i)
       \/ ResumeAttempt(i) \/ ConfirmAttempt(i) \/ ExpireAttempt(i) \/ RunRelease(i)
       \/ DeliverAuthorized(i) \/ DeliverCanceled(i) \/ DeliverCaptured(i)
  \/ \E who \in {"customer", "auto"} : CaptureAtProvider(who)
  \/ completing # "no" /\ CommitCapture
  \/ AbandonCapture
  \/ completing = "no" /\ LeaveCardRail
  \/ UNCHANGED cardVars

(* Every step keeps the invariant.                                         *)
LEMMA CardMoveSafe ==
  ASSUME CardInv, CardMove
  PROVE  CardInv'
<1>1. CASE UNCHANGED cardVars
  BY <1>1
  DEF cardVars, CardInv, CardTypeOK, RowHasIntent, WithinIntent, CaptureInHand,
      CapturedIsTaken, Taken, CaptureAmount, IncreaseIsFlagged, EventsTrue,
      AttemptHasIntent, OpenPayment
<1>. QED
  BY <1>1, ReadPriceSafe, RepriceCardSafe, InsertPaymentSafe, RepriceIntentSafe,
     RepriceBecomesReplacementSafe, StartAttemptSafe, CustomerConfirmsSafe,
     AuthorizationLapsesSafe, ResumeAttemptSafe, ConfirmAttemptSafe, ExpireAttemptSafe,
     RunReleaseSafe, DeliverAuthorizedSafe, DeliverCanceledSafe, DeliverCapturedSafe,
     CaptureAtProviderSafe, CommitCaptureSafe, AbandonCaptureSafe, LeaveCardRailSafe
  DEF CardMove

(* The initial state, without a payment.                                   *)
LEMMA CardInitSafe == CardInit => CardInv /\ AllWatched
  BY DEF CardInit, CardInv, CardTypeOK, RowHasIntent, WithinIntent, CaptureInHand,
         CapturedIsTaken, IncreaseIsFlagged, EventsTrue, AttemptHasIntent, AllWatched,
         NoIntent, Intents, PaymentStatuses, IntentStates

-----------------------------------------------------------------------------
(* While no process dies, no intent that can hold money goes unwatched.    *)
LEMMA FinalizeWatches ==
  ASSUME CardInv, AllWatched, NEW i \in Intents, Finalize(i),
         UNCHANGED intent, events \ {<<"authorized", i>>} \subseteq events'
  PROVE  AllWatched'
<1>. SUFFICES ASSUME NEW j \in Intents, intent[j].state \in {"confirmable", "authorized"}
              PROVE  Watched(j)'
  BY DEF AllWatched
<1>1. Watched(j)
  BY DEF AllWatched
<1>2. CASE attempt[i] = "pending" /\ payment.status = "authorized"
  <2>1. /\ payment'.intent = i
        /\ attempt' = [attempt EXCEPT ![i] = "authorized"]
        /\ releasing' = releasing \cup {payment.intent}
    BY <1>2 DEF Finalize
  <2>. QED  BY <1>1, <2>1 DEF Watched, CardInv, CardTypeOK
<1>3. CASE ~(attempt[i] = "pending" /\ payment.status = "authorized")
  <2>1. /\ attempt' = [attempt EXCEPT ![i] = "closed"]
        /\ releasing' = releasing \cup {i}
        /\ UNCHANGED payment
    BY <1>3 DEF Finalize
  <2>. QED  BY <1>1, <2>1 DEF Watched, CardInv, CardTypeOK
<1>. QED  BY <1>2, <1>3

(* A change order closes open attempts only together with their intents.    *)
LEMMA RepriceCardWatches ==
  ASSUME CardInv, AllWatched, NEW target \in Nat, RepriceCard(target)
  PROVE  AllWatched'
<1>1. UNCHANGED <<events, releasing>> /\ payment'.intent = payment.intent
  BY DEF RepriceCard, CardInv, CardTypeOK
<1>2. \/ UNCHANGED <<intent, attempt>>
      \/ /\ attempt' = [i \in Intents |-> IF i \in OpenAttempts THEN "closed" ELSE attempt[i]]
         /\ intent' = [i \in Intents |-> IF i \in OpenAttempts THEN Canceled(i) ELSE intent[i]]
  BY DEF RepriceCard, CardInv, CardTypeOK
<1>. SUFFICES ASSUME NEW j \in Intents, intent'[j].state \in {"confirmable", "authorized"}
              PROVE  Watched(j)'
  BY DEF AllWatched
<1>3. intent'[j] = intent[j] /\ attempt'[j] = attempt[j]
  BY <1>2, CanceledKeeps DEF CardInv
<1>. QED  BY <1>1, <1>3 DEF AllWatched, Watched

(* The webhook of an authorization is consumed when the attempt, or the    *)
(* row, has taken the intent over or the cancellation is in memory.        *)
LEMMA DeliverAuthorizedWatches ==
  ASSUME CardInv, AllWatched, NEW i \in Intents, DeliverAuthorized(i)
  PROVE  AllWatched'
<1>1. UNCHANGED intent /\ events' = events \ {<<"authorized", i>>}
  BY DEF DeliverAuthorized
<1>2. CASE attempt[i] \in {"pending", "closed"}
  BY <1>1, <1>2, FinalizeWatches DEF DeliverAuthorized
<1>3. CASE attempt[i] \in {"none", "authorized"}
  <2>1. UNCHANGED <<attempt, releasing>> /\ payment'.intent = payment.intent
    BY <1>3 DEF DeliverAuthorized, CardInv, CardTypeOK
  <2>. QED  BY <1>1, <1>3, <2>1 DEF AllWatched, Watched
<1>. QED  BY <1>2, <1>3 DEF CardInv, CardTypeOK

(* Every other step leaves what watches an intent in place.                *)
LEMMA CardMoveWatches ==
  ASSUME CardInv, AllWatched, CardMove
  PROVE  AllWatched'
<1>1. ASSUME NEW q \in Nat, ReadPrice(q)
      PROVE  AllWatched'
  BY <1>1 DEF AllWatched, Watched, ReadPrice
<1>2. ASSUME InsertPayment
      PROVE  AllWatched'
  BY <1>2 DEF CardInv, RowHasIntent, AllWatched, Watched, NoIntent, Intents,
     InsertPayment
<1>3. ASSUME NEW i \in Intents, CustomerConfirms(i)
      PROVE  AllWatched'
  BY <1>3 DEF AllWatched, Watched, CustomerConfirms
<1>4. ASSUME NEW i \in Intents, AuthorizationLapses(i)
      PROVE  AllWatched'
  BY <1>4 DEF AllWatched, Watched, AuthorizationLapses
<1>5. ASSUME RepriceIntent
      PROVE  AllWatched'
  BY <1>5 DEF AllWatched, Watched, RepriceIntent
<1>6. ASSUME RepriceBecomesReplacement
      PROVE  AllWatched'
  BY <1>6 DEF AllWatched, Watched, RepriceBecomesReplacement
<1>7. ASSUME StartAttempt
      PROVE  AllWatched'
  BY <1>7, CanceledKeeps DEF CardInv, AllWatched, Watched, StartAttempt
<1>8. ASSUME NEW i \in Intents, ConfirmAttempt(i)
      PROVE  AllWatched'
  BY <1>8, FinalizeWatches DEF CardInv, CardTypeOK, AllWatched, Watched,
     ConfirmAttempt
<1>9. ASSUME NEW i \in Intents, ExpireAttempt(i)
      PROVE  AllWatched'
  BY <1>9 DEF AllWatched, Watched, ExpireAttempt
<1>10. ASSUME NEW i \in Intents, RunRelease(i)
      PROVE  AllWatched'
  BY <1>10, CanceledKeeps DEF CardInv, CardTypeOK, AllWatched, Watched,
     RunRelease
<1>11. ASSUME NEW i \in Intents, DeliverCanceled(i)
      PROVE  AllWatched'
  BY <1>11 DEF CardInv, CardTypeOK, EventsTrue, AllWatched, Watched,
     DeliverCanceled
<1>12. ASSUME NEW i \in Intents, DeliverCaptured(i)
      PROVE  AllWatched'
  BY <1>12 DEF AllWatched, Watched, DeliverCaptured
<1>13. ASSUME NEW who \in {"customer", "auto"}, CaptureAtProvider(who)
      PROVE  AllWatched'
  BY <1>13 DEF AllWatched, Watched, CaptureAtProvider
<1>14. ASSUME CommitCapture
      PROVE  AllWatched'
  BY <1>14 DEF AllWatched, Watched, CommitCapture
<1>15. ASSUME AbandonCapture
      PROVE  AllWatched'
  BY <1>15 DEF AllWatched, Watched, AbandonCapture
<1>16. ASSUME LeaveCardRail
      PROVE  AllWatched'
  BY <1>16 DEF AllWatched, Watched, LeaveCardRail
<1>17. ASSUME NEW i \in Intents, ResumeAttempt(i)
      PROVE  AllWatched'
  BY <1>17, FinalizeWatches DEF ResumeAttempt
<1>18. CASE UNCHANGED cardVars
  BY <1>18 DEF cardVars, AllWatched, Watched
<1>. QED
  BY <1>1, <1>2, <1>3, <1>4, <1>5, <1>6, <1>7, <1>8, <1>9, <1>10, <1>11, <1>12,
     <1>13, <1>14, <1>15, <1>16, <1>17, <1>18, RepriceCardWatches,
     DeliverAuthorizedWatches DEF CardMove

(* A captured row is never moved again.                                    *)
LEMMA CapturedStays ==
  ASSUME CardInv, CardMove \/ (\E i \in Intents : LoseRelease(i)),
         payment.status = "captured"
  PROVE  UNCHANGED payment
<1>1. completing = "no" /\ ~OpenPayment /\ payment.status \notin {"none", "authorized"}
  BY DEF CardInv, CaptureInHand, OpenPayment
<1>2. ASSUME NEW i \in Intents, Finalize(i)
      PROVE  UNCHANGED payment
  BY <1>1, <1>2 DEF Finalize
<1>3. ASSUME NEW target \in Nat, RepriceCard(target)
      PROVE  UNCHANGED payment
  BY <1>1, <1>3 DEF RepriceCard, OpenPayment
<1>4. ASSUME NEW i \in Intents,
             ResumeAttempt(i) \/ ConfirmAttempt(i) \/ DeliverAuthorized(i)
               \/ DeliverCanceled(i) \/ DeliverCaptured(i)
      PROVE  UNCHANGED payment
  <2>1. CASE DeliverAuthorized(i)
    BY <1>2, <2>1 DEF DeliverAuthorized, CardInv, CardTypeOK
  <2>. QED
    BY <1>1, <1>2, <1>4, <2>1
    DEF ResumeAttempt, ConfirmAttempt, DeliverCanceled, DeliverCaptured
<1>5. ASSUME NEW i \in Intents,
             CustomerConfirms(i) \/ AuthorizationLapses(i) \/ ExpireAttempt(i)
               \/ RunRelease(i) \/ LoseRelease(i)
      PROVE  UNCHANGED payment
  BY <1>5 DEF CustomerConfirms, AuthorizationLapses, ExpireAttempt, RunRelease, LoseRelease
<1>6. ASSUME NEW q \in Nat, ReadPrice(q)
      PROVE  UNCHANGED payment
  BY <1>6 DEF ReadPrice
<1>7. ~InsertPayment /\ ~RepriceIntent /\ ~RepriceBecomesReplacement
  BY <1>1 DEF InsertPayment, RepriceIntent, RepriceBecomesReplacement
<1>8. ASSUME NEW who \in {"customer", "auto"}, CaptureAtProvider(who)
      PROVE  UNCHANGED payment
  BY <1>8 DEF CaptureAtProvider
<1>9. StartAttempt \/ AbandonCapture \/ UNCHANGED cardVars => UNCHANGED payment
  BY DEF StartAttempt, AbandonCapture, cardVars
<1>10. LeaveCardRail => UNCHANGED payment
  BY <1>1 DEF LeaveCardRail
<1>. QED
  BY <1>1, <1>3, <1>4, <1>5, <1>6, <1>7, <1>8, <1>9, <1>10 DEF CardMove

-----------------------------------------------------------------------------
(* The Credit held for the job, and the job.                                *)

(* A held row is the row of the hold the job points to; an active hold is  *)
(* the one the job points to and is all that is reserved.                  *)
CreditInv ==
  /\ CreditTypeOK
  /\ \A h \in Holds : row[h] = "held" => holdId = h
  /\ HoldHasItsRow
  /\ ReservedIsTheHold

(* What the status of the job and the rail allow.                          *)
JobInv ==
  /\ JobTypeOK
  /\ switchTo # rail
  /\ giveBack => status = "cancelled"
  /\ completing # "no" => status # "accepted"
  /\ HeldRowIffCreditRail

(* The inductive invariant.                                                *)
IInv ==
  /\ JobInv
  /\ CreditInv
  /\ CardInv
  /\ used.faults = 0 => AllWatched

-----------------------------------------------------------------------------
(* The pointer leads to the one held row, and to the one active hold.      *)
LEMMA OneHold ==
  ASSUME CreditInv
  PROVE  /\ HeldRows = IF holdId \in Holds /\ row[holdId] = "held" THEN {holdId} ELSE {}
         /\ \A h \in Holds : Active(h) => h = holdId
         /\ Active(holdId) => row[holdId] = "held" /\ reserved = hold[holdId].amount
         /\ ~Active(holdId) => reserved = 0
  BY DEF CreditInv, HeldRows, HoldHasItsRow, ReservedIsTheHold, Active

(* Nothing of the Credit changes.                                          *)
LEMMA CreditStays ==
  ASSUME CreditInv, UNCHANGED creditVars
  PROVE  CreditInv' /\ HeldRows' = HeldRows
  BY DEF creditVars, CreditInv, CreditTypeOK, HeldRows, HoldHasItsRow, ReservedIsTheHold,
         Active

(* A hold is placed only when no row is held, so nothing is reserved.      *)
LEMMA PlaceSafe ==
  ASSUME CreditInv, NEW h \in Unused, NEW amount \in Nat, PlacePaymentHold(h, amount)
  PROVE  CreditInv' /\ HeldRows' = {h}
<1>1. h \in Holds /\ HeldRows = {} /\ reserved = 0
  BY OneHold DEF Unused, PlacePaymentHold, HeldRows, Active
<1>2. CreditTypeOK'
  BY <1>1 DEF PlacePaymentHold, CreditInv, CreditTypeOK, HoldStatuses, RowStatuses
<1>3. HeldRows' = {h} /\ holdId' = h
  BY <1>1 DEF PlacePaymentHold, CreditInv, CreditTypeOK, HeldRows
<1>4. \A g \in Holds : Active(g)' => g = h
  BY <1>1, OneHold DEF PlacePaymentHold, CreditInv, CreditTypeOK, Active
<1>5. ReservedIsTheHold'
  BY <1>1, <1>3 DEF PlacePaymentHold, CreditInv, CreditTypeOK, ReservedIsTheHold, Active
<1>. QED  BY <1>2, <1>3, <1>4, <1>5 DEF CreditInv, HeldRows, HoldHasItsRow

(* Giving the Credit back leaves no held row, and nothing reserved.        *)
LEMMA ReleaseSafe ==
  ASSUME CreditInv, ReleasePayment
  PROVE  CreditInv' /\ HeldRows' = {}
<1>1. CASE HeldRows = {}
  BY <1>1, CreditStays DEF ReleasePayment
<1>2. CASE HeldRows # {}
  <2>1. /\ holdId \in Holds /\ HeldRows = {holdId}
        /\ row' = [row EXCEPT ![holdId] = "released"]
        /\ holdId' = NoHold
        /\ UNCHANGED creditDue
        /\ IF Active(holdId)
             THEN /\ hold' = [hold EXCEPT ![holdId].status = "ended"]
                  /\ reserved' = reserved - hold[holdId].amount
             ELSE UNCHANGED <<hold, reserved>>
    BY <1>2, OneHold DEF ReleasePayment, HeldRows
  <2>2. reserved' = 0
    BY <2>1, OneHold DEF CreditInv, CreditTypeOK
  <2>3. hold' \in [Holds -> [status : HoldStatuses, amount : Nat]]
    BY <2>1 DEF CreditInv, CreditTypeOK, HoldStatuses
  <2>4. CreditTypeOK'
    BY <2>1, <2>2, <2>3 DEF CreditInv, CreditTypeOK, RowStatuses
  <2>5. HeldRows' = {}
    BY <2>1 DEF CreditInv, CreditTypeOK, HeldRows
  <2>6. \A g \in Holds : ~Active(g)'
    BY <2>1, OneHold DEF CreditInv, CreditTypeOK, Active
  <2>. QED
    BY <2>1, <2>2, <2>4, <2>5, <2>6
    DEF CreditInv, HeldRows, HoldHasItsRow, ReservedIsTheHold, Active
<1>. QED  BY <1>1, <1>2

(* The new hold takes the place of the old one in all three.               *)
LEMMA ReplaceSafe ==
  ASSUME CreditInv, Active(holdId), NEW h \in Unused, NEW amount \in Nat,
         ReplaceActiveHold(h, amount)
  PROVE  CreditInv' /\ HeldRows # {} /\ HeldRows' = {h}
<1>1. /\ h \in Holds \ {holdId} /\ holdId \in Holds
      /\ HeldRows = {holdId} /\ reserved = hold[holdId].amount
  BY OneHold DEF Unused, Active
<1>2. /\ hold' = [hold EXCEPT ![holdId].status = "ended",
                             ![h] = [status |-> "active", amount |-> amount]]
      /\ reserved' = amount
      /\ row' = [row EXCEPT ![holdId] = "superseded", ![h] = "held"]
      /\ holdId' = h /\ creditDue' = 0
  BY <1>1 DEF ReplaceActiveHold, HeldRows, CreditInv, CreditTypeOK
<1>3. CreditTypeOK'
  BY <1>1, <1>2 DEF CreditInv, CreditTypeOK, HoldStatuses, RowStatuses
<1>4. HeldRows' = {h}
  BY <1>1, <1>2 DEF CreditInv, CreditTypeOK, HeldRows
<1>5. \A g \in Holds : Active(g)' => g = h
  BY <1>1, <1>2, OneHold DEF CreditInv, CreditTypeOK, Active
<1>6. Active(h)' /\ hold'[h].amount = amount
  BY <1>1, <1>2 DEF CreditInv, CreditTypeOK, Active
<1>. QED
  BY <1>1, <1>2, <1>3, <1>4, <1>5, <1>6
  DEF CreditInv, HeldRows, HoldHasItsRow, ReservedIsTheHold

(* A change order, or the customer's second try, keeps a held row held.    *)
LEMMA RepriceCreditSafe ==
  ASSUME CreditInv, NEW amount \in Nat, RepriceCredit(amount)
  PROVE  CreditInv' /\ (HeldRows' = {} <=> HeldRows = {})
<1>1. CASE UNCHANGED creditVars
  BY <1>1, CreditStays
<1>2. ASSUME Active(holdId), NEW h \in Unused, ReplaceActiveHold(h, amount)
      PROVE  CreditInv' /\ (HeldRows' = {} <=> HeldRows = {})
  BY <1>2, ReplaceSafe
<1>3. CASE creditDue' = amount /\ UNCHANGED <<reserved, hold, row, holdId>>
  BY <1>3
  DEF CreditInv, CreditTypeOK, HeldRows, HoldHasItsRow, ReservedIsTheHold, Active
<1>. QED  BY <1>1, <1>2, <1>3 DEF RepriceCredit

(* The customer added Credit and tries the change order again.             *)
LEMMA AuthorizeSafe ==
  ASSUME CreditInv, AuthorizeWithCredit
  PROVE  CreditInv' /\ (HeldRows' = {} <=> HeldRows = {})
<1>1. CASE Active(holdId)
  BY <1>1, ReplaceSafe DEF AuthorizeWithCredit, CreditInv, CreditTypeOK
<1>2. CASE ~Active(holdId)
  BY <1>2
  DEF AuthorizeWithCredit, CreditInv, CreditTypeOK, HeldRows, HoldHasItsRow,
      ReservedIsTheHold, Active
<1>. QED  BY <1>1, <1>2

(* A hold that ends frees what it reserved; its row stays held.            *)
LEMMA EndHoldSafe ==
  ASSUME CreditInv, NEW h \in Holds, EndHold(h)
  PROVE  CreditInv' /\ HeldRows' = HeldRows
  BY OneHold
  DEF EndHold, CreditInv, CreditTypeOK, HeldRows, HoldHasItsRow, ReservedIsTheHold, Active,
      HoldStatuses

(* A capture, or an overdue hold found by it, frees the reservation.       *)
LEMMA CaptureSafe ==
  ASSUME CreditInv, CapturePayment
  PROVE  CreditInv'
  BY OneHold
  DEF CapturePayment, CreditInv, CreditTypeOK, HeldRows, HoldHasItsRow, ReservedIsTheHold,
      Active, HoldStatuses, RowStatuses

-----------------------------------------------------------------------------
(* The initial state satisfies the invariant.                              *)
LEMMA InitSafe == Init => IInv
<1>. SUFFICES ASSUME Init PROVE IInv
  OBVIOUS
<1>1. CardInv /\ AllWatched
  BY CardInitSafe DEF Init
<1>2. price \in Nat /\ price \in Prices
  BY JobBounds DEF Init, Prices
<1>3. CreditInv /\ (rail = "credit" <=> HeldRows # {})
  BY <1>2, CreditBounds
  DEF Init, CreditInit, CreditInv, CreditTypeOK, HeldRows, HoldHasItsRow, ReservedIsTheHold,
      Active, HoldStatuses, RowStatuses, Holds, NoHold
<1>4. JobInv
  <2>1. 0 \in 0 .. MaxPrice /\ 0 \in 0 .. MaxTurns /\ 0 \in 0 .. MaxFaults
    BY JobBounds, CardBounds
  <2>2. used \in [turns : 0 .. MaxTurns, faults : 0 .. MaxFaults]
    BY <2>1 DEF Init
  <2>3. rail \in Rails /\ switchTo = NoRail /\ completing = "no"
    BY DEF Init, CardInit, Rails
  <2>4. JobTypeOK
    BY <1>2, <2>1, <2>2, <2>3 DEF Init, JobTypeOK
  <2>. QED  BY <1>3, <2>3, <2>4 DEF Init, JobInv, HeldRowIffCreditRail, Rails, NoRail
<1>. QED  BY <1>1, <1>3, <1>4 DEF IInv

(* What a step does to the card: it moves it, or a process died.           *)
CardPart ==
  \/ CardMove /\ (used'.faults = 0 => used.faults = 0)
  \/ (\E i \in Intents : LoseRelease(i)) /\ used'.faults # 0

(* Every step of the job moves its card payment as CardMove says.          *)
LEMMA NextCard == IInv /\ [Next]_vars => CardPart
<1>. SUFFICES ASSUME IInv, [Next]_vars PROVE CardPart
  OBVIOUS
<1>. USE DEF CardPart, CardMove
<1>1. used.faults \in Nat /\ \A f \in Nat : f + 1 # 0
  BY JobBounds DEF IInv, JobInv, JobTypeOK
<1>2. CASE UNCHANGED vars
  BY <1>2 DEF vars, jobVars
<1>3. CASE \/ StartJob \/ CancelJob \/ Dispute \/ DropSwitch \/ RequestCompletion
           \/ GiveCreditBack \/ (\E who \in {"customer", "helper"} : CompleteJob(who))
           \/ AutoRelease \/ (\E h \in Holds : CreditStep(EndHold(h)))
           \/ CreditStep(AuthorizeWithCredit)
  <2>1. UNCHANGED <<cardVars, used>>
    BY <1>3
    DEF StartJob, CancelJob, Dispute, DropSwitch, RequestCompletion, GiveCreditBack,
        CompleteJob, AutoRelease, CreditStep, jobVars, vars
  <2>. QED  BY <2>1
<1>4. CASE ProposeChange \/ \E to \in Rails : RequestSwitch(to)
  <2>1. UNCHANGED cardVars /\ used'.faults = used.faults
    BY <1>4 DEF Turn, ProposeChange, RequestSwitch, IInv, JobInv, JobTypeOK
  <2>. QED  BY <2>1
<1>5. ASSUME NEW approve \in BOOLEAN, DecideChange(approve)
      PROVE  CardPart
  <2>1. proposed \in Nat
    BY CardBounds DEF IInv, JobInv, JobTypeOK
  <2>2. (RepriceCard(proposed) \/ UNCHANGED cardVars) /\ UNCHANGED used
    BY <1>5 DEF DecideChange
  <2>. QED  BY <2>1, <2>2
<1>6. CASE AcceptSwitch
  <2>1. completing = "no"
    BY <1>6 DEF AcceptSwitch, IInv, JobInv
  <2>2. (LeaveCardRail \/ UNCHANGED cardVars) /\ UNCHANGED used
    BY <1>6 DEF AcceptSwitch
  <2>. QED  BY <2>1, <2>2
<1>7. CASE QuotePayment \/ CreatePayment
  <2>1. price \in Nat
    BY DEF IInv, JobInv, JobTypeOK, Prices
  <2>2. (ReadPrice(price) \/ InsertPayment) /\ UNCHANGED used
    BY <1>7 DEF QuotePayment, CreatePayment, CardStep, jobVars
  <2>. QED  BY <2>1, <2>2
<1>8. ASSUME NEW who \in {"customer", "auto"}, StartCapture(who)
      PROVE  CardPart
  BY <1>8 DEF StartCapture, CardStep, jobVars
<1>9. CASE FinishCapture
  <2>1. (completing # "no" /\ CommitCapture) \/ AbandonCapture
    BY <1>9 DEF FinishCapture
  <2>2. UNCHANGED used
    BY <1>9 DEF FinishCapture
  <2>. QED  BY <2>1, <2>2
<1>10. CASE LoseGiveBack \/ RollBackCapture
  <2>1. (UNCHANGED cardVars \/ AbandonCapture) /\ used' = [used EXCEPT !.faults = @ + 1]
    BY <1>10 DEF LoseGiveBack, RollBackCapture, Fault
  <2>2. used'.faults # 0
    BY <1>1, <2>1 DEF IInv, JobInv, JobTypeOK
  <2>. QED  BY <2>1, <2>2
<1>11. ASSUME NEW i \in Intents, Lapse(i) \/ LoseCancellation(i)
       PROVE  CardPart
  <2>1. /\ AuthorizationLapses(i) \/ LoseRelease(i)
        /\ used' = [used EXCEPT !.faults = @ + 1]
    BY <1>11 DEF Lapse, LoseCancellation, Fault
  <2>2. used'.faults # 0
    BY <1>1, <2>1 DEF IInv, JobInv, JobTypeOK
  <2>. QED  BY <2>1, <2>2
<1>12. CASE \/ CardStep(RepriceIntent) \/ CardStep(RepriceBecomesReplacement)
            \/ CardStep(StartAttempt)
  BY <1>12 DEF CardStep, jobVars
<1>13. ASSUME NEW i \in Intents,
              \/ CardStep(CustomerConfirms(i)) \/ CardStep(ResumeAttempt(i))
              \/ CardStep(ConfirmAttempt(i)) \/ CardStep(ExpireAttempt(i))
              \/ CardStep(RunRelease(i)) \/ CardStep(DeliverAuthorized(i))
              \/ CardStep(DeliverCanceled(i)) \/ CardStep(DeliverCaptured(i))
       PROVE  CardPart
  BY <1>13 DEF CardStep, jobVars
<1>. QED
  <2>. HIDE DEF CardPart, CardMove
  <2>. QED
    BY <1>2, <1>3, <1>4, <1>5, <1>6, <1>7, <1>8, <1>9, <1>10, <1>11, <1>12, <1>13
    DEF Next

(* The card stays safe, and watched as long as no process has died.        *)
LEMMA CardPartSafe ==
  ASSUME IInv, CardPart
  PROVE  CardInv' /\ (used'.faults = 0 => AllWatched')
  BY CardMoveSafe, LoseReleaseSafe, CardMoveWatches DEF IInv, CardPart

-----------------------------------------------------------------------------
(* Nothing JobInv speaks of changes but the card payment and its capture.  *)
LEMMA JobStays ==
  ASSUME JobInv, UNCHANGED jobVars, HeldRows' = {} <=> HeldRows = {},
         completing' # "no" => completing # "no" \/ status # "accepted"
  PROVE  JobInv'
  BY DEF JobInv, JobTypeOK, jobVars, HeldRowIffCreditRail

(* What a step does to the job and to its Credit.                          *)
LEMMA NextJob == IInv /\ [Next]_vars => JobInv' /\ CreditInv'
<1>. SUFFICES ASSUME IInv, [Next]_vars PROVE JobInv' /\ CreditInv'
  OBVIOUS
<1>. DEFINE Goal == JobInv' /\ CreditInv'
<1>1. JobInv /\ CreditInv
  BY DEF IInv
<1>2. CASE UNCHANGED vars
  BY <1>1, <1>2, CreditStays, JobStays DEF vars, cardVars
<1>3. CASE StartJob \/ Dispute \/ DropSwitch \/ RequestCompletion \/ CancelJob
  <2>1. UNCHANGED <<creditVars, cardVars, rail, price, used, proposed, escrow>>
    BY <1>3 DEF StartJob, Dispute, DropSwitch, RequestCompletion, CancelJob
  <2>2. CreditInv' /\ HeldRows' = HeldRows
    BY <1>1, <2>1, CreditStays
  <2>3. UNCHANGED completing
    BY <2>1 DEF cardVars
  <2>4. /\ status' = status \/ status' \in {"in_progress", "cancelled"}
        /\ status' \in {"accepted", "in_progress"} => status \in {"accepted", "in_progress"}
        /\ giveBack' => status' = "cancelled"
    BY <1>1, <1>3
    DEF StartJob, Dispute, DropSwitch, RequestCompletion, CancelJob, JobInv
  <2>5. /\ requested' \in BOOLEAN /\ disputed' \in BOOLEAN /\ giveBack' \in BOOLEAN
        /\ switchTo' \in {NoRail, switchTo}
    BY <1>1, <1>3
    DEF StartJob, Dispute, DropSwitch, RequestCompletion, CancelJob, JobInv, JobTypeOK
  <2>6. JobTypeOK'
    BY <1>1, <2>1, <2>4, <2>5 DEF JobInv, JobTypeOK
  <2>7. switchTo' # rail'
    BY <1>1, <2>1, <2>5 DEF JobInv, JobTypeOK, Rails, NoRail
  <2>. QED
    BY <1>1, <2>1, <2>2, <2>3, <2>4, <2>6, <2>7 DEF JobInv, HeldRowIffCreditRail
<1>4. CASE ProposeChange \/ \E to \in Rails : RequestSwitch(to)
  <2>1. UNCHANGED <<creditVars, cardVars, status, rail, price, escrow, requested, disputed,
                    giveBack>>
    BY <1>4 DEF Turn, ProposeChange, RequestSwitch
  <2>2. CreditInv' /\ HeldRows' = HeldRows
    BY <1>1, <2>1, CreditStays
  <2>3. UNCHANGED completing
    BY <2>1 DEF cardVars
  <2>4. used' \in [turns : 0 .. MaxTurns, faults : 0 .. MaxFaults]
    BY <1>1, <1>4, JobBounds DEF Turn, ProposeChange, RequestSwitch, JobInv, JobTypeOK
  <2>5. proposed' \in 0 .. MaxPrice /\ switchTo' \in Rails \cup {NoRail} /\ switchTo' # rail
    BY <1>1, <1>4 DEF Turn, ProposeChange, RequestSwitch, JobInv, JobTypeOK, Prices
  <2>. QED
    BY <1>1, <2>1, <2>2, <2>3, <2>4, <2>5 DEF JobInv, JobTypeOK, HeldRowIffCreditRail
<1>5. ASSUME NEW approve \in BOOLEAN, DecideChange(approve)
      PROVE  Goal
  <2>1. /\ proposed' = 0 /\ price' \in {price, proposed} /\ proposed # 0
        /\ UNCHANGED <<status, rail, escrow, requested, switchTo, disputed, giveBack, used>>
        /\ RepriceCredit(proposed) \/ UNCHANGED creditVars
        /\ UNCHANGED completing
    BY <1>5 DEF DecideChange, RepriceCard, cardVars
  <2>2. proposed \in Nat /\ proposed \in Prices /\ 0 \in 0 .. MaxPrice
    BY <1>1, <2>1, CardBounds DEF JobInv, JobTypeOK, Prices
  <2>3. CreditInv' /\ (HeldRows' = {} <=> HeldRows = {})
    BY <1>1, <2>1, <2>2, CreditStays, RepriceCreditSafe
  <2>. QED  BY <1>1, <2>1, <2>2, <2>3 DEF JobInv, JobTypeOK, HeldRowIffCreditRail
<1>6. CASE AcceptSwitch
  <2>1. /\ rail' = switchTo /\ switchTo # NoRail /\ switchTo' = NoRail
        /\ status = "accepted" /\ escrow' \in {FALSE, escrow}
        /\ UNCHANGED <<status, price, requested, proposed, disputed, giveBack, used, completing>>
    BY <1>6 DEF AcceptSwitch, LeaveCardRail, cardVars
  <2>2. switchTo \in Rails /\ rail \in Rails /\ switchTo # rail /\ price \in Nat
    BY <1>1, <2>1 DEF JobInv, JobTypeOK, Prices
  <2>3. CASE switchTo = "credit"
    <3>1. PICK h \in Unused : PlacePaymentHold(h, price)
      BY <1>6, <2>2, <2>3 DEF AcceptSwitch
    <3>. QED
      BY <1>1, <2>1, <2>2, <2>3, <3>1, PlaceSafe
      DEF JobInv, JobTypeOK, HeldRowIffCreditRail, NoRail, Rails
  <2>4. CASE switchTo # "credit"
    <3>1. CreditInv' /\ HeldRows' = {}
      <4>1. CASE rail = "credit"
        BY <1>1, <1>6, <2>4, <4>1, ReleaseSafe DEF AcceptSwitch
      <4>2. CASE rail # "credit"
        BY <1>1, <1>6, <2>1, <2>4, <4>2, CreditStays
        DEF AcceptSwitch, JobInv, HeldRowIffCreditRail
      <4>. QED  BY <4>1, <4>2
    <3>. QED
      BY <1>1, <2>1, <2>2, <2>4, <3>1
      DEF JobInv, JobTypeOK, HeldRowIffCreditRail, NoRail, Rails
  <2>. QED  BY <2>3, <2>4
<1>7. CASE CreatePayment
  <2>1. /\ escrow' = TRUE
        /\ UNCHANGED <<status, price, rail, requested, proposed, switchTo, disputed, giveBack,
                       used, creditVars, completing>>
    BY <1>7 DEF CreatePayment, InsertPayment
  <2>2. CreditInv' /\ HeldRows' = HeldRows
    BY <1>1, <2>1, CreditStays
  <2>. QED  BY <1>1, <2>1, <2>2 DEF JobInv, JobTypeOK, HeldRowIffCreditRail
<1>8. CASE FinishCapture
  <2>1. /\ status' \in {status, "completed"} /\ completing' = "no"
        /\ status' = status => UNCHANGED creditVars \/ CapturePayment
        /\ UNCHANGED <<price, rail, escrow, requested, proposed, switchTo, disputed, giveBack, used>>
        /\ \/ status' = status /\ UNCHANGED creditVars
           \/ /\ status = "in_progress" /\ status' = "completed"
              /\ UNCHANGED creditVars \/ CapturePayment
    BY <1>8 DEF FinishCapture, CommitCapture, AbandonCapture
  <2>2. CreditInv'
    BY <1>1, <2>1, CreditStays, CaptureSafe
  <2>3. HeldRowIffCreditRail'
    BY <1>1, <2>1, CreditStays DEF JobInv, HeldRowIffCreditRail
  <2>. QED  BY <1>1, <2>1, <2>2, <2>3 DEF JobInv, JobTypeOK
<1>9. ASSUME NEW who \in {"customer", "helper"}, CompleteJob(who)
      PROVE  Goal
  <2>1. /\ \/ status' = status /\ UNCHANGED creditVars
           \/ /\ status = "in_progress" /\ status' = "completed"
              /\ UNCHANGED creditVars \/ CapturePayment
        /\ UNCHANGED <<price, rail, escrow, requested, proposed, switchTo, disputed, giveBack,
                       used, completing>>
    BY <1>9 DEF CompleteJob, cardVars
  <2>2. CreditInv'
    BY <1>1, <2>1, CreditStays, CaptureSafe
  <2>3. HeldRowIffCreditRail'
    BY <1>1, <2>1, CreditStays DEF JobInv, HeldRowIffCreditRail
  <2>. QED  BY <1>1, <2>1, <2>2, <2>3 DEF JobInv, JobTypeOK
<1>10. CASE AutoRelease
  <2>1. /\ status = "completed" /\ UNCHANGED jobVars /\ UNCHANGED cardVars
        /\ UNCHANGED creditVars \/ CapturePayment
    BY <1>10 DEF AutoRelease, CreditStep, vars
  <2>2. CreditInv'
    BY <1>1, <2>1, CreditStays, CaptureSafe
  <2>. QED
    BY <1>1, <2>1, <2>2 DEF JobInv, JobTypeOK, HeldRowIffCreditRail, jobVars, cardVars
<1>11. CASE GiveCreditBack
  <2>1. CreditInv'
    BY <1>1, <1>11, ReleaseSafe DEF GiveCreditBack
  <2>. QED
    BY <1>1, <1>11, <2>1
    DEF GiveCreditBack, JobInv, JobTypeOK, HeldRowIffCreditRail, cardVars
<1>12. CASE \/ LoseGiveBack \/ RollBackCapture
            \/ \E i \in Intents : Lapse(i) \/ LoseCancellation(i)
  <2>1. /\ UNCHANGED <<status, price, rail, escrow, requested, proposed, switchTo, disputed,
                       creditVars>>
        /\ giveBack' \in BOOLEAN /\ (giveBack' => giveBack)
        /\ completing' # "no" => completing # "no"
        /\ used.faults < MaxFaults /\ used' = [used EXCEPT !.faults = @ + 1]
    <3>1. CASE LoseGiveBack
      BY <3>1 DEF LoseGiveBack, Fault, cardVars
    <3>2. CASE RollBackCapture
      BY <1>1, <3>2 DEF RollBackCapture, Fault, AbandonCapture, JobInv, JobTypeOK
    <3>3. ASSUME NEW i \in Intents, Lapse(i) \/ LoseCancellation(i)
          PROVE  UNCHANGED <<status, price, rail, escrow, requested, proposed, switchTo,
                             disputed, giveBack, completing, creditVars>> /\ Fault
      BY <3>3 DEF Lapse, LoseCancellation, AuthorizationLapses, LoseRelease
    <3>. QED  BY <1>1, <1>12, <3>1, <3>2, <3>3 DEF Fault, JobInv, JobTypeOK
  <2>2. CreditInv' /\ HeldRows' = HeldRows
    BY <1>1, <2>1, CreditStays
  <2>3. used' \in [turns : 0 .. MaxTurns, faults : 0 .. MaxFaults]
    <3>1. used.faults + 1 \in 0 .. MaxFaults
      BY <1>1, <2>1, JobBounds DEF JobInv, JobTypeOK
    <3>. QED  BY <1>1, <2>1, <3>1 DEF JobInv, JobTypeOK
  <2>. QED  BY <1>1, <2>1, <2>2, <2>3 DEF JobInv, JobTypeOK, HeldRowIffCreditRail
<1>13. ASSUME NEW who \in {"customer", "auto"}, StartCapture(who)
       PROVE  Goal
  <2>1. UNCHANGED <<jobVars, creditVars>> /\ status = "in_progress"
    BY <1>13 DEF StartCapture, CardStep
  <2>. QED  BY <1>1, <2>1, CreditStays, JobStays
<1>14. CASE \/ QuotePayment \/ CardStep(RepriceIntent)
            \/ CardStep(RepriceBecomesReplacement) \/ CardStep(StartAttempt)
            \/ \E i \in Intents :
                 \/ CardStep(CustomerConfirms(i)) \/ CardStep(ResumeAttempt(i))
                 \/ CardStep(ConfirmAttempt(i)) \/ CardStep(ExpireAttempt(i))
                 \/ CardStep(RunRelease(i)) \/ CardStep(DeliverAuthorized(i))
                 \/ CardStep(DeliverCanceled(i)) \/ CardStep(DeliverCaptured(i))
  <2>1. UNCHANGED <<jobVars, creditVars>>
    BY <1>14 DEF QuotePayment, CardStep
  <2>2. UNCHANGED completing
    BY <1>14
    DEF QuotePayment, CardStep, ReadPrice, RepriceIntent, RepriceBecomesReplacement,
        StartAttempt, CustomerConfirms, ResumeAttempt, ConfirmAttempt, ExpireAttempt,
        RunRelease, DeliverAuthorized, DeliverCanceled, DeliverCaptured
  <2>. QED  BY <1>1, <2>1, <2>2, CreditStays, JobStays
<1>15. CASE CreditStep(AuthorizeWithCredit) \/ \E h \in Holds : CreditStep(EndHold(h))
  <2>1. UNCHANGED jobVars /\ UNCHANGED completing
    BY <1>15 DEF CreditStep, cardVars
  <2>2. CreditInv' /\ (HeldRows' = {} <=> HeldRows = {})
    BY <1>1, <1>15, AuthorizeSafe, EndHoldSafe DEF CreditStep
  <2>. QED  BY <1>1, <2>1, <2>2, JobStays
<1>. QED
  BY <1>2, <1>3, <1>4, <1>5, <1>6, <1>7, <1>8, <1>9, <1>10, <1>11, <1>12, <1>13, <1>14, <1>15
  DEF Next

(* Every step keeps the invariant.                                         *)
LEMMA NextSafe == IInv /\ [Next]_vars => IInv'
  BY NextJob, NextCard, CardPartSafe DEF IInv

(* The strengthening holds in every reachable state.                       *)
LEMMA Invariance == Spec => []IInv
<1>1. IInv /\ [Next]_vars => IInv'
  BY NextSafe
<1>. QED  BY InitSafe, <1>1, PTL DEF Spec

-----------------------------------------------------------------------------
(* The job, its Credit and its card are well-typed.                        *)
THEOREM TypeCorrect == Spec => []TypeOK
<1>1. IInv => TypeOK
  BY DEF IInv, JobInv, CreditInv, CardInv, TypeOK
<1>. QED  BY Invariance, <1>1, PTL

(* Every active hold can be found: it has its row and its pointer.         *)
THEOREM HoldCorrect == Spec => []HoldHasItsRow
<1>1. IInv => HoldHasItsRow
  BY DEF IInv, CreditInv
<1>. QED  BY Invariance, <1>1, PTL

(* The wallet reserves the one active hold of the job and nothing else.    *)
THEOREM ReservationCorrect == Spec => []ReservedIsTheHold
<1>1. IInv => ReservedIsTheHold
  BY DEF IInv, CreditInv
<1>. QED  BY Invariance, <1>1, PTL

(* An open job has a held Credit row exactly on the Credit rail.           *)
THEOREM RailCorrect == Spec => []HeldRowIffCreditRail
<1>1. IInv => HeldRowIffCreditRail
  BY DEF IInv, JobInv
<1>. QED  BY Invariance, <1>1, PTL

(* A captured row is backed by a capture of just its amount.               *)
THEOREM CaptureCorrect == Spec => []CapturedIsTaken
<1>1. IInv => CapturedIsTaken
  BY DEF IInv, CardInv
<1>. QED  BY Invariance, <1>1, PTL

(* No capture asks for more than is authorized.                            *)
THEOREM AuthorizationCorrect == Spec => []AskNoMoreThanAuthorized
<1>1. IInv => AskNoMoreThanAuthorized
  <2>. SUFFICES ASSUME IInv, payment.status = "authorized",
                       intent[payment.intent].state = "authorized"
                PROVE  CaptureAmount <= intent[payment.intent].amount
    BY DEF AskNoMoreThanAuthorized
  <2>1. payment.intent \in Intents /\ payment.intent # NoIntent
    BY DEF IInv, CardInv, CardTypeOK, RowHasIntent
  <2>2. payment.amount <= intent[payment.intent].amount
    BY <2>1 DEF IInv, CardInv, WithinIntent
  <2>3. /\ payment.amount \in Nat /\ payment.capture \in Nat
        /\ intent[payment.intent].amount \in Nat
    BY <2>1 DEF IInv, CardInv, CardTypeOK
  <2>. QED  BY <2>2, <2>3 DEF CaptureAmount, Smaller
<1>. QED  BY Invariance, <1>1, PTL

(* A row that is short is flagged on the job.                              *)
THEOREM FlagCorrect == Spec => []IncreaseIsFlagged
<1>1. IInv => IncreaseIsFlagged
  BY DEF IInv, CardInv
<1>. QED  BY Invariance, <1>1, PTL

(* Without a fault no authorization of the card is forgotten.              *)
THEOREM WatchCorrect == Spec => []NoForgottenAuthorization
<1>1. IInv => NoForgottenAuthorization
  BY DEF IInv, AllWatched, Watched, NoForgottenAuthorization
<1>. QED  BY Invariance, <1>1, PTL

(* A captured row never changes again.                                     *)
THEOREM CapturedCorrect == Spec => CapturedIsFinal
<1>1. IInv /\ [Next]_vars => [payment.status = "captured" => payment' = payment]_vars
  BY NextCard, CapturedStays DEF IInv, CardPart
<1>. QED  BY Invariance, <1>1, PTL DEF Spec, CapturedIsFinal
-----------------------------------------------------------------------------
(* As long as no capture is lost, the card is charged once.  What a step   *)
(* preserves is that the one captured intent is the row's, and that either *)
(* a completion has the row locked or it has told the row.                 *)
OnlyRowCaptured ==
  \A i \in Intents : intent[i].state = "captured" =>
    i = payment.intent /\ (completing # "no" \/ payment.status = "captured")

CapturedIsDone ==
  completing = "no" /\ payment.status = "captured" => status = "completed"

ChargesInv == ~lost => OnlyRowCaptured /\ CapturedIsDone

(* While a completion has the row locked, nothing but its own end and      *)
(* captures change it, and no intent of a locked row is captured again.    *)
LEMMA LockedRowStays ==
  ASSUME CardInv, CardMove \/ (\E i \in Intents : LoseRelease(i)), completing # "no"
  PROVE  /\ payment'.intent = payment.intent
         /\ completing' # "no" => UNCHANGED payment
<1>1. OpenPayment /\ ~RowFree
  BY DEF CardInv, CaptureInHand, RowFree
<1>2. ASSUME NEW i \in Intents,
             CustomerConfirms(i) \/ AuthorizationLapses(i) \/ ExpireAttempt(i)
               \/ RunRelease(i) \/ LoseRelease(i)
      PROVE  UNCHANGED payment
  BY <1>2 DEF CustomerConfirms, AuthorizationLapses, ExpireAttempt, RunRelease, LoseRelease
<1>3. ASSUME NEW i \in Intents,
             ResumeAttempt(i) \/ ConfirmAttempt(i) \/ DeliverAuthorized(i)
               \/ DeliverCanceled(i) \/ DeliverCaptured(i)
      PROVE  UNCHANGED payment
  BY <1>1, <1>3
  DEF ResumeAttempt, ConfirmAttempt, DeliverAuthorized, DeliverCanceled, DeliverCaptured
<1>4. ASSUME NEW q \in Nat, ReadPrice(q) \/ RepriceCard(q)
      PROVE  UNCHANGED payment
  BY <1>1, <1>4 DEF ReadPrice, RepriceCard
<1>5. ~InsertPayment /\ ~RepriceIntent /\ ~RepriceBecomesReplacement /\ ~StartAttempt
  BY <1>1 DEF InsertPayment, RepriceIntent, RepriceBecomesReplacement, StartAttempt,
              OpenPayment
<1>6. \A who : ~CaptureAtProvider(who)
  BY <1>1 DEF CaptureAtProvider
<1>7. AbandonCapture \/ UNCHANGED cardVars => UNCHANGED payment
  BY DEF AbandonCapture, cardVars
<1>8. CommitCapture => payment'.intent = payment.intent /\ completing' = "no"
  BY DEF CommitCapture, CardInv, CardTypeOK
<1>. QED  BY <1>2, <1>3, <1>4, <1>5, <1>6, <1>7, <1>8 DEF CardMove

(* An intent is captured by a completion that locks the open row.          *)
LEMMA NewlyCaptured ==
  ASSUME CardInv, CardMove \/ (\E i \in Intents : LoseRelease(i)),
         NEW i \in Intents, intent'[i].state = "captured", intent[i].state # "captured"
  PROVE  /\ completing = "no" /\ OpenPayment
         /\ completing' # "no" /\ UNCHANGED payment /\ i = payment.intent
         /\ \A j \in Intents \ {i} : intent'[j] = intent[j]
<1>1. intent \in [Intents -> [state : IntentStates, amount : Nat]]
  BY DEF CardInv, CardTypeOK
<1>2. \A j \in Intents : Canceled(j).state = "captured" => intent[j].state = "captured"
  BY <1>1 DEF Canceled
<1>3. ASSUME NEW q \in Nat, ReadPrice(q) \/ RepriceCard(q)
      PROVE  FALSE
  BY <1>1, <1>2, <1>3 DEF ReadPrice, RepriceCard
<1>4. ~InsertPayment /\ ~RepriceIntent /\ ~RepriceBecomesReplacement
  BY <1>1 DEF InsertPayment, RepriceIntent, RepriceBecomesReplacement
<1>5. ~StartAttempt
  BY <1>1, <1>2 DEF StartAttempt
<1>6. ASSUME NEW j \in Intents,
             \/ CustomerConfirms(j) \/ AuthorizationLapses(j) \/ ExpireAttempt(j)
             \/ RunRelease(j) \/ LoseRelease(j)
      PROVE  FALSE
  BY <1>1, <1>2, <1>6
  DEF CustomerConfirms, AuthorizationLapses, ExpireAttempt, RunRelease, LoseRelease
<1>7. ASSUME NEW j \in Intents,
             \/ ResumeAttempt(j) \/ ConfirmAttempt(j) \/ DeliverAuthorized(j)
             \/ DeliverCanceled(j) \/ DeliverCaptured(j)
      PROVE  FALSE
  BY <1>7
  DEF ResumeAttempt, ConfirmAttempt, DeliverAuthorized, DeliverCanceled, DeliverCaptured
<1>8. ~CommitCapture /\ ~AbandonCapture /\ ~LeaveCardRail /\ ~UNCHANGED cardVars
  BY DEF CommitCapture, AbandonCapture, LeaveCardRail, cardVars
<1>9. PICK who \in {"customer", "auto"} : CaptureAtProvider(who)
  BY <1>3, <1>4, <1>5, <1>6, <1>7, <1>8 DEF CardMove
<1>. QED  BY <1>1, <1>9 DEF CaptureAtProvider, RowFree, CardInv, CardTypeOK

(* Only the row's intent is captured, until a capture is lost.             *)
LEMMA OnlyRowStays ==
  ASSUME CardInv, CardMove \/ (\E i \in Intents : LoseRelease(i)),
         OnlyRowCaptured, ~CaptureLost
  PROVE  OnlyRowCaptured'
<1>. SUFFICES ASSUME NEW i \in Intents, intent'[i].state = "captured"
              PROVE  /\ i = payment'.intent
                     /\ completing' # "no" \/ payment'.status = "captured"
  BY DEF OnlyRowCaptured
<1>1. CASE intent[i].state # "captured"
  BY <1>1, NewlyCaptured
<1>2. CASE intent[i].state = "captured" /\ completing # "no"
  BY <1>2, LockedRowStays DEF OnlyRowCaptured, CaptureLost
<1>3. CASE intent[i].state = "captured" /\ payment.status = "captured"
  BY <1>3, CapturedStays DEF OnlyRowCaptured
<1>. QED  BY <1>1, <1>2, <1>3 DEF OnlyRowCaptured

(* A change order never moves the row from one status to another.          *)
LEMMA RepriceKeepsStatus ==
  ASSUME CardInv, NEW target \in Nat, RepriceCard(target)
  PROVE  payment'.status = payment.status
<1>1. CASE payment.status = "pending"
  <2>1. payment' = [payment EXCEPT !.capture = target,
                          !.increase = Shortfall(target, payment.authorized)]
    BY <1>1 DEF RepriceCard
  <2>. QED  BY <2>1 DEF CardInv, CardTypeOK
<1>2. CASE payment.status = "authorized" /\ target <= payment.authorized
  <2>1. payment' = [payment EXCEPT !.amount = target, !.capture = target, !.increase = 0]
    BY <1>2 DEF RepriceCard, CardInv, CardTypeOK
  <2>. QED  BY <2>1 DEF CardInv, CardTypeOK
<1>3. CASE payment.status = "authorized" /\ target > payment.authorized
  <2>1. payment' = [payment EXCEPT !.capture = payment.authorized,
                                   !.increase = target - payment.authorized]
    BY <1>3 DEF RepriceCard, CardInv, CardTypeOK
  <2>. QED  BY <2>1 DEF CardInv, CardTypeOK
<1>4. CASE payment.status \notin {"pending", "authorized"}
  BY <1>4 DEF RepriceCard
<1>. QED  BY <1>1, <1>2, <1>3, <1>4 DEF CardInv, CardTypeOK

(* The row learns of a capture from its completion; its webhook comes too  *)
(* late to tell anything, as long as no capture is lost.                   *)
LEMMA RowLearnsFromCompletion ==
  ASSUME CardInv, CardMove \/ (\E i \in Intents : LoseRelease(i)), OnlyRowCaptured,
         payment.status # "captured", payment'.status = "captured"
  PROVE  completing # "no"
<1>. SUFFICES ASSUME completing = "no" PROVE FALSE
  OBVIOUS
<1>1. \A i \in Intents : intent[i].state # "captured"
  BY DEF OnlyRowCaptured
<1>2. payment \in [status : PaymentStatuses, intent : Intents \cup {NoIntent},
                   amount : Nat, authorized : Nat, capture : Nat, increase : Nat]
  BY DEF CardInv, CardTypeOK
<1>3. ASSUME NEW i \in Intents, Finalize(i)
      PROVE  FALSE
  BY <1>2, <1>3 DEF Finalize
<1>4. ASSUME NEW i \in Intents, ResumeAttempt(i) \/ ConfirmAttempt(i)
      PROVE  FALSE
  BY <1>3, <1>4 DEF ResumeAttempt, ConfirmAttempt
<1>5. ASSUME NEW i \in Intents, DeliverAuthorized(i)
      PROVE  FALSE
  BY <1>2, <1>3, <1>5 DEF DeliverAuthorized, CardInv, CardTypeOK
<1>6. ASSUME NEW i \in Intents, DeliverCanceled(i)
      PROVE  FALSE
  BY <1>2, <1>6 DEF DeliverCanceled
<1>7. ASSUME NEW i \in Intents, DeliverCaptured(i)
      PROVE  FALSE
  BY <1>1, <1>7 DEF DeliverCaptured, CardInv, EventsTrue
<1>8. ASSUME NEW i \in Intents,
             CustomerConfirms(i) \/ AuthorizationLapses(i) \/ ExpireAttempt(i)
               \/ RunRelease(i) \/ LoseRelease(i)
      PROVE  FALSE
  BY <1>8 DEF CustomerConfirms, AuthorizationLapses, ExpireAttempt, RunRelease, LoseRelease
<1>9. ASSUME NEW q \in Nat, ReadPrice(q) \/ RepriceCard(q)
      PROVE  FALSE
  BY <1>9, RepriceKeepsStatus DEF ReadPrice
<1>10. ~InsertPayment /\ ~RepriceIntent /\ ~RepriceBecomesReplacement /\ ~StartAttempt
  <2>1. ~InsertPayment /\ ~StartAttempt
    BY DEF InsertPayment, StartAttempt
  <2>2. RepriceIntent => payment' = [payment EXCEPT !.amount = payment.capture,
                                    !.authorized = payment.capture, !.increase = 0]
    BY DEF RepriceIntent
  <2>3. PICK funded : funded = intent[payment.intent].amount
    OBVIOUS
  <2>4. RepriceBecomesReplacement =>
          payment' = [payment EXCEPT !.status = "authorized", !.capture = funded,
                                     !.increase = Shortfall(payment.capture, funded)]
    BY <2>3 DEF RepriceBecomesReplacement
  <2>5. ~RepriceIntent
    BY <1>2, <2>2
  <2>6. ~RepriceBecomesReplacement
    BY <1>2, <2>4
  <2>. QED  BY <2>1, <2>5, <2>6
<1>11. \A who : ~CaptureAtProvider(who)
  BY DEF CaptureAtProvider
<1>12. ~AbandonCapture /\ ~LeaveCardRail /\ ~UNCHANGED cardVars
  BY <1>2 DEF AbandonCapture, LeaveCardRail, cardVars
<1>. QED
  BY <1>4, <1>5, <1>6, <1>7, <1>8, <1>9, <1>10, <1>11, <1>12 DEF CardMove

(* A completed job stays completed, and a capture ends with its completion.*)
LEMMA CompletionEnds ==
  ASSUME IInv, [Next]_vars
  PROVE  /\ status = "completed" => status' = "completed"
         /\ completing # "no" /\ completing' = "no" /\ payment'.status = "captured"
              => status' = "completed"
<1>1. completing # "no" => payment.status # "captured"
  BY DEF IInv, CardInv, CaptureInHand, OpenPayment
<1>. DEFINE Goal == /\ status = "completed" => status' = "completed"
                    /\ completing # "no" /\ completing' = "no"
                         /\ payment'.status = "captured" => status' = "completed"
<1>2. CASE UNCHANGED vars
  BY <1>2 DEF vars, jobVars, cardVars
<1>3. CASE \/ StartJob \/ CancelJob \/ Dispute \/ ProposeChange \/ DropSwitch
           \/ (\E to \in Rails : RequestSwitch(to))
           \/ RequestCompletion \/ GiveCreditBack \/ LoseGiveBack
           \/ (\E who \in {"customer", "helper"} : CompleteJob(who))
  BY <1>3
  DEF StartJob, CancelJob, Dispute, ProposeChange, DropSwitch, RequestSwitch,
      RequestCompletion, GiveCreditBack, LoseGiveBack, CompleteJob, cardVars
<1>4. CASE \/ AutoRelease \/ (\E h \in Holds : CreditStep(EndHold(h)))
           \/ CreditStep(AuthorizeWithCredit)
  BY <1>4 DEF AutoRelease, CreditStep, vars, jobVars, cardVars
<1>5. ASSUME NEW approve \in BOOLEAN, DecideChange(approve)
      PROVE  Goal
  BY <1>5 DEF DecideChange, RepriceCard, cardVars
<1>6. CASE AcceptSwitch
  BY <1>6 DEF AcceptSwitch, LeaveCardRail, cardVars
<1>7. CASE CreatePayment
  BY <1>7 DEF CreatePayment, InsertPayment
<1>8. ASSUME NEW who \in {"customer", "auto"}, StartCapture(who)
      PROVE  Goal
  BY <1>8 DEF StartCapture, CardStep, CaptureAtProvider, jobVars
<1>9. CASE FinishCapture
  BY <1>1, <1>9 DEF FinishCapture, AbandonCapture
<1>10. CASE RollBackCapture
  BY <1>1, <1>10 DEF RollBackCapture, AbandonCapture
<1>11. ASSUME NEW i \in Intents, Lapse(i) \/ LoseCancellation(i)
       PROVE  Goal
  BY <1>11 DEF Lapse, LoseCancellation, AuthorizationLapses, LoseRelease
<1>12. CASE \/ QuotePayment \/ CardStep(RepriceIntent)
            \/ CardStep(RepriceBecomesReplacement) \/ CardStep(StartAttempt)
  BY <1>12
  DEF QuotePayment, CardStep, ReadPrice, RepriceIntent, RepriceBecomesReplacement,
      StartAttempt, jobVars
<1>13. ASSUME NEW i \in Intents,
              \/ CardStep(CustomerConfirms(i)) \/ CardStep(ResumeAttempt(i))
              \/ CardStep(ConfirmAttempt(i)) \/ CardStep(ExpireAttempt(i))
              \/ CardStep(RunRelease(i)) \/ CardStep(DeliverAuthorized(i))
              \/ CardStep(DeliverCanceled(i)) \/ CardStep(DeliverCaptured(i))
       PROVE  Goal
  BY <1>13
  DEF CardStep, CustomerConfirms, ResumeAttempt, ConfirmAttempt, ExpireAttempt, RunRelease,
      DeliverAuthorized, DeliverCanceled, DeliverCaptured, jobVars
<1>. QED
  BY <1>2, <1>3, <1>4, <1>5, <1>6, <1>7, <1>8, <1>9, <1>10, <1>11, <1>12, <1>13 DEF Next

(* Every step keeps the charges explained.                                 *)
LEMMA ChargesSafe ==
  ASSUME IInv, ChargesInv, [ChargesNext]_<<vars, lost>>
  PROVE  IInv' /\ ChargesInv'
<1>1. [Next]_vars /\ (~lost' => ~lost /\ ~CaptureLost)
  <2>1. CASE ChargesNext
    BY <2>1, Zenon DEF ChargesNext
  <2>2. CASE UNCHANGED <<vars, lost>>
    BY <2>2 DEF vars, cardVars, CaptureLost
  <2>. QED  BY <2>1, <2>2
<1>2. IInv'
  BY <1>1, NextSafe
<1>. SUFFICES ASSUME ~lost' PROVE OnlyRowCaptured' /\ CapturedIsDone'
  BY <1>2 DEF ChargesInv
<1>3. OnlyRowCaptured /\ CapturedIsDone /\ ~CaptureLost
  BY <1>1 DEF ChargesInv
<1>4. CardInv /\ (CardMove \/ \E i \in Intents : LoseRelease(i))
  BY <1>1, NextCard DEF IInv, CardPart
<1>5. OnlyRowCaptured'
  BY <1>3, <1>4, OnlyRowStays
<1>6. CapturedIsDone'
  <2>. SUFFICES ASSUME completing' = "no", payment'.status = "captured"
                PROVE  status' = "completed"
    BY DEF CapturedIsDone
  <2>1. CASE payment.status = "captured"
    <3>1. completing = "no"
      BY <1>4, <2>1 DEF CardInv, CaptureInHand, OpenPayment
    <3>. QED  BY <1>1, <1>3, <2>1, <3>1, CompletionEnds DEF CapturedIsDone
  <2>2. CASE payment.status # "captured"
    BY <1>1, <1>3, <1>4, <2>2, RowLearnsFromCompletion, CompletionEnds
  <2>. QED  BY <2>1, <2>2
<1>. QED  BY <1>5, <1>6

(* As long as no capture is lost, the card is charged by one intent only,  *)
(* the row's, and for a completed job, however many change orders, attempts*)
(* and switches there were.                                                *)
THEOREM ChargesCorrect == ChargesSpec => []ChargedOnce
<1>1. ChargesInit => IInv /\ ChargesInv
  <2>. SUFFICES ASSUME ChargesInit PROVE ChargesInv
    BY InitSafe DEF ChargesInit
  <2>. QED
    BY DEF ChargesInit, Init, CardInit, ChargesInv, OnlyRowCaptured, CapturedIsDone
<1>2. IInv /\ ChargesInv /\ [ChargesNext]_<<vars, lost>> => IInv' /\ ChargesInv'
  BY ChargesSafe
<1>3. IInv /\ ChargesInv => ChargedOnce
  BY DEF ChargesInv, OnlyRowCaptured, CapturedIsDone, ChargedOnce
<1>. QED  BY <1>1, <1>2, <1>3, PTL DEF ChargesSpec
=============================================================================
