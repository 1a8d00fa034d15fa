--------------------------- MODULE JobCardPayment ---------------------------
(***************************************************************************)
(* The card authorization of a job: its payments row, the PaymentIntents   *)
(* at the provider (external, manual capture, charge model 'direct'), the  *)
(* attempts to replace an authorization after a change order raised the    *)
(* price (jobPaymentReauthorizationService.js), and the webhooks that tell *)
(* the server what happened at the provider, late and in any order.        *)
(*                                                                         *)
(* One payments row for the job.  An attempt has an intent of its own, so  *)
(* attempts are indexed by intents; the first intent is the row's own.     *)
(* The provider cancels or captures what it is asked to and nothing else,  *)
(* except that an authorization may lapse.  The webhook of a cancellation  *)
(* that can change nothing any more, of an intent that backs neither the   *)
(* row nor an open attempt, is left out.                                   *)
(***************************************************************************)
EXTENDS Naturals

CONSTANTS MaxPrice, MaxIntents

ASSUME CardBounds == MaxPrice \in Nat \ {0} /\ MaxIntents \in Nat \ {0}

Intents == 1 .. MaxIntents
NoIntent == 0
Prices == 1 .. MaxPrice

VARIABLES
  payment,     \* the payments row; authorized is metadata.authorized_amount_cents
  intent,      \* the PaymentIntents: state and amount
  attempt,     \* job_payment_reauthorizations.status, by intent
  events,      \* webhooks the provider has yet to deliver
  releasing,   \* in memory: intents to cancel once the commit is done
  cardFlag,    \* metadata.paymentAdjustmentRequired
  quoted,      \* in memory: the price a createPaymentIntent call read
  completing   \* who holds the payments row locked to capture it

cardVars == <<payment, intent, attempt, events, releasing, cardFlag, quoted,
              completing>>

PaymentStatuses == {"none", "pending", "authorized", "captured", "canceled"}
IntentStates == {"none", "confirmable", "authorized", "captured", "canceled"}
Events == {"authorized", "captured", "canceled"} \X Intents

CardTypeOK ==
  /\ payment \in [status : PaymentStatuses, intent : Intents \cup {NoIntent},
                  amount : Nat, authorized : Nat, capture : Nat, increase : Nat]
  /\ intent \in [Intents -> [state : IntentStates, amount : Nat]]
  /\ attempt \in [Intents -> {"none", "pending", "authorized", "closed"}]
  /\ events \subseteq Events
  /\ releasing \subseteq Intents
  /\ cardFlag \in {"none", "reprice", "reauthorize"}
  /\ quoted \in Nat
  /\ completing \in {"no", "customer", "auto"}

CardInit ==
  /\ payment = [status |-> "none", intent |-> NoIntent,
                amount |-> 0, authorized |-> 0, capture |-> 0, increase |-> 0]
  /\ intent = [i \in Intents |-> [state |-> "none", amount |-> 0]]
  /\ attempt = [i \in Intents |-> "none"]
  /\ events = {}
  /\ releasing = {}
  /\ cardFlag = "none"
  /\ quoted = 0
  /\ completing = "no"

-----------------------------------------------------------------------------
Smaller(a, b) == IF a < b THEN a ELSE b

Shortfall(due, funded) == IF due > funded THEN due - funded ELSE 0

(* The id of the next intent; none when the bound MaxIntents is reached.   *)
NextIntent == {i \in Intents : /\ intent[i].state = "none"
                               /\ \A j \in Intents : j < i => intent[j].state # "none"}

OpenPayment == payment.status \in {"pending", "authorized"}
OpenAttempts == {i \in Intents : attempt[i] = "pending"}

(* Mutant of RowFree: a completion captures without FOR UPDATE.            *)
RowNotLocked == TRUE

(* No completion holds the payments row locked.                            *)
RowFree == completing = "no"

(* captureCents: what a capture asks the provider for.                     *)
CaptureAmount ==
  IF payment.capture > 0 THEN Smaller(payment.amount, payment.capture)
                         ELSE payment.amount

(* paymentIntents.cancel, for an intent that is still open.                *)
Canceled(i) == IF intent[i].state \in {"confirmable", "authorized"}
                 THEN [intent[i] EXCEPT !.state = "canceled"]
                 ELSE intent[i]

-----------------------------------------------------------------------------
(* createPaymentIntent reads the job without a lock ...                    *)
ReadPrice(price) ==
  /\ payment.status = "none"
  /\ cardFlag = "none"
  /\ quoted' = price
  /\ UNCHANGED <<payment, intent, attempt, events, releasing, cardFlag, completing>>

(* ... and creates the intent and the row at the price it read.            *)
InsertPayment ==
  /\ quoted # 0
  /\ payment.status = "none"
  /\ \E i \in NextIntent :
       /\ intent' = [intent EXCEPT ![i] = [state |-> "confirmable", amount |-> quoted]]
       /\ payment' = [status |-> "pending", intent |-> i,
                      amount |-> quoted, authorized |-> quoted, capture |-> 0,
                      increase |-> 0]
  /\ quoted' = 0
  /\ UNCHANGED <<attempt, events, releasing, cardFlag, completing>>

(* External: the customer confirms the card.                               *)
CustomerConfirms(i) ==
  /\ intent[i].state = "confirmable"
  /\ intent' = [intent EXCEPT ![i].state = "authorized"]
  /\ events' = events \cup {<<"authorized", i>>}
  /\ UNCHANGED <<payment, attempt, releasing, cardFlag, quoted, completing>>

(* External: the card's authorization window ends.                         *)
AuthorizationLapses(i) ==
  /\ intent[i].state = "authorized"
  /\ intent' = [intent EXCEPT ![i].state = "canceled"]
  /\ events' = events \cup {<<"canceled", i>>}
  /\ UNCHANGED <<payment, attempt, releasing, cardFlag, quoted, completing>>

-----------------------------------------------------------------------------
(* The card part of an approved change order (applyApprovedChangeOrder).   *)
RepriceCard(target) ==
  /\ RowFree
  /\ CASE payment.status = "pending" ->
            /\ payment' = [payment EXCEPT !.capture = target,
                              !.increase = Shortfall(target, payment.authorized)]
            /\ cardFlag' = "reprice"
            /\ UNCHANGED <<intent, attempt, events>>
       [] payment.status = "authorized" /\ target <= payment.authorized ->
            /\ payment' = [payment EXCEPT !.amount = target, !.capture = target,
                                          !.increase = 0]
            /\ cardFlag' = "none"
            /\ attempt' = [i \in Intents |-> IF i \in OpenAttempts THEN "closed"
                                                                   ELSE attempt[i]]
            /\ intent' = [i \in Intents |-> IF i \in OpenAttempts THEN Canceled(i)
                                                                  ELSE intent[i]]
            /\ UNCHANGED events
       [] payment.status = "authorized" /\ target > payment.authorized ->
            /\ payment' = [payment EXCEPT !.capture = payment.authorized,
                                          !.increase = target - payment.authorized]
            /\ cardFlag' = "reauthorize"
            /\ UNCHANGED <<intent, attempt, events>>
       [] OTHER -> UNCHANGED <<payment, intent, attempt, events, cardFlag>>
  /\ UNCHANGED <<releasing, quoted, completing>>

(* Mutant of Finalize: the intent that is replaced is left to lapse.       *)
ReplaceOnly(i) ==
  IF attempt[i] = "pending" /\ payment.status = "authorized"
    THEN /\ payment' = [status |-> "authorized", intent |-> i,
                        amount |-> intent[i].amount, authorized |-> intent[i].amount,
                        capture |-> intent[i].amount, increase |-> 0]
         /\ attempt' = [attempt EXCEPT ![i] = "authorized"]
         /\ cardFlag' = "none"
         /\ UNCHANGED releasing
    ELSE /\ attempt' = [attempt EXCEPT ![i] = "closed"]
         /\ releasing' = releasing \cup {i}
         /\ UNCHANGED <<payment, cardFlag>>

(* finalizeAuthorizedInTransaction: move the row onto the intent of the    *)
(* attempt and cancel the old one after the commit, or, when the job moved *)
(* on, close the attempt and cancel its intent.                            *)
Finalize(i) ==
  IF attempt[i] = "pending" /\ payment.status = "authorized"
    THEN /\ payment' = [status |-> "authorized", intent |-> i,
                        amount |-> intent[i].amount, authorized |-> intent[i].amount,
                        capture |-> intent[i].amount, increase |-> 0]
         /\ attempt' = [attempt EXCEPT ![i] = "authorized"]
         /\ cardFlag' = "none"
         /\ releasing' = releasing \cup {payment.intent}
    ELSE /\ attempt' = [attempt EXCEPT ![i] = "closed"]
         /\ releasing' = releasing \cup {i}
         /\ UNCHANGED <<payment, cardFlag>>

(* Mutant of RepriceIntent: the provider is not told.                      *)
RepriceRowOnly ==
  /\ RowFree /\ OpenPayment
  /\ cardFlag = "reprice"
  /\ intent[payment.intent].state = "confirmable"
  /\ payment' = [payment EXCEPT !.amount = payment.capture,
                                !.authorized = payment.capture, !.increase = 0]
  /\ cardFlag' = "none"
  /\ UNCHANGED <<intent, attempt, events, releasing, quoted, completing>>

(* startCardReauthorization, the intent was never confirmed: its amount is *)
(* updated in place.                                                       *)
RepriceIntent ==
  /\ RowFree /\ OpenPayment
  /\ cardFlag = "reprice"
  /\ intent[payment.intent].state = "confirmable"
  /\ intent' = [intent EXCEPT ![payment.intent].amount = payment.capture]
  /\ payment' = [payment EXCEPT !.amount = payment.capture,
                                !.authorized = payment.capture, !.increase = 0]
  /\ cardFlag' = "none"
  /\ UNCHANGED <<attempt, events, releasing, quoted, completing>>

(* Mutant of RepriceBecomesReplacement: the flag is cleared.               *)
RepriceIsDone ==
  /\ RowFree /\ OpenPayment
  /\ cardFlag = "reprice"
  /\ intent[payment.intent].state # "confirmable"
  /\ LET funded == intent[payment.intent].amount
     IN payment' = [payment EXCEPT !.status = "authorized", !.capture = funded,
                                   !.increase = Shortfall(payment.capture, funded)]
  /\ cardFlag' = "none"
  /\ UNCHANGED <<intent, attempt, events, releasing, quoted, completing>>

(* ... it was confirmed before the server knew: a replacement is due.      *)
RepriceBecomesReplacement ==
  /\ RowFree /\ OpenPayment
  /\ cardFlag = "reprice"
  /\ intent[payment.intent].state # "confirmable"
  /\ LET funded == intent[payment.intent].amount
     IN payment' = [payment EXCEPT !.status = "authorized", !.capture = funded,
                                   !.increase = Shortfall(payment.capture, funded)]
  /\ cardFlag' = "reauthorize"
  /\ UNCHANGED <<intent, attempt, events, releasing, quoted, completing>>

Target == payment.authorized + payment.increase

(* ... a replacement: the open attempt at the same amount is reused ...    *)
ResumeAttempt(i) ==
  /\ RowFree /\ OpenPayment
  /\ cardFlag = "reauthorize"
  /\ attempt[i] = "pending" /\ intent[i].amount = Target
  /\ intent[i].state = "authorized"
  /\ Finalize(i)
  /\ UNCHANGED <<intent, events, quoted, completing>>

(* ... and otherwise superseded, at the provider before the commit, by a   *)
(* new attempt with an intent of its own.  An attempt may be past its time *)
(* to live, so one at the same amount may be superseded too.               *)
StartAttempt ==
  /\ RowFree /\ OpenPayment
  /\ cardFlag = "reauthorize"
  /\ \E i \in NextIntent :
       /\ intent' = [j \in Intents |->
                       IF j = i THEN [state |-> "confirmable", amount |-> Target]
                       ELSE IF j \in OpenAttempts THEN Canceled(j) ELSE intent[j]]
       /\ attempt' = [j \in Intents |->
                        IF j = i THEN "pending"
                        ELSE IF j \in OpenAttempts THEN "closed" ELSE attempt[j]]
  /\ UNCHANGED <<payment, events, releasing, cardFlag, quoted, completing>>

(* confirmCardReauthorization, called by the browser.                      *)
ConfirmAttempt(i) ==
  /\ attempt[i] = "pending"
  /\ \/ /\ intent[i].state = "authorized"
        /\ RowFree
        /\ Finalize(i)
     \/ /\ intent[i].state = "canceled"
        /\ attempt' = [attempt EXCEPT ![i] = "closed"]
        /\ UNCHANGED <<payment, cardFlag, releasing>>
  /\ UNCHANGED <<intent, events, quoted, completing>>

(* expireStaleReauthorizations: past its time to live, or the job ended.   *)
ExpireAttempt(i) ==
  /\ attempt[i] = "pending"
  /\ attempt' = [attempt EXCEPT ![i] = "closed"]
  /\ releasing' = releasing \cup {i}
  /\ UNCHANGED <<payment, intent, events, cardFlag, quoted, completing>>

(* runCancelAfter and its like: cancel an intent after the commit, quietly.*)
RunRelease(i) ==
  /\ i \in releasing
  /\ releasing' = releasing \ {i}
  /\ intent' = [intent EXCEPT ![i] = Canceled(i)]
  /\ events' = IF i = payment.intent /\ intent'[i].state = "canceled"
                 THEN events \cup {<<"canceled", i>>} ELSE events
  /\ UNCHANGED <<payment, attempt, cardFlag, quoted, completing>>

-----------------------------------------------------------------------------
(* Mutant of DeliverAuthorized: a captured row is not spared.              *)
AuthorizeAnyRow(i) ==
  /\ <<"authorized", i>> \in events
  /\ RowFree
  /\ events' = events \ {<<"authorized", i>>}
  /\ CASE attempt[i] \in {"pending", "closed"} -> Finalize(i)
       [] attempt[i] = "authorized" -> UNCHANGED <<payment, attempt, cardFlag, releasing>>
       [] attempt[i] = "none" ->
            /\ payment' = IF payment.intent = i
                            THEN [payment EXCEPT !.status = "authorized"]
                            ELSE payment
            /\ UNCHANGED <<attempt, cardFlag, releasing>>
  /\ UNCHANGED <<intent, quoted, completing>>

(* payment_intent.amount_capturable_updated                                *)
DeliverAuthorized(i) ==
  /\ <<"authorized", i>> \in events
  /\ RowFree
  /\ events' = events \ {<<"authorized", i>>}
  /\ CASE attempt[i] \in {"pending", "closed"} -> Finalize(i)
       [] attempt[i] = "authorized" -> UNCHANGED <<payment, attempt, cardFlag, releasing>>
       [] attempt[i] = "none" ->
            /\ payment' = IF payment.intent = i /\ payment.status # "captured"
                            THEN [payment EXCEPT !.status = "authorized"]
                            ELSE payment
            /\ UNCHANGED <<attempt, cardFlag, releasing>>
  /\ UNCHANGED <<intent, quoted, completing>>

(* payment_intent.canceled                                                 *)
DeliverCanceled(i) ==
  /\ <<"canceled", i>> \in events
  /\ RowFree
  /\ events' = events \ {<<"canceled", i>>}
  /\ attempt' = IF attempt[i] = "pending" THEN [attempt EXCEPT ![i] = "closed"]
                                          ELSE attempt
  /\ payment' = IF /\ attempt[i] \in {"none", "authorized"}
                   /\ payment.intent = i /\ payment.status # "captured"
                  THEN [payment EXCEPT !.status = "canceled"]
                  ELSE payment
  /\ UNCHANGED <<intent, releasing, cardFlag, quoted, completing>>

(* Mutant of DeliverCaptured: any captured amount will do.                 *)
CapturedAnyAmount(i) ==
  /\ <<"captured", i>> \in events
  /\ RowFree
  /\ events' = events \ {<<"captured", i>>}
  /\ payment' = IF /\ attempt[i] \in {"none", "authorized"}
                   /\ payment.intent = i /\ OpenPayment
                  THEN [payment EXCEPT !.status = "captured"]
                  ELSE payment
  /\ UNCHANGED <<intent, attempt, releasing, cardFlag, quoted, completing>>

(* payment_intent.succeeded: the captured amount has to be the expected.   *)
DeliverCaptured(i) ==
  /\ <<"captured", i>> \in events
  /\ RowFree
  /\ events' = events \ {<<"captured", i>>}
  /\ payment' = IF /\ attempt[i] \in {"none", "authorized"}
                   /\ payment.intent = i /\ OpenPayment
                   /\ intent[i].amount = CaptureAmount
                  THEN [payment EXCEPT !.status = "captured"]
                  ELSE payment
  /\ UNCHANGED <<intent, attempt, releasing, cardFlag, quoted, completing>>

-----------------------------------------------------------------------------
(* The capture of a completion: completeJobCore locks the row, a pending   *)
(* one too when the provider has the authorization already, and captures   *)
(* at the provider while its transaction is open.                          *)
CaptureAtProvider(who) ==
  /\ RowFree /\ OpenPayment
  /\ payment.increase = 0
  /\ intent[payment.intent].state = "authorized"
  /\ intent' = [intent EXCEPT ![payment.intent] =
                  [state |-> "captured", amount |-> CaptureAmount]]
  /\ events' = events \cup {<<"captured", payment.intent>>}
  /\ completing' = who
  /\ UNCHANGED <<payment, attempt, releasing, cardFlag, quoted>>

(* The transaction of the completion commits ...                           *)
CommitCapture ==
  /\ payment' = [payment EXCEPT !.status = "captured"]
  /\ completing' = "no"
  /\ UNCHANGED <<intent, attempt, events, releasing, cardFlag, quoted>>

(* ... or rolls back; the provider has captured all the same.              *)
AbandonCapture ==
  /\ completing' = "no"
  /\ UNCHANGED <<payment, intent, attempt, events, releasing, cardFlag, quoted>>

(* The card part of a switch away from the card rail: the row is canceled, *)
(* the intent after the commit.                                            *)
LeaveCardRail ==
  /\ IF OpenPayment
       THEN /\ payment' = [payment EXCEPT !.status = "canceled"]
            /\ releasing' = releasing \cup {payment.intent}
       ELSE UNCHANGED <<payment, releasing>>
  /\ UNCHANGED <<intent, attempt, events, cardFlag, quoted, completing>>

(* The process dies before it cancels an intent.                           *)
LoseRelease(i) ==
  /\ i \in releasing
  /\ releasing' = releasing \ {i}
  /\ UNCHANGED <<payment, intent, attempt, events, cardFlag, quoted, completing>>

-----------------------------------------------------------------------------
(* The provider has captured what the row stands for.                      *)
Taken ==
  intent[payment.intent] = [state |-> "captured", amount |-> CaptureAmount]

(* A captured row is backed by a capture of exactly the amount the row     *)
(* stands for, through rolled-back completions, late webhooks and prices   *)
(* that changed in between.                                                *)
CapturedIsTaken ==
  payment.status = "captured" => Taken

(* A capture never asks the provider for more than the customer has        *)
(* authorized: the row and the intent are re-priced in step.               *)
AskNoMoreThanAuthorized ==
  payment.status = "authorized" /\ intent[payment.intent].state = "authorized"
    => CaptureAmount <= intent[payment.intent].amount

(* captureAuthorizedPayment looks at the increase, completeJob at the flag *)
(* of the job: a row that is short is always flagged, so neither check     *)
(* lets through what the other one stops.                                  *)
IncreaseIsFlagged == payment.increase > 0 => cardFlag # "none"
=============================================================================
