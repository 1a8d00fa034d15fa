--------------------------- MODULE WebhookIntake ---------------------------
(***************************************************************************)
(* The intake of provider webhooks (Stripe; Didit has a twin of it): a     *)
(* receipt per event, claimed by the handler of a delivery and finished by *)
(* it, and a watermark per object that drops the events of an older state. *)
(* The provider delivers every event again until it is answered, in any    *)
(* order; an operator may replay or close a receipt; a job releases those  *)
(* whose handler is gone.  The module has the events of one object.        *)
(***************************************************************************)
EXTENDS Integers, FiniteSets

CONSTANTS
  Events,     \* numbered in the order of event_created and, in one second, id
  Handlers,   \* requests being served, in all processes
  MaxFaults   \* bound: what may go wrong with one event

ASSUME IntakeAssumption ==
  /\ Events \subseteq Nat \ {0}
  /\ IsFiniteSet(Handlers)
  /\ MaxFaults \in Nat

NoEvent == 0

VARIABLES
  receipt,    \* webhook_event_receipts.status, "none" without a row
  recent,     \* last_seen_at is not older than STALE_MINUTES
  attempts,   \* webhook_event_receipts.attempts
  watermark,  \* webhook_event_watermarks: the newest event begun
  object,     \* the event whose effects the object's rows show
  handler,    \* what each request is doing
  answered,   \* the provider: it got a 2xx
  ran,        \* history: how often an event's effects were committed
  overtaken,  \* history: a newer one was begun before its effects
  faults

rows == <<receipt, recent, attempts, watermark, object>>
vars == <<rows, handler, answered, ran, overtaken, faults>>

Statuses == {"none", "processing", "failed", "processed", "resolved"}
Begun == {"compare", "drop", "handle", "mark"}
Free == [at |-> "none", of |-> NoEvent, by |-> "provider"]

TypeOK ==
  /\ receipt \in [Events -> Statuses]
  /\ recent \in [Events -> BOOLEAN]
  /\ attempts \in [Events -> Nat]
  /\ watermark \in Events \cup {NoEvent}
  /\ object \in Events \cup {NoEvent}
  /\ handler \in [Handlers -> [at : Begun \cup {"look", "none"},
                     of : Events \cup {NoEvent}, by : {"provider", "operator"}]]
  /\ answered \in [Events -> BOOLEAN]
  /\ ran \in [Events -> Nat]
  /\ overtaken \subseteq Events
  /\ faults \in [Events -> 0 .. MaxFaults]

Init ==
  /\ receipt = [e \in Events |-> "none"] /\ recent = [e \in Events |-> FALSE]
  /\ attempts = [e \in Events |-> 0]
  /\ watermark = NoEvent /\ object = NoEvent
  /\ handler = [h \in Handlers |-> Free]
  /\ answered = [e \in Events |-> FALSE]
  /\ ran = [e \in Events |-> 0]
  /\ overtaken = {}
  /\ faults = [e \in Events |-> 0]

-----------------------------------------------------------------------------
WorkedOn(e) == \E h \in Handlers : handler[h].of = e /\ handler[h].at \in Begun

Leaves(h) == handler' = [handler EXCEPT ![h] = Free]

Fault(e) == faults[e] < MaxFaults /\ faults' = [faults EXCEPT ![e] = @ + 1]

(* The request is answered with 200; the answer may be lost.               *)
Answer(h) ==
  LET e == handler[h].of IN
    \/ /\ handler[h].by = "provider"
       /\ answered' = [answered EXCEPT ![e] = TRUE] /\ UNCHANGED faults
    \/ handler[h].by = "provider" /\ Fault(e) /\ UNCHANGED answered
    \/ handler[h].by = "operator" /\ UNCHANGED <<answered, faults>>

(* Mutant of Stalled: every refused delivery is taken for a sign of life.  *)
NeverStalled(e) == FALSE

Stalled(e) == receipt[e] = "processing" /\ ~ recent[e]

(* Mutant of Claimable: a receipt in processing is claimed again at once.  *)
ClaimableAgain(e) == receipt[e] \in {"none", "failed", "processing"}

Claimable(e) == receipt[e] \in {"none", "failed"} \/ Stalled(e)

(* beginWebhookEvent: the receipt is inserted or taken over, or it is not. *)
Begin(h, e, by) ==
  /\ handler[h] = Free
  /\ \/ /\ Claimable(e)
        /\ receipt' = [receipt EXCEPT ![e] = "processing"]
        /\ recent' = [recent EXCEPT ![e] = TRUE]
        /\ attempts' = [attempts EXCEPT ![e] = @ + 1]
        /\ handler' = [handler EXCEPT ![h] = [at |-> "compare", of |-> e, by |-> by]]
     \/ /\ ~ Claimable(e)
        /\ handler' = [handler EXCEPT ![h] = [at |-> "look", of |-> e, by |-> by]]
        /\ UNCHANGED <<receipt, recent, attempts>>
  /\ UNCHANGED <<watermark, object, answered, ran, overtaken, faults>>

Deliver(h, e) == Begin(h, e, "provider")

(* replayStripeReceipt: the status it has read may be another by now.      *)
Replay(h, e) == receipt[e] # "none" /\ Begin(h, e, "operator")

(* Mutant of InFlight: a receipt that exists is taken for a duplicate.     *)
NeverInFlight(e) == FALSE

InFlight(e) == receipt[e] = "processing"

(* receiptInFlight, after the claim was refused: 409 asks for a retry, all *)
(* else is answered as a duplicate.                                        *)
Look(h) ==
  /\ handler[h].at = "look"
  /\ \/ InFlight(handler[h].of) /\ UNCHANGED <<answered, faults>>
     \/ ~ InFlight(handler[h].of) /\ Answer(h)
  /\ Leaves(h)
  /\ UNCHANGED <<rows, ran, overtaken>>

(* Mutant of Outdated: no watermark.                                       *)
NeverOutdated(e) == FALSE

Outdated(e) == e < watermark

(* The upsert of the watermark.                                            *)
Compare(h) ==
  LET e == handler[h].of IN
    /\ handler[h].at = "compare"
    /\ \/ /\ Outdated(e)
          /\ handler' = [handler EXCEPT ![h].at = "drop"]
          /\ UNCHANGED <<watermark, overtaken>>
       \/ /\ ~ Outdated(e)
          /\ watermark' = e
          /\ overtaken' = overtaken \cup
               {handler[g].of : g \in {g \in Handlers : /\ handler[g].at = "handle"
                                                        /\ handler[g].of < e}}
          /\ handler' = [handler EXCEPT ![h].at = "handle"]
    /\ UNCHANGED <<receipt, recent, attempts, object, answered, ran, faults>>

Finish(h) ==
  /\ receipt' = [receipt EXCEPT ![handler[h].of] = "processed"]
  /\ Answer(h)
  /\ Leaves(h)
  /\ UNCHANGED <<recent, attempts, watermark, object, ran, overtaken>>

DropStale(h) == handler[h].at = "drop" /\ Finish(h)

(* The handler of the event type: what the event says is written to the    *)
(* object's rows.                                                          *)
Handle(h) ==
  LET e == handler[h].of IN
    /\ handler[h].at = "handle"
    /\ object' = e
    /\ ran' = [ran EXCEPT ![e] = @ + 1]
    /\ handler' = [handler EXCEPT ![h].at = "mark"]
    /\ UNCHANGED <<receipt, recent, attempts, watermark, answered, overtaken, faults>>

(* markWebhookEventProcessed and markWebhookEventFailed write the receipt  *)
(* whatever it is by now.                                                  *)
MarkProcessed(h) == handler[h].at = "mark" /\ Finish(h)

(* Mutant of MarkFailed: a handler that fails leaves the receipt processed. *)
MarkProcessedAnyway(h) ==
  /\ handler[h].at \in {"handle", "mark"}
  /\ Fault(handler[h].of)
  /\ receipt' = [receipt EXCEPT ![handler[h].of] = "processed"]
  /\ Leaves(h)
  /\ UNCHANGED <<recent, attempts, watermark, object, answered, ran, overtaken>>

MarkFailed(h) ==
  /\ handler[h].at \in {"handle", "mark"}
  /\ Fault(handler[h].of)
  /\ receipt' = [receipt EXCEPT ![handler[h].of] = "failed"]
  /\ Leaves(h)
  /\ UNCHANGED <<recent, attempts, watermark, object, answered, ran, overtaken>>

(* A process that dies, or fails before the handler knows its receiptId.   *)
Dies(h) ==
  /\ handler[h] # Free
  /\ Fault(handler[h].of)
  /\ Leaves(h)
  /\ UNCHANGED <<rows, answered, ran, overtaken>>

-----------------------------------------------------------------------------
(* STALE_MINUTES pass; it is a fault when somebody still works on it.      *)
Ages(e) ==
  /\ receipt[e] = "processing" /\ recent[e]
  /\ recent' = [recent EXCEPT ![e] = FALSE]
  /\ IF WorkedOn(e) THEN Fault(e) ELSE UNCHANGED faults
  /\ UNCHANGED <<receipt, attempts, watermark, object, handler, answered, ran, overtaken>>

(* runWebhookReceiptRecovery.                                              *)
Release ==
  /\ \E e \in Events : Stalled(e)
  /\ receipt' = [e \in Events |-> IF Stalled(e) THEN "failed" ELSE receipt[e]]
  /\ UNCHANGED <<recent, attempts, watermark, object, handler, answered, ran,
                 overtaken, faults>>

(* resolveReceipt: an operator closes a receipt, nothing is run.           *)
Resolve(e) ==
  /\ receipt[e] \in {"failed", "processing"}
  /\ receipt' = [receipt EXCEPT ![e] = "resolved"]
  /\ UNCHANGED <<recent, attempts, watermark, object, handler, answered, ran,
                 overtaken, faults>>

-----------------------------------------------------------------------------
Step(h) ==
  Look(h) \/ Compare(h) \/ DropStale(h) \/ Handle(h) \/ MarkProcessed(h)

Next ==
  \/ \E h \in Handlers, e \in Events : Deliver(h, e) \/ Replay(h, e)
  \/ \E h \in Handlers : Step(h) \/ MarkFailed(h) \/ Dies(h)
  \/ \E e \in Events : Ages(e) \/ Resolve(e)
  \/ Release

Spec == Init /\ [][Next]_vars

(* The provider retries what is not answered; requests are served; time    *)
(* passes, and cron runs the job.                                          *)
Fairness ==
  /\ \A e \in Events :
       /\ SF_vars(~ answered[e] /\ \E h \in Handlers : Deliver(h, e))
       /\ WF_vars(~ WorkedOn(e) /\ Ages(e))
  /\ \A h \in Handlers : WF_vars(Step(h))
  /\ WF_vars(Release)

FairSpec == Spec /\ Fairness

-----------------------------------------------------------------------------
(* A receipt is 'processed' only for an event whose effects were committed *)
(* or that a newer one of its object, begun meanwhile, has made outdated:  *)
(* however late or often its handlers write it.                            *)
ProcessedIsExplained ==
  \A e \in Events : receipt[e] = "processed" => ran[e] > 0 \/ e < watermark

(* The provider is told to stop only when the event is done with, unless   *)
(* something went wrong with it: a delivery that finds another one at work *)
(* never acknowledges what that one may still fail to do.                  *)
AnsweredIsDone ==
  \A e \in Events :
    answered[e] /\ faults[e] = 0 => receipt[e] \in {"processed", "resolved"}

(* An event's effects are committed once, and once more for every failure, *)
(* crash or stall at most, whatever is delivered, replayed or released.    *)
RunsAreExplained == \A e \in Events : ran[e] <= 1 + faults[e]

(* An object shows an older event than one whose effects were committed    *)
(* only if a newer event was begun between the comparison of the older one *)
(* with the watermark and its effects; a delivery that is late, repeated   *)
(* or tried again never puts an older state back.                          *)
NewestWins ==
  \A e \in Events : ran[e] > 0 /\ object < e => object \in overtaken

(* Every event is acknowledged in the end, although a refused delivery is  *)
(* asked to come again and a handler may be gone without a trace, and its  *)
(* receipt never stays with such a handler, delivered again or not.        *)
EveryEventSettles ==
  \A e \in Events : []<>(answered[e] /\ receipt[e] # "processing")
=============================================================================
