------------------------ MODULE PartnerCashout_proofs ------------------------
(***************************************************************************)
(* Cash-outs through an external partner settle truthfully and keep the    *)
(* promise to the helper, however calls, answers and processes are lost.   *)
(***************************************************************************)
EXTENDS SteadyPartnerCashout, CreditCashout_proofs

(* An answer in a worker's hands stays true: the partner never takes a     *)
(* final outcome back.                                                     *)
AnswersAreTrue ==
  \A w \in Workers, r \in Requests :
    /\ answer[w][r] # "none" => partner[r] # "none"
    /\ answer[w][r] \in {"paid", "failed"} => partner[r] = answer[w][r]

(* The partner is not asked before the destination has cooled off.         *)
CalledAfterCoolingOff ==
  \A r \in Requests : partner[r] # "none" => cooled[DestOf[r]]

(* The inductive invariant.                                                *)
PInv ==
  /\ CoreInv
  /\ TypeOK
  /\ SettledAsPartnerSays
  /\ AnswersAreTrue
  /\ CalledAfterCoolingOff

StepSafe == PInv' /\ KeepsPromise

(* The initial state satisfies the invariant.                              *)
LEMMA InitSafe == Init => PInv
<1>. SUFFICES ASSUME Init PROVE PInv
  OBVIOUS
<1>1. CoreInv
  BY CoreInitSafe DEF Init
<1>2. TypeOK
  BY <1>1 DEF Init, TypeOK, CoreInv, Answers
<1>3. SettledAsPartnerSays /\ AnswersAreTrue /\ CalledAfterCoolingOff
  BY DEF Init, CoreInit, SettledAsPartnerSays, AnswersAreTrue,
         CalledAfterCoolingOff
<1>. QED  BY <1>1, <1>2, <1>3 DEF PInv

(* A step of the core.                                                     *)
LEMMA CoreStepSafe ==
  ASSUME PInv, CoreInv', KeepsPromise, CoreFrame, UNCHANGED partnerVars
  PROVE  StepSafe
<1>1. TypeOK'
  BY DEF PInv, TypeOK, CoreInv, partnerVars
<1>2. SettledAsPartnerSays'
  BY DEF PInv, SettledAsPartnerSays, CoreFrame, partnerVars
<1>3. AnswersAreTrue' /\ CalledAfterCoolingOff'
  BY DestOfType
  DEF PInv, AnswersAreTrue, CalledAfterCoolingOff, CoreFrame, partnerVars
<1>. QED  BY <1>1, <1>2, <1>3 DEF StepSafe, PInv

(* Settling what the partner said.                                         *)
LEMMA TruthfulSettleSafe ==
  ASSUME PInv, NEW r \in Requests, NEW t, NEW o \in Answers,
         Settle(r, t, o), LeavesBatch(r),
         UNCHANGED <<destStatus, disabling, cooled, configured, partner>>,
         partner[r] # "none", o \in {"paid", "failed"} => partner[r] = o,
         answer' \in [Workers -> [Requests -> {"none"} \cup Answers]],
         \A w \in Workers, q \in Requests :
           answer'[w][q] \in {answer[w][q], "none"}
  PROVE  StepSafe
<1>1. o \in {"paid", "failed", "submitted"} /\ cooled[DestOf[r]]
  BY DEF Answers, PInv, CalledAfterCoolingOff
<1>2. CoreInv' /\ KeepsPromise
  BY <1>1, SettleSafe DEF PInv
<1>3. TypeOK'
  BY <1>2 DEF PInv, TypeOK, CoreInv
<1>4. SettledAsPartnerSays'
  BY <1>1, SettleFrame DEF PInv, SettledAsPartnerSays
<1>5. AnswersAreTrue' /\ CalledAfterCoolingOff'
  BY DEF PInv, AnswersAreTrue, CalledAfterCoolingOff
<1>. QED  BY <1>2, <1>3, <1>4, <1>5 DEF StepSafe, PInv

(* A worker settles the true answer it holds.                              *)
LEMMA SettleAnswerSafe ==
  ASSUME PInv, NEW w \in Workers, NEW r \in Requests, SettleAnswer(w, r)
  PROVE  StepSafe
<1>1. answer[w][r] \in Answers
  BY DEF SettleAnswer, PInv, TypeOK
<1>2. /\ partner[r] # "none"
      /\ answer[w][r] \in {"paid", "failed"} => partner[r] = answer[w][r]
  BY DEF SettleAnswer, PInv, AnswersAreTrue
<1>3. /\ answer' \in [Workers -> [Requests -> {"none"} \cup Answers]]
      /\ \A v \in Workers, q \in Requests :
           answer'[v][q] \in {answer[v][q], "none"}
  BY DEF SettleAnswer, PInv, TypeOK
<1>4. LeavesBatch(r)
  BY DEF SettleAnswer, LeavesBatch
<1>. QED
  BY <1>1, <1>2, <1>3, <1>4, TruthfulSettleSafe DEF SettleAnswer

(* A poll settles what the partner has just said.                          *)
LEMMA PollSubmittedSafe ==
  ASSUME PInv, NEW r \in Requests, PollSubmitted(r)
  PROVE  StepSafe
<1>1. partner[r] \in Answers /\ partner[r] # "none"
  BY DEF PollSubmitted, Answers
<1>2. /\ answer' \in [Workers -> [Requests -> {"none"} \cup Answers]]
      /\ \A v \in Workers, q \in Requests :
           answer'[v][q] \in {answer[v][q], "none"}
  BY DEF PollSubmitted, PInv, TypeOK, partnerVars
<1>3. LeavesBatch(r)
  BY DEF PollSubmitted, LeavesBatch
<1>. QED
  BY <1>1, <1>2, <1>3, TruthfulSettleSafe DEF PollSubmitted, partnerVars

(* The partner acts, or is called.                                         *)
LEMMA PartnerActsSafe ==
  ASSUME PInv, NEW r \in Requests,
         PartnerFinishes(r) \/ \E w \in Workers : CallPartner(w, r)
  PROVE  StepSafe
<1>1. UNCHANGED coreVars
  BY DEF PartnerFinishes, CallPartner
<1>2. CoreInv' /\ KeepsPromise
  BY <1>1, CoreUnchangedSafe DEF PInv
<1>3. UNCHANGED <<status, cooled>>
  BY <1>1 DEF coreVars, rowVars, destVars
<1>4. CASE PartnerFinishes(r)
  <2>1. PICK o \in {"paid", "failed"} : partner' = [partner EXCEPT ![r] = o]
    BY <1>4 DEF PartnerFinishes
  <2>2. partner[r] = "accepted" /\ answer' = answer
    BY <1>4 DEF PartnerFinishes
  <2>3. TypeOK'
    BY <1>2, <2>1, <2>2 DEF PInv, TypeOK, CoreInv
  <2>4. SettledAsPartnerSays' /\ CalledAfterCoolingOff'
    BY <1>3, <2>1, <2>2
    DEF PInv, TypeOK, SettledAsPartnerSays, CalledAfterCoolingOff
  <2>5. AnswersAreTrue'
    BY <2>1, <2>2 DEF PInv, TypeOK, AnswersAreTrue
  <2>. QED  BY <1>2, <2>3, <2>4, <2>5 DEF StepSafe, PInv
<1>5. ASSUME NEW w \in Workers, CallPartner(w, r)
      PROVE  StepSafe
  <2>1. PICK p \in PartnerAfter(r) :
               /\ partner' = [partner EXCEPT ![r] = p]
               /\ answer' = [answer EXCEPT ![w][r] = Report(p)]
    BY <1>5 DEF CallPartner
  <2>2. /\ p \in {"accepted", "paid", "failed"}
        /\ partner[r] # "none" => p = partner[r]
    BY DEF PartnerAfter, PInv, TypeOK
  <2>3. /\ Report(p) \in Answers
        /\ Report(p) \in {"paid", "failed"} => p = Report(p)
    BY <2>2 DEF Report, Answers
  <2>4. cooled[DestOf[r]]
    BY <1>5 DEF CallPartner, PInv, CoreInv, CooledFirst
  <2>5. \A q \in Requests : partner'[q] = IF q = r THEN p ELSE partner[q]
    BY <2>1 DEF PInv, TypeOK
  <2>6. \A v \in Workers, q \in Requests :
          answer'[v][q] = IF v = w /\ q = r THEN Report(p) ELSE answer[v][q]
    BY <2>1 DEF PInv, TypeOK
  <2>7. TypeOK'
    BY <1>2, <2>1, <2>2, <2>3 DEF PInv, TypeOK, CoreInv
  <2>8. SettledAsPartnerSays'
    BY <1>3, <2>2, <2>5 DEF PInv, SettledAsPartnerSays
  <2>9. CalledAfterCoolingOff'
    BY <1>3, <2>4, <2>5 DEF PInv, CalledAfterCoolingOff
  <2>10. AnswersAreTrue'
    BY <2>2, <2>3, <2>5, <2>6 DEF PInv, AnswersAreTrue
  <2>. QED  BY <1>2, <2>7, <2>8, <2>9, <2>10 DEF StepSafe, PInv
<1>. QED  BY <1>4, <1>5

(* An answer is lost, alone or with its process.                           *)
LEMMA AnswerLostSafe ==
  ASSUME PInv, NEW w \in Workers,
         CrashCalling(w) \/ \E r \in Requests : LoseAnswer(w, r)
  PROVE  StepSafe
<1>1. CoreInv' /\ KeepsPromise /\ CoreFrame
  <2>1. CASE CrashCalling(w)
    BY <2>1, WorkerStepSafe, WorkerStepFrame DEF CrashCalling, PInv
  <2>2. ASSUME NEW r \in Requests, LoseAnswer(w, r)
        PROVE  CoreInv' /\ KeepsPromise /\ CoreFrame
    <3>1. OpenRowStep(r)
      BY <2>2 DEF LoseAnswer, OpenRowStep, RowStep, LeavesBatch, rowVars,
                  destVars
    <3>2. CoreFrame
      BY <2>2 DEF LoseAnswer, CoreFrame, rowVars, destVars
    <3>. QED  BY <3>1, <3>2, OpenRowStepSafe DEF PInv
  <2>. QED  BY <2>1, <2>2
<1>2. /\ partner' = partner
      /\ answer' \in [Workers -> [Requests -> {"none"} \cup Answers]]
      /\ \A v \in Workers, q \in Requests :
           answer'[v][q] \in {answer[v][q], "none"}
  BY DEF CrashCalling, LoseAnswer, PInv, TypeOK
<1>3. TypeOK'
  BY <1>1, <1>2 DEF PInv, TypeOK, CoreInv
<1>4. SettledAsPartnerSays' /\ AnswersAreTrue' /\ CalledAfterCoolingOff'
  BY <1>1, <1>2, DestOfType
  DEF PInv, SettledAsPartnerSays, AnswersAreTrue, CalledAfterCoolingOff,
      CoreFrame
<1>. QED  BY <1>1, <1>3, <1>4 DEF StepSafe, PInv

(* Every step, of whomever, is safe.                                       *)
LEMMA NextSafe ==
  ASSUME PInv, [Next]_vars
  PROVE  StepSafe
<1>1. CASE RequestStep /\ UNCHANGED partnerVars
  BY <1>1, RequestStepSafe, RequestStepFrame, CoreStepSafe DEF PInv
<1>2. CASE EnvironmentStep /\ UNCHANGED partnerVars
  BY <1>2, EnvironmentStepSafe, EnvironmentStepFrame, CoreStepSafe DEF PInv
<1>3. ASSUME NEW w \in Workers, WorkerStep(w), UNCHANGED partnerVars
      PROVE  StepSafe
  BY <1>3, WorkerStepSafe, WorkerStepFrame, CoreStepSafe DEF PInv
<1>4. CASE UNCHANGED vars
  <2>1. UNCHANGED coreVars /\ UNCHANGED partnerVars
    BY <1>4 DEF vars
  <2>2. CoreInv' /\ KeepsPromise
    BY <2>1, CoreUnchangedSafe DEF PInv
  <2>3. CoreFrame
    BY <2>1 DEF CoreFrame, coreVars, rowVars, destVars
  <2>. QED  BY <2>1, <2>2, <2>3, CoreStepSafe
<1>. QED
  BY <1>1, <1>2, <1>3, <1>4, AnswerLostSafe, SettleAnswerSafe,
     PollSubmittedSafe, PartnerActsSafe
  DEF Next

-----------------------------------------------------------------------------
(* The inductive invariant holds in every reachable state.                 *)
THEOREM Invariance == Spec => []PInv
<1>1. PInv /\ [Next]_vars => PInv'
  BY NextSafe DEF StepSafe
<1>. QED  BY InitSafe, <1>1, PTL DEF Spec

(* A helper's reserved money is always there, with a partner too.          *)
THEOREM ReserveCorrect == Spec => []ReserveBacked
<1>1. PInv => ReserveBacked
  BY DEF PInv, CoreInv, LedgerSafe
<1>. QED  BY Invariance, <1>1, PTL

(* Requests end on the partner's word, although it is called outside of    *)
(* any transaction and lost, late or repeated answers settle them.         *)
THEOREM SettlementCorrect == Spec => []SettledAsPartnerSays
<1>1. PInv => SettledAsPartnerSays
  BY DEF PInv
<1>. QED  BY Invariance, <1>1, PTL

(* With an external partner, too, the promise to the helper is kept.       *)
THEOREM PromiseCorrect == Spec => PromiseKept
<1>1. Init => Promise!Init
  BY CoreInitPromise DEF Init
<1>2. PInv /\ [Next]_vars => [Promise!Next]_(Promise!promiseVars)
  BY NextSafe DEF StepSafe, KeepsPromise
<1>. QED
  BY Invariance, <1>1, <1>2, PTL DEF Spec, PromiseKept, Promise!Spec

(* The state of the external rail is well-typed.                           *)
THEOREM TypeCorrect == Spec => []TypeOK
<1>1. PInv => TypeOK
  BY DEF PInv
<1>. QED  BY Invariance, <1>1, PTL
-----------------------------------------------------------------------------
(* While no deployment switches the partner, no money of a submitted       *)
(* request comes back.  NoMoneyBackAfterSubmission is not inductive: what  *)
(* a step preserves is where a request can be from its first claim on,     *)
(* whether or not the partner has been called yet.                         *)
SubmissionOut(r) ==
  \/ status[r] \in {"submitting", "submitted", "paid", "failed"}
  \/ /\ status[r] = "held_for_review"
     /\ reviewReason[r] = "partner_outcome_unknown"

TakenUp(r) == partner[r] # "none" \/ \E w \in Workers : Holds(w, r)

SteadyInv ==
  ~switched => /\ \A w \in Workers : configured[w]
               /\ \A r \in Requests : TakenUp(r) => SubmissionOut(r)

(* What a step does to it: a request that is out stays out, and only one   *)
(* that is out (or is being claimed) is taken up.                          *)
StaysOut == \A r \in Requests : SubmissionOut(r) => SubmissionOut(r)'
OnlyOutIsTakenUp ==
  \A r \in Requests : TakenUp(r)' => TakenUp(r) \/ SubmissionOut(r)'

(* A row that leaves a batch is taken up by nobody new.                    *)
LEMMA DroppedIsNotTakenUp ==
  ASSUME NEW r \in Requests, PInv, LeavesBatch(r), partner' = partner
  PROVE  OnlyOutIsTakenUp
<1>1. \A v \in Workers, q \in Requests : Holds(v, q)' => Holds(v, q)
  BY LeavesBatchFacts DEF PInv
<1>. QED  BY <1>1 DEF OnlyOutIsTakenUp, TakenUp

(* Owners and reviewers can not call a submitted request back: the ones    *)
(* parked with an unknown outcome may only be polled again.                *)
LEMMA RequestStepStaysOut ==
  ASSUME PInv, RequestStep, UNCHANGED partnerVars
  PROVE  StaysOut /\ OnlyOutIsTakenUp
<1>1. PICK r \in Requests : \/ RequestCashout(r) \/ CancelCashout(r)
                            \/ RejectHeld(r) \/ ReleaseHeld(r)
  BY DEF RequestStep
<1>2. /\ status \in [Requests -> Status]
      /\ reviewReason
           \in [Requests -> {"none", "rule", "partner_outcome_unknown"}]
  BY DEF PInv, CoreInv, CoreTypeOK
<1>3. UNCHANGED <<workerVars, partner>>
  BY <1>1
  DEF RequestCashout, CancelCashout, RejectHeld, ReleaseHeld, partnerVars
<1>4. OnlyOutIsTakenUp
  BY <1>3 DEF OnlyOutIsTakenUp, TakenUp, Holds, workerVars
<1>5. \A q \in Requests \ {r} :
        status'[q] = status[q] /\ reviewReason'[q] = reviewReason[q]
  BY <1>1, <1>2 DEF RequestCashout, CancelCashout, RejectHeld, ReleaseHeld
<1>6. SubmissionOut(r) => ReleaseHeld(r)
  BY <1>1
  DEF SubmissionOut, RequestCashout, CancelCashout, RejectHeld
<1>7. SubmissionOut(r) => status'[r] = "submitted"
  BY <1>2, <1>6 DEF SubmissionOut, ReleaseHeld
<1>. QED  BY <1>4, <1>5, <1>7 DEF StaysOut, SubmissionOut

(* Workers give no row back while the partner is configured everywhere.    *)
LEMMA WorkerStepStaysOut ==
  ASSUME PInv, NEW w \in Workers, WorkerStep(w) \/ WorkerCrash(w),
         partner' = partner, configured' = configured, configured[w]
  PROVE  StaysOut /\ OnlyOutIsTakenUp
<1>1. /\ status \in [Requests -> Status]
      /\ reviewReason
           \in [Requests -> {"none", "rule", "partner_outcome_unknown"}]
      /\ configured \in [Workers -> BOOLEAN]
      /\ batch \in [Workers -> [Requests -> AttemptCount]]
  BY DEF PInv, CoreInv, CoreTypeOK
<1>2. CASE ClaimDue(w)
  <2>1. PICK S \in SUBSET Requests :
          /\ status' = [r \in Requests |->
                          IF r \in S THEN "submitting" ELSE status[r]]
          /\ batch' = [batch EXCEPT ![w] =
               [r \in Requests |-> IF r \in S THEN Saturated(attempts[r]) ELSE 0]]
          /\ reviewReason' = reviewReason
    BY <1>2 DEF ClaimDue, Claimable
  <2>2. \A v \in Workers, q \in Requests :
          Holds(v, q)' => Holds(v, q) \/ status'[q] = "submitting"
    BY <1>1, <2>1 DEF Holds
  <2>. QED
    BY <2>1, <2>2 DEF StaysOut, OnlyOutIsTakenUp, TakenUp, SubmissionOut
<1>3. ~SwitchPartner(w)
  BY <1>1 DEF SwitchPartner
<1>4. CASE WorkerCrash(w)
  <2>1. \A v \in Workers, q \in Requests : Holds(v, q)' => Holds(v, q)
    BY <1>1, <1>4 DEF WorkerCrash, Holds
  <2>. QED
    BY <1>4, <2>1
    DEF WorkerCrash, rowVars, StaysOut, OnlyOutIsTakenUp, TakenUp,
        SubmissionOut
<1>5. ASSUME NEW r \in Requests, HoldUnknownOutcome(w, r) \/ SubmitError(w, r)
      PROVE  StaysOut /\ OnlyOutIsTakenUp
  <2>1. OnlyOutIsTakenUp
    BY <1>5, DroppedIsNotTakenUp
    DEF HoldUnknownOutcome, SubmitError, LeavesBatch
  <2>2. \/ status' = status /\ reviewReason' = reviewReason
        \/ /\ status' = [status EXCEPT ![r] = "held_for_review"]
           /\ reviewReason' =
                [reviewReason EXCEPT ![r] = "partner_outcome_unknown"]
    BY <1>5 DEF HoldUnknownOutcome, SubmitError, rowVars
  <2>. QED  BY <1>1, <2>1, <2>2 DEF StaysOut, SubmissionOut
<1>6. \A r \in Requests : ~GiveBack(w, r)
  BY DEF GiveBack
<1>. QED  BY <1>2, <1>3, <1>4, <1>5, <1>6 DEF WorkerStep

(* Settling only moves a request forward.                                  *)
LEMMA SettleStaysOut ==
  ASSUME PInv, NEW r \in Requests, NEW t, NEW o \in Answers, Settle(r, t, o)
  PROVE  StaysOut
<1>1. \A q \in Requests : status'[q] = status[q] \/ status'[q] \in Answers
  BY SettleFrame DEF PInv, Answers
<1>2. reviewReason' = reviewReason
  BY DEF Settle
<1>. QED  BY <1>1, <1>2 DEF StaysOut, SubmissionOut, Answers

(* The worker calls the partner about a row of its batch, settles its      *)
(* answer or loses it; the partner finishes and is polled.                 *)
LEMMA PartnerStepStaysOut ==
  ASSUME PInv, NEW r \in Requests,
         \/ \E w \in Workers :
              CallPartner(w, r) \/ SettleAnswer(w, r) \/ LoseAnswer(w, r)
         \/ PartnerFinishes(r)
         \/ PollSubmitted(r)
  PROVE  StaysOut /\ OnlyOutIsTakenUp
<1>1. partner \in [Requests -> {"none", "accepted", "paid", "failed"}]
  BY DEF PInv, TypeOK
<1>2. ASSUME NEW w \in Workers, CallPartner(w, r)
      PROVE  StaysOut /\ OnlyOutIsTakenUp
  <2>1. UNCHANGED <<status, reviewReason, batch>>
    BY <1>2 DEF CallPartner, coreVars, rowVars, workerVars
  <2>2. \A q \in Requests \ {r} : partner'[q] = partner[q]
    BY <1>1, <1>2 DEF CallPartner
  <2>3. TakenUp(r)
    BY <1>2 DEF CallPartner, TakenUp
  <2>. QED
    BY <2>1, <2>2, <2>3
    DEF StaysOut, OnlyOutIsTakenUp, TakenUp, SubmissionOut, Holds
<1>3. ASSUME NEW w \in Workers, SettleAnswer(w, r)
      PROVE  StaysOut /\ OnlyOutIsTakenUp
  <2>1. answer[w][r] \in Answers
    BY <1>3 DEF SettleAnswer, PInv, TypeOK
  <2>. QED
    BY <1>3, <2>1, SettleStaysOut, DroppedIsNotTakenUp
    DEF SettleAnswer, LeavesBatch
<1>4. ASSUME NEW w \in Workers, LoseAnswer(w, r)
      PROVE  StaysOut /\ OnlyOutIsTakenUp
  <2>1. OnlyOutIsTakenUp
    BY <1>4, DroppedIsNotTakenUp DEF LoseAnswer, LeavesBatch
  <2>2. UNCHANGED <<status, reviewReason>>
    BY <1>4 DEF LoseAnswer, rowVars
  <2>. QED  BY <2>1, <2>2 DEF StaysOut, SubmissionOut
<1>5. CASE PartnerFinishes(r)
  <2>1. UNCHANGED <<status, reviewReason, batch>>
    BY <1>5 DEF PartnerFinishes, coreVars, rowVars, workerVars
  <2>2. \A q \in Requests : partner'[q] # "none" => partner[q] # "none"
    BY <1>1, <1>5 DEF PartnerFinishes
  <2>. QED
    BY <2>1, <2>2
    DEF StaysOut, OnlyOutIsTakenUp, TakenUp, SubmissionOut, Holds
<1>6. CASE PollSubmitted(r)
  <2>1. partner[r] \in Answers
    BY <1>6 DEF PollSubmitted, Answers
  <2>2. OnlyOutIsTakenUp
    BY <1>6, DroppedIsNotTakenUp
    DEF PollSubmitted, LeavesBatch, partnerVars
  <2>3. StaysOut
    BY <1>6, <2>1, SettleStaysOut DEF PollSubmitted
  <2>. QED  BY <2>2, <2>3
<1>. QED  BY <1>2, <1>3, <1>4, <1>5, <1>6

(* The steadiness invariant is preserved: one step per disjunct of Next.   *)
LEMMA SteadyStepSafe ==
  ASSUME PInv, SteadyInv, [SteadyNext]_<<vars, switched>>
  PROVE  SteadyInv'
<1>. SUFFICES ASSUME ~switched' PROVE SteadyInv'
  BY DEF SteadyInv
<1>1. ~switched /\ configured' = configured
  <2>1. CASE SteadyNext
    BY <2>1, Zenon DEF SteadyNext
  <2>2. CASE UNCHANGED <<vars, switched>>
    BY <2>2 DEF vars, coreVars
  <2>. QED  BY <2>1, <2>2
<1>2. \A w \in Workers : configured[w]
  BY <1>1 DEF SteadyInv
<1>3. StaysOut /\ OnlyOutIsTakenUp
  <2>1. CASE RequestStep /\ UNCHANGED partnerVars
    BY <2>1, RequestStepStaysOut
  <2>2. CASE EnvironmentStep /\ UNCHANGED partnerVars
    <3>1. UNCHANGED <<status, reviewReason, batch, partner>>
      BY <2>2
      DEF EnvironmentStep, LeaseExpires, CoolingOffEnds, DisableCheck,
          DisableWrite, OtherPosting, rowVars, workerVars, partnerVars
    <3>. QED
      BY <3>1
      DEF StaysOut, OnlyOutIsTakenUp, TakenUp, SubmissionOut, Holds
  <2>3. ASSUME NEW w \in Workers,
               \/ WorkerStep(w) /\ UNCHANGED partnerVars
               \/ CrashCalling(w)
        PROVE  StaysOut /\ OnlyOutIsTakenUp
    BY <1>1, <1>2, <2>3, WorkerStepStaysOut DEF CrashCalling, partnerVars
  <2>4. CASE UNCHANGED <<vars, switched>>
    BY <2>4
    DEF vars, coreVars, rowVars, workerVars, partnerVars, StaysOut,
        OnlyOutIsTakenUp, TakenUp, SubmissionOut, Holds
  <2>. QED
    BY <2>1, <2>2, <2>3, <2>4, PartnerStepStaysOut DEF SteadyNext, Next
<1>. QED  BY <1>1, <1>2, <1>3 DEF SteadyInv, StaysOut, OnlyOutIsTakenUp

(* As long as no deployment switches the partner off or on, neither the    *)
(* owner nor a reviewer gets the money of a payout back that the partner   *)
(* has accepted or made, however late workers and answers are.             *)
THEOREM SteadyCorrect == SteadySpec => []SteadyNoMoneyBack
<1>1. SteadyInit => PInv /\ SteadyInv
  <2>. SUFFICES ASSUME SteadyInit PROVE SteadyInv
    BY InitSafe DEF SteadyInit
  <2>. QED
    BY DEF SteadyInit, Init, CoreInit, SteadyInv, TakenUp, Holds
<1>2. PInv /\ SteadyInv /\ [SteadyNext]_<<vars, switched>>
        => PInv' /\ SteadyInv'
  <2>. SUFFICES ASSUME PInv, SteadyInv, [SteadyNext]_<<vars, switched>>
                PROVE  PInv' /\ SteadyInv'
    OBVIOUS
  <2>1. [Next]_vars
    BY DEF SteadyNext
  <2>. QED  BY <2>1, NextSafe, SteadyStepSafe DEF StepSafe
<1>3. PInv /\ SteadyInv => SteadyNoMoneyBack
  <2>. SUFFICES ASSUME PInv, SteadyInv, ~switched, NEW r \in Requests,
                       partner[r] \in {"accepted", "paid"}
                PROVE  reservation[r] = "active" \/ status[r] = "paid"
    BY DEF SteadyNoMoneyBack, NoMoneyBackAfterSubmission
  <2>1. SubmissionOut(r)
    BY DEF SteadyInv, TakenUp
  <2>2. status[r] # "failed"
    BY DEF PInv, SettledAsPartnerSays
  <2>3. status[r] \in OpenStatuses \cup {"paid"}
    BY <2>1, <2>2 DEF SubmissionOut, OpenStatuses
  <2>. QED  BY <2>3 DEF PInv, CoreInv, OpenIffReserved
<1>. QED  BY <1>1, <1>2, <1>3, PTL DEF SteadySpec
=============================================================================
