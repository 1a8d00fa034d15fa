------------------------ MODULE InHouseCashout_proofs ------------------------
(***************************************************************************)
(* The in-house rail is correct for any number of requests, processes,     *)
(* administrators and destinations and for any amounts.                    *)
(***************************************************************************)
EXTENDS InHouseCashout, CreditCashout_proofs

(* The inductive invariant.  What the rail adds to the core is that an     *)
(* unfinished instruction belongs to a submitted request: this is why the  *)
(* second confirmation always settles, and why a poll never has to.        *)
IInv ==
  /\ CoreInv
  /\ TypeOK
  /\ InstructionMatchesRequest
  /\ TwoPersonRule
  /\ CoolingOffRespected

(* What a step of the rail keeps true.                                     *)
StepSafe ==
  /\ IInv'
  /\ KeepsPromise
  /\ \A r \in Requests : status[r] \in Terminal => status'[r] = status[r]

(* The initial state satisfies the invariant.                              *)
LEMMA InitSafe == Init => IInv
<1>. SUFFICES ASSUME Init PROVE IInv
  OBVIOUS
<1>1. CoreInv
  BY CoreInitSafe DEF Init
<1>2. TypeOK
  BY <1>1 DEF Init, TypeOK, CoreInv
<1>3. InstructionMatchesRequest /\ TwoPersonRule /\ CoolingOffRespected
  BY DEF Init, CoreInit, InstructionMatchesRequest, TwoPersonRule,
         CoolingOffRespected, Outcomes
<1>. QED  BY <1>1, <1>2, <1>3 DEF IInv

(* A step of the core.                                                     *)
LEMMA CoreStepSafe ==
  ASSUME IInv, CoreInv', KeepsPromise, CoreFrame, UNCHANGED railVars
  PROVE  StepSafe
<1>1. TypeOK'
  BY DEF IInv, TypeOK, CoreInv, railVars
<1>2. InstructionMatchesRequest'
  BY DEF IInv, InstructionMatchesRequest, CoreFrame, Terminal, railVars
<1>3. TwoPersonRule' /\ CoolingOffRespected'
  BY DestOfType
  DEF IInv, TwoPersonRule, CoolingOffRespected, CoreFrame, railVars
<1>. QED  BY <1>1, <1>2, <1>3 DEF StepSafe, IInv, CoreFrame

(* A worker submits a row of its batch.                                    *)
LEMMA SubmitInHouseSafe ==
  ASSUME IInv, NEW w \in Workers, NEW r \in Requests, SubmitInHouse(w, r)
  PROVE  StepSafe
<1>1. cooled[DestOf[r]]
  BY DEF SubmitInHouse, IInv, CoreInv, CooledFirst
<1>2. LeavesBatch(r) /\ UNCHANGED <<destStatus, disabling, cooled, configured>>
  BY DEF SubmitInHouse, LeavesBatch
<1>3. UNCHANGED <<firstBy, firstOutcome, secondBy>>
  BY DEF SubmitInHouse
<1>4. CASE /\ status[r] = "submitting" /\ lease[r] = token[w]
           /\ CreateInstruction(r)
           /\ Settle(r, token[w], "submitted")
  <2>1. CoreInv' /\ KeepsPromise
    BY <1>1, <1>2, <1>4, SettleSafe DEF IInv
  <2>2. instr[r] = "none"
    BY <1>4 DEF IInv, TypeOK, InstructionMatchesRequest, Outcomes
  <2>3. instr' = [instr EXCEPT ![r] = "pending_export"]
    BY <1>4, <2>2 DEF CreateInstruction
  <2>4. status' = [status EXCEPT ![r] = "submitted"]
    BY <1>4 DEF Settle, CanSettle, SettleSubmitted
  <2>5. TypeOK'
    BY <1>3, <2>1, <2>3 DEF IInv, TypeOK, CoreInv
  <2>6. InstructionMatchesRequest'
    BY <2>2, <2>3, <2>4
    DEF IInv, TypeOK, CoreInv, CoreTypeOK, InstructionMatchesRequest
  <2>7. TwoPersonRule'
    BY <1>3, <2>3 DEF IInv, TypeOK, TwoPersonRule, Outcomes
  <2>8. CoolingOffRespected'
    BY <1>1, <1>2, <2>3 DEF IInv, TypeOK, CoolingOffRespected
  <2>9. \A q \in Requests : status[q] \in Terminal => status'[q] = status[q]
    BY <1>4, <2>4 DEF IInv, CoreInv, CoreTypeOK, Terminal
  <2>. QED
    BY <2>1, <2>5, <2>6, <2>7, <2>8, <2>9 DEF StepSafe, IInv
<1>5. CASE /\ status[r] = "submitting" /\ lease[r] = token[w]
           /\ Settle(r, token[w], "failed")
           /\ UNCHANGED instr
  <2>1. CoreInv' /\ KeepsPromise
    BY <1>1, <1>2, <1>5, SettleSafe DEF IInv
  <2>2. instr[r] = "none"
    BY <1>5 DEF IInv, TypeOK, InstructionMatchesRequest, Outcomes
  <2>3. status' = [status EXCEPT ![r] = "failed"]
    BY <1>5 DEF Settle, CanSettle, SettleFailed
  <2>4. TypeOK' /\ TwoPersonRule' /\ CoolingOffRespected'
    BY <1>2, <1>3, <1>5, <2>1
    DEF IInv, TypeOK, CoreInv, TwoPersonRule, CoolingOffRespected
  <2>5. InstructionMatchesRequest'
    BY <1>5, <2>2, <2>3
    DEF IInv, CoreInv, CoreTypeOK, InstructionMatchesRequest
  <2>6. \A q \in Requests : status[q] \in Terminal => status'[q] = status[q]
    BY <1>5, <2>3 DEF IInv, CoreInv, CoreTypeOK, Terminal
  <2>. QED  BY <2>1, <2>4, <2>5, <2>6 DEF StepSafe, IInv
<1>6. CASE UNCHANGED <<ledgerVars, rowVars, firstPaid, instr>>
  <2>1. OpenRowStep(r)
    BY <1>2, <1>6 DEF OpenRowStep, RowStep, rowVars, destVars
  <2>2. CoreInv' /\ KeepsPromise
    BY <2>1, OpenRowStepSafe DEF IInv
  <2>3. CoreFrame /\ UNCHANGED railVars
    BY <1>2, <1>3, <1>6 DEF CoreFrame, rowVars, railVars
  <2>. QED  BY <2>2, <2>3, CoreStepSafe
<1>. QED  BY <1>4, <1>5, <1>6 DEF SubmitInHouse

(* A step of the bank rail that settles nothing.                           *)
LEMMA RailOnlySafe ==
  ASSUME IInv, UNCHANGED coreVars, TypeOK', InstructionMatchesRequest',
         TwoPersonRule', CoolingOffRespected'
  PROVE  StepSafe
<1>1. CoreInv' /\ KeepsPromise
  BY CoreUnchangedSafe DEF IInv
<1>2. status' = status
  BY DEF coreVars, rowVars
<1>. QED  BY <1>1, <1>2 DEF StepSafe, IInv

(* Exporting only turns pending instructions into exported ones.           *)
LEMMA ExportBatchSafe ==
  ASSUME IInv, ExportBatch
  PROVE  StepSafe
<1>1. UNCHANGED <<coreVars, firstBy, firstOutcome, secondBy>>
  BY DEF ExportBatch
<1>2. \A r \in Requests :
        instr'[r] = IF instr[r] = "pending_export" THEN "exported"
                    ELSE instr[r]
  BY DEF ExportBatch
<1>3. instr' \in [Requests -> {"none", "pending_export", "exported"}
                                \cup Outcomes]
  BY DEF ExportBatch, IInv, TypeOK
<1>4. CoreInv'
  BY <1>1, CoreUnchangedSafe DEF IInv
<1>5. TypeOK'
  BY <1>1, <1>3, <1>4 DEF IInv, TypeOK, CoreInv
<1>6. InstructionMatchesRequest'
  BY <1>1, <1>2 DEF IInv, InstructionMatchesRequest, coreVars, rowVars
<1>7. TwoPersonRule' /\ CoolingOffRespected'
  BY <1>1, <1>2
  DEF IInv, TwoPersonRule, CoolingOffRespected, Outcomes, coreVars, destVars
<1>. QED  BY <1>1, <1>5, <1>6, <1>7, RailOnlySafe

(* A first or a conflicting confirmation settles nothing.                  *)
LEMMA NonSettlingConfirmationSafe ==
  ASSUME IInv, NEW a \in Admins, NEW r \in Requests, NEW o \in Outcomes,
         FirstConfirmation(a, r, o) \/ ConflictingConfirmation(a, r, o)
  PROVE  StepSafe
<1>1. UNCHANGED <<coreVars, instr, secondBy>> /\ instr[r] = "exported"
  BY DEF FirstConfirmation, ConflictingConfirmation
<1>2. /\ firstBy' \in [Requests -> Admins \cup {NoAdmin}]
      /\ firstOutcome' \in [Requests -> {"none"} \cup Outcomes]
      /\ \A q \in Requests \ {r} : /\ firstBy'[q] = firstBy[q]
                                   /\ firstOutcome'[q] = firstOutcome[q]
  BY DEF FirstConfirmation, ConflictingConfirmation, IInv, TypeOK
<1>3. CoreInv'
  BY <1>1, CoreUnchangedSafe DEF IInv
<1>4. TypeOK'
  BY <1>1, <1>2, <1>3 DEF IInv, TypeOK, CoreInv
<1>5. InstructionMatchesRequest' /\ CoolingOffRespected'
  BY <1>1 DEF IInv, InstructionMatchesRequest, CoolingOffRespected, coreVars,
              rowVars, destVars
<1>6. TwoPersonRule'
  BY <1>1, <1>2 DEF IInv, TwoPersonRule, Outcomes
<1>. QED  BY <1>1, <1>4, <1>5, <1>6, RailOnlySafe

(* The second confirmation settles: the request is still submitted.        *)
LEMMA SecondConfirmationSafe ==
  ASSUME IInv, NEW a \in Admins, NEW r \in Requests, NEW o \in Outcomes,
         SecondConfirmation(a, r, o)
  PROVE  StepSafe
<1>. DEFINE s == SettlementOf(o)
<1>1. s = (IF o = "paid" THEN "paid" ELSE "failed") /\ o \in {"paid", "returned"}
  BY DEF SettlementOf, Outcomes
<1>2. /\ Settle(r, NoToken, s)
      /\ UNCHANGED <<destStatus, disabling, cooled, configured, workerVars,
                     firstBy, firstOutcome>>
      /\ instr[r] = "exported"
      /\ instr' = [instr EXCEPT ![r] = o]
      /\ secondBy' = [secondBy EXCEPT ![r] = a]
      /\ firstBy[r] \notin {NoAdmin, a} /\ firstOutcome[r] = o
  BY DEF SecondConfirmation
<1>. HIDE DEF s
<1>3. status[r] = "submitted" /\ cooled[DestOf[r]]
  BY <1>2 DEF IInv, InstructionMatchesRequest, CoolingOffRespected
<1>4. CoreInv' /\ KeepsPromise
  BY <1>1, <1>2, <1>3, SettleSafe DEF IInv, LeavesBatch
<1>5. status' = [status EXCEPT ![r] = s]
  BY <1>1, <1>2, <1>3
  DEF Settle, CanSettle, SettlePaid, SettleFailed
<1>6. TypeOK'
  BY <1>1, <1>2, <1>4 DEF IInv, TypeOK, CoreInv, Outcomes
<1>7. InstructionMatchesRequest'
  BY <1>1, <1>2, <1>5
  DEF IInv, TypeOK, CoreInv, CoreTypeOK, InstructionMatchesRequest
<1>8. TwoPersonRule'
  <2>1. firstBy[r] \in Admins
    BY <1>2 DEF IInv, TypeOK
  <2>. QED  BY <1>2, <2>1 DEF IInv, TypeOK, TwoPersonRule
<1>9. CoolingOffRespected'
  BY <1>2, <1>3 DEF IInv, TypeOK, CoolingOffRespected
<1>10. \A q \in Requests : status[q] \in Terminal => status'[q] = status[q]
  BY <1>3, <1>5 DEF IInv, CoreInv, CoreTypeOK, Terminal
<1>. QED
  BY <1>4, <1>6, <1>7, <1>8, <1>9, <1>10 DEF StepSafe, IInv

(* A poll never finds anything left to settle.                             *)
LEMMA PollSubmittedSafe ==
  ASSUME IInv, NEW r \in Requests, PollSubmitted(r)
  PROVE  StepSafe
<1>1. status[r] \in {"paid", "failed"}
  BY DEF PollSubmitted, IInv, InstructionMatchesRequest, Outcomes
<1>2. ~CanSettle(r, NoToken)
  BY <1>1 DEF CanSettle
<1>3. UNCHANGED <<ledgerVars, rowVars, firstPaid>>
  BY <1>2 DEF PollSubmitted, Settle, ledgerVars, rowVars
<1>4. UNCHANGED coreVars /\ UNCHANGED railVars
  BY <1>3 DEF PollSubmitted, coreVars, destVars
<1>5. CoreInv' /\ KeepsPromise
  BY <1>4, CoreUnchangedSafe DEF IInv
<1>6. CoreFrame
  BY <1>3, <1>4 DEF CoreFrame, coreVars, rowVars, destVars
<1>. QED  BY <1>4, <1>5, <1>6, CoreStepSafe

(* Every step, of whomever, is safe.                                       *)
LEMMA NextSafe ==
  ASSUME IInv, [Next]_vars
  PROVE  StepSafe
<1>1. CASE RequestStep /\ UNCHANGED railVars
  BY <1>1, RequestStepSafe, RequestStepFrame, CoreStepSafe DEF IInv
<1>2. ASSUME NEW w \in Workers, WorkerStep(w) \/ WorkerCrash(w),
             UNCHANGED railVars
      PROVE  StepSafe
  BY <1>2, WorkerStepSafe, WorkerStepFrame, CoreStepSafe DEF IInv
<1>3. CASE EnvironmentStep /\ UNCHANGED railVars
  BY <1>3, EnvironmentStepSafe, EnvironmentStepFrame, CoreStepSafe DEF IInv
<1>4. CASE Rail
  BY <1>4, SubmitInHouseSafe, ExportBatchSafe, PollSubmittedSafe,
     NonSettlingConfirmationSafe, SecondConfirmationSafe
  DEF Rail, ConfirmInstruction
<1>5. CASE UNCHANGED vars
  <2>1. UNCHANGED coreVars /\ UNCHANGED railVars
    BY <1>5 DEF vars
  <2>2. CoreInv' /\ KeepsPromise
    BY <2>1, CoreUnchangedSafe DEF IInv
  <2>3. CoreFrame
    BY <2>1 DEF CoreFrame, coreVars, rowVars, destVars
  <2>. QED  BY <2>1, <2>2, <2>3, CoreStepSafe
<1>. QED  BY <1>1, <1>2, <1>3, <1>4, <1>5 DEF Next

-----------------------------------------------------------------------------
(* The inductive invariant holds in every reachable state.                 *)
THEOREM Invariance == Spec => []IInv
<1>1. IInv /\ [Next]_vars => IInv'
  BY NextSafe DEF StepSafe
<1>. QED  BY InitSafe, <1>1, PTL DEF Spec

(* Every column keeps to its CHECK constraint and every worker to its      *)
(* batch, whatever the number of processes and requests.                   *)
THEOREM TypeCorrect == Spec => []TypeOK
<1>1. IInv => TypeOK
  BY DEF IInv
<1>. QED  BY Invariance, <1>1, PTL

(* reserved_cents always is the sum of the active reservations.            *)
THEOREM ReservedCorrect == Spec => []ReservedIsSum
<1>1. IInv => ReservedIsSum
  BY DEF IInv, CoreInv, LedgerSafe
<1>. QED  BY Invariance, <1>1, PTL

(* A helper's reserved money is always there.                              *)
THEOREM ReserveCorrect == Spec => []ReserveBacked
<1>1. IInv => ReserveBacked
  BY DEF IInv, CoreInv, LedgerSafe
<1>. QED  BY Invariance, <1>1, PTL

(* Each paid cash-out is in the balance exactly once.                      *)
THEOREM BalanceCorrect == Spec => []BalanceExplained
<1>1. IInv => BalanceExplained
  BY DEF IInv, CoreInv, LedgerSafe
<1>. QED  BY Invariance, <1>1, PTL

(* The reservation of a request lives exactly as long as it is open.       *)
THEOREM ReservationCorrect == Spec => []OpenIffReserved
<1>1. IInv => OpenIffReserved
  BY DEF IInv, CoreInv
<1>. QED  BY Invariance, <1>1, PTL

(* The lease protocol: late workers see the attempt count of the row.      *)
THEOREM FenceCorrect == Spec => []FencedBatchIsCurrent
<1>1. IInv => FencedBatchIsCurrent
  BY DEF IInv, CoreInv
<1>. QED  BY Invariance, <1>1, PTL

(* Instruction and request never disagree.                                 *)
THEOREM InstructionCorrect == Spec => []InstructionMatchesRequest
<1>1. IInv => InstructionMatchesRequest
  BY DEF IInv
<1>. QED  BY Invariance, <1>1, PTL

(* No money moves on the word of one administrator.                        *)
THEOREM TwoPersonCorrect == Spec => []TwoPersonRule
<1>1. IInv => TwoPersonRule
  BY DEF IInv
<1>. QED  BY Invariance, <1>1, PTL

(* No payout is instructed before the destination's cooling-off ended.     *)
THEOREM CoolingOffCorrect == Spec => []CoolingOffRespected
<1>1. IInv => CoolingOffRespected
  BY DEF IInv
<1>. QED  BY Invariance, <1>1, PTL

(* What has ended stays as it ended.                                       *)
THEOREM FinalCorrect == Spec => TerminalIsFinal
<1>. DEFINE A == \A r \in Requests :
                   status[r] \in Terminal => status'[r] = status[r]
<1>1. IInv /\ [Next]_vars => [A]_status
  BY NextSafe DEF StepSafe
<1>2. TerminalIsFinal <=> [][A]_status
  BY DEF TerminalIsFinal
<1>. HIDE DEF A
<1>. QED  BY Invariance, <1>1, <1>2, PTL DEF Spec

(* The whole rail, with workers, leases, crashes, review and bank, keeps   *)
(* the promise to the helper.                                              *)
THEOREM PromiseCorrect == Spec => PromiseKept
<1>1. Init => Promise!Init
  BY CoreInitPromise DEF Init
<1>2. IInv /\ [Next]_vars => [Promise!Next]_(Promise!promiseVars)
  BY NextSafe DEF StepSafe, KeepsPromise
<1>. QED
  BY Invariance, <1>1, <1>2, PTL DEF Spec, PromiseKept, Promise!Spec

(* A lease is on a row exactly while a worker submits it.                  *)
THEOREM LeaseCorrect == Spec => []LeaseOnlyWhileSubmitting
<1>1. IInv => LeaseOnlyWhileSubmitting
  BY DEF IInv, CoreInv
<1>. QED  BY Invariance, <1>1, PTL

(* A cash-out is paid exactly when its journal entry was posted.           *)
THEOREM PaidCorrect == Spec => []PaidIffPosted
<1>1. IInv => PaidIffPosted
  BY DEF IInv, CoreInv
<1>. QED  BY Invariance, <1>1, PTL
=============================================================================
