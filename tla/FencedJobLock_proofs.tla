------------------------ MODULE FencedJobLock_proofs ------------------------
(***************************************************************************)
(* What the job lock guarantees for any number of competing runs.          *)
(***************************************************************************)
EXTENDS FencedJobLock, TLAPS

(* The inductive invariant.  A run that has committed late can never again *)
(* verify its lease: its value is not in the row, and no later acquisition *)
(* brings it back, because every acquisition takes a fresh value.          *)
LateIsOver ==
  \A p \in Runs : late[p] # 0 => /\ late[p] = 1
                                 /\ Running(p)
                                 /\ ~inTransaction[p]
                                 /\ holder # lockValue[p]

IInv == TypeOK /\ LateIsOver

(* The initial state satisfies the invariant.                              *)
LEMMA InitSafe == Init => IInv
<1>. SUFFICES ASSUME Init PROVE IInv
  OBVIOUS
<1>1. TypeOK
  <2>1. 0 \in 0 .. 2
    OBVIOUS
  <2>. QED  BY <2>1 DEF Init, TypeOK
<1>2. LateIsOver
  BY DEF Init, LateIsOver
<1>. QED  BY <1>1, <1>2 DEF IInv

(* Acquiring the lock gives nobody a lease but the run that acquires it.   *)
LEMMA AcquireSafe ==
  ASSUME IInv, NEW p \in Runs, AcquireJobLock(p)
  PROVE  IInv'
<1>1. PICK v \in FreshValues : /\ holder' = v
                               /\ lockValue' = [lockValue EXCEPT ![p] = v]
  BY DEF AcquireJobLock
<1>2. /\ v \in LockValues /\ v # NoValue
      /\ \A q \in Runs : lockValue[q] # v
  BY NoValueFresh DEF FreshValues
<1>3. ~Running(p) /\ UNCHANGED <<leaseLost, inTransaction, late>>
  BY DEF AcquireJobLock
<1>4. TypeOK'
  BY <1>1, <1>2, <1>3 DEF IInv, TypeOK, AcquireJobLock, Running
<1>5. LateIsOver'
  BY <1>1, <1>2, <1>3 DEF IInv, TypeOK, LateIsOver, Running
<1>. QED  BY <1>4, <1>5 DEF IInv

(* Every step keeps the invariant.                                         *)
LEMMA NextSafe == IInv /\ [Next]_vars => IInv'
<1>. SUFFICES ASSUME IInv, [Next]_vars PROVE IInv'
  OBVIOUS
<1>1. CASE Expire
  BY <1>1 DEF Expire, IInv, TypeOK, LateIsOver, Running
<1>2. ASSUME NEW p \in Runs, AcquireJobLock(p) PROVE IInv'
  BY <1>2, AcquireSafe
<1>3. ASSUME NEW p \in Runs, RenewalFails(p) PROVE IInv'
  BY <1>3 DEF RenewalFails, IInv, TypeOK, LateIsOver, Running
<1>4. ASSUME NEW p \in Runs, ReleaseAfterLoss(p) PROVE IInv'
  BY <1>4
  DEF ReleaseAfterLoss, ReleaseJobLock, IInv, TypeOK, LateIsOver, Running
<1>5. ASSUME NEW p \in Runs, BeginFenced(p) PROVE IInv'
  <2>1. Verified(p) \in BOOLEAN
    BY <1>5 DEF Verified, IInv, TypeOK
  <2>2. TypeOK'
    BY <1>5, <2>1 DEF BeginFenced, IInv, TypeOK, Running
  <2>3. LateIsOver'
    BY <1>5, <2>1 DEF BeginFenced, Verified, IInv, TypeOK, LateIsOver, Running
  <2>. QED  BY <2>2, <2>3 DEF IInv
<1>6. ASSUME NEW p \in Runs, CommitFenced(p) PROVE IInv'
  <2>1. late[p] = 0 /\ Running(p)
    BY <1>6 DEF CommitFenced, IInv, TypeOK, LateIsOver, Running
  <2>2. late' = [late EXCEPT ![p] = IF Superseded(p) THEN 1 ELSE 0]
    BY <1>6, <2>1 DEF CommitFenced, IInv, TypeOK
  <2>3. TypeOK'
    BY <1>6, <2>2 DEF CommitFenced, IInv, TypeOK
  <2>4. LateIsOver'
    BY <1>6, <2>1, <2>2
    DEF CommitFenced, IInv, TypeOK, LateIsOver, Running, Superseded
  <2>. QED  BY <2>3, <2>4 DEF IInv
<1>7. ASSUME NEW p \in Runs, RollbackFenced(p) PROVE IInv'
  BY <1>7 DEF RollbackFenced, IInv, TypeOK, LateIsOver, Running
<1>8. ASSUME NEW p \in Runs, Finish(p) \/ Crash(p) PROVE IInv'
  <2>1. RunEnds(p) /\ holder' \in {holder, NoValue}
    BY <1>8 DEF Finish, Crash, ReleaseJobLock
  <2>2. 0 \in 0 .. 2
    OBVIOUS
  <2>3. TypeOK'
    BY <2>1, <2>2 DEF RunEnds, IInv, TypeOK
  <2>4. LateIsOver'
    BY <2>1 DEF RunEnds, IInv, TypeOK, LateIsOver, Running
  <2>. QED  BY <2>3, <2>4 DEF IInv
<1>9. CASE UNCHANGED vars
  BY <1>9 DEF vars, IInv, TypeOK, LateIsOver, Running
<1>. QED
  BY <1>1, <1>2, <1>3, <1>4, <1>5, <1>6, <1>7, <1>8, <1>9 DEF Next

-----------------------------------------------------------------------------
(* The inductive invariant holds in every reachable state.                 *)
THEOREM Invariance == Spec => []IInv
BY InitSafe, NextSafe, PTL DEF Spec

(* However many runs compete, a superseded run commits at most once more.  *)
THEOREM LateCommitBounded == Spec => []AtMostOneLateCommit
<1>1. IInv => AtMostOneLateCommit
  <2>. SUFFICES ASSUME IInv, NEW p \in Runs PROVE late[p] <= 1
    BY DEF AtMostOneLateCommit
  <2>1. late[p] = 0 \/ late[p] = 1
    BY DEF IInv, LateIsOver
  <2>. QED  BY <2>1
<1>. QED  BY Invariance, <1>1, PTL

(* No run ends the live lease of another.                                  *)
THEOREM LeaseRespected == Spec => LiveLeaseIsRespected
<1>. DEFINE A == (holder # NoValue /\ unexpired /\ holder' # holder) =>
                   \E p \in Runs : /\ lockValue[p] = holder
                                   /\ leaseLost[p] \/ lockValue'[p] = NoValue
<1>1. IInv /\ [Next]_vars => [A]_vars
  <2>. SUFFICES ASSUME IInv, Next, holder # NoValue, unexpired,
                       holder' # holder
                PROVE  A
    OBVIOUS
  <2>1. PICK p \in Runs : ReleaseAfterLoss(p) \/ Finish(p)
    BY DEF Next, Expire, AcquireJobLock, RenewalFails, BeginFenced,
           CommitFenced, RollbackFenced, Crash
  <2>2. lockValue[p] = holder
    BY <2>1 DEF ReleaseAfterLoss, Finish, ReleaseJobLock
  <2>3. leaseLost[p] \/ lockValue'[p] = NoValue
    BY <2>1 DEF ReleaseAfterLoss, Finish, RunEnds, IInv, TypeOK
  <2>. QED  BY <2>2, <2>3
<1>2. LiveLeaseIsRespected <=> [][A]_vars
  BY DEF LiveLeaseIsRespected
<1>. HIDE DEF A
<1>. QED  BY Invariance, <1>1, <1>2, PTL DEF Spec

(* The lock and its runs are well-typed.                                   *)
THEOREM TypeCorrect == Spec => []TypeOK
<1>1. IInv => TypeOK
  BY DEF IInv
<1>. QED  BY Invariance, <1>1, PTL
=============================================================================
