---------------------------- MODULE FencedJobLock ----------------------------
(***************************************************************************)
(* The lock every scheduled job runs under (jobLockingService.js): a row   *)
(* of cron_job_locks that expires unless its run renews it, and the fence  *)
(* a run writes through.  Several runs of one job, in one process or in    *)
(* many, compete for the row.                                              *)
(*                                                                         *)
(* Runs stands for the handlers that may be active at a time; a run that   *)
(* ended can start again.  A handler awaits its fenced transactions one    *)
(* after the other.  A renewal that succeeds only keeps the row from       *)
(* expiring, which here is expiry not happening.                           *)
(***************************************************************************)
EXTENDS Naturals

CONSTANTS Runs, LockValues, NoValue

ASSUME NoValueFresh == NoValue \notin LockValues

VARIABLES
  holder,         \* lock_value of the row, NoValue when there is no row
  unexpired,      \* expires_at > NOW()
  lockValue,      \* the value each run acquired the lock with
  leaseLost,      \* the fence's in-memory flag
  inTransaction,  \* a fencedTransaction that has verified the lease is open
  late            \* history: commits of this run since it was superseded

vars == <<holder, unexpired, lockValue, leaseLost, inTransaction, late>>

TypeOK ==
  /\ holder \in LockValues \cup {NoValue}
  /\ unexpired \in BOOLEAN
  /\ lockValue \in [Runs -> LockValues \cup {NoValue}]
  /\ leaseLost \in [Runs -> BOOLEAN]
  /\ inTransaction \in [Runs -> BOOLEAN]
  /\ late \in [Runs -> 0 .. 2]
  /\ \A p \in Runs : inTransaction[p] => lockValue[p] # NoValue

Init ==
  /\ holder = NoValue
  /\ unexpired = FALSE
  /\ lockValue = [p \in Runs |-> NoValue]
  /\ leaseLost = [p \in Runs |-> FALSE]
  /\ inTransaction = [p \in Runs |-> FALSE]
  /\ late = [p \in Runs |-> 0]

-----------------------------------------------------------------------------
Running(p) == lockValue[p] # NoValue

(* The lock has been handed to another run.                                *)
Superseded(p) == Running(p) /\ holder \notin {NoValue, lockValue[p]}

(* hostname, process and time: a value of its own for every acquisition.   *)
FreshValues == LockValues \ ({holder} \cup {lockValue[p] : p \in Runs})

(* Mutant of AcquireJobLock: an expired row is not taken over.             *)
AcquireAbsent(p) ==
  /\ ~Running(p)
  /\ holder = NoValue
  /\ \E v \in FreshValues :
       /\ holder' = v
       /\ lockValue' = [lockValue EXCEPT ![p] = v]
  /\ unexpired' = TRUE
  /\ UNCHANGED <<leaseLost, inTransaction, late>>

(* acquireJobLock: insert the row, or take over an expired one.            *)
AcquireJobLock(p) ==
  /\ ~Running(p)
  /\ holder = NoValue \/ ~unexpired
  /\ \E v \in FreshValues :
       /\ holder' = v
       /\ lockValue' = [lockValue EXCEPT ![p] = v]
  /\ unexpired' = TRUE
  /\ UNCHANGED <<leaseLost, inTransaction, late>>

(* refreshJobLock finds no live row with the run's value, or can not ask.  *)
RenewalFails(p) ==
  /\ Running(p)
  /\ ~leaseLost[p]
  /\ leaseLost' = [leaseLost EXCEPT ![p] = TRUE]
  /\ UNCHANGED <<holder, unexpired, lockValue, inTransaction, late>>

(* Mutant of ReleaseJobLock: the row is deleted by job name alone.         *)
ReleaseAny(p) == holder' = NoValue

(* releaseJobLock deletes the row only under the run's own value.          *)
ReleaseJobLock(p) == holder' = IF holder = lockValue[p] THEN NoValue ELSE holder

(* The renewal loop releases what it believes is lost, while the handler   *)
(* goes on.                                                                *)
ReleaseAfterLoss(p) ==
  /\ Running(p)
  /\ leaseLost[p]
  /\ ReleaseJobLock(p)
  /\ UNCHANGED <<unexpired, lockValue, leaseLost, inTransaction, late>>

(* Mutant of Verified: the fence's own flag is taken for the lease.        *)
FlagOnly(p) == ~leaseLost[p]

(* LEASE_VERIFY_SQL, a plain SELECT.                                       *)
Verified(p) == holder = lockValue[p] /\ unexpired

(* fencedTransaction: assertActive, BEGIN, verify the lease ...            *)
BeginFenced(p) ==
  /\ Running(p)
  /\ ~leaseLost[p]
  /\ ~inTransaction[p]
  /\ inTransaction' = [inTransaction EXCEPT ![p] = Verified(p)]
  /\ leaseLost' = [leaseLost EXCEPT ![p] = ~Verified(p)]
  /\ UNCHANGED <<holder, unexpired, lockValue, late>>

(* ... do the work, COMMIT.                                                *)
CommitFenced(p) ==
  /\ inTransaction[p]
  /\ inTransaction' = [inTransaction EXCEPT ![p] = FALSE]
  /\ late' = [late EXCEPT ![p] = IF Superseded(p) /\ @ < 2 THEN @ + 1 ELSE @]
  /\ UNCHANGED <<holder, unexpired, lockValue, leaseLost>>

(* ... or fail and ROLLBACK.                                               *)
RollbackFenced(p) ==
  /\ inTransaction[p]
  /\ inTransaction' = [inTransaction EXCEPT ![p] = FALSE]
  /\ UNCHANGED <<holder, unexpired, lockValue, leaseLost, late>>

(* The connection of a run that ends is rolled back, its fence forgotten.  *)
RunEnds(p) ==
  /\ lockValue' = [lockValue EXCEPT ![p] = NoValue]
  /\ leaseLost' = [leaseLost EXCEPT ![p] = FALSE]
  /\ inTransaction' = [inTransaction EXCEPT ![p] = FALSE]
  /\ late' = [late EXCEPT ![p] = 0]
  /\ UNCHANGED unexpired

(* The handler returns or throws; the lock is released in "finally".       *)
Finish(p) ==
  /\ Running(p)
  /\ ~inTransaction[p]
  /\ ReleaseJobLock(p)
  /\ RunEnds(p)

(* The process dies, or the release fails: the row is left behind.         *)
Crash(p) ==
  /\ Running(p)
  /\ RunEnds(p)
  /\ UNCHANGED holder

(* The time to live passes without a renewal.                              *)
Expire ==
  /\ holder # NoValue
  /\ unexpired
  /\ unexpired' = FALSE
  /\ UNCHANGED <<holder, lockValue, leaseLost, inTransaction, late>>

Next ==
  \/ Expire
  \/ \E p \in Runs :
       \/ AcquireJobLock(p) \/ RenewalFails(p) \/ ReleaseAfterLoss(p)
       \/ BeginFenced(p) \/ CommitFenced(p) \/ RollbackFenced(p)
       \/ Finish(p) \/ Crash(p)

Spec == Init /\ [][Next]_vars

-----------------------------------------------------------------------------
(* A live lease ends only by its own run: neither the release of a run     *)
(* that lost the lock nor another acquisition takes it away.               *)
LiveLeaseIsRespected ==
  [][(holder # NoValue /\ unexpired /\ holder' # holder) =>
       \E p \in Runs : /\ lockValue[p] = holder
                       /\ leaseLost[p] \/ lockValue'[p] = NoValue]_vars

(* What the fence does achieve: a superseded run commits at most the one   *)
(* transaction that had verified the lease before it was lost.             *)
AtMostOneLateCommit == \A p \in Runs : late[p] <= 1

-----------------------------------------------------------------------------
(* Fairness: a row nobody renews expires, the schedule keeps firing, and   *)
(* handlers come to an end.  Crashes and failing renewals are not bounded. *)
Orphaned == holder # NoValue /\ \A p \in Runs : lockValue[p] # holder

Fairness ==
  /\ WF_vars(Orphaned /\ Expire)
  /\ \A p \in Runs : /\ WF_vars(AcquireJobLock(p))
                     /\ WF_vars(CommitFenced(p))
                     /\ SF_vars(Finish(p))

LiveSpec == Spec /\ Fairness

(* The job is not locked out for good: a lock left behind by a run that    *)
(* crashed is taken over or disappears, and some run gets the lock.        *)
JobRunsAgain == []<>(\E p \in Runs : Running(p) /\ holder = lockValue[p])
=============================================================================
