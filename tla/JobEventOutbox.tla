--------------------------- MODULE JobEventOutbox ---------------------------
(***************************************************************************)
(* The transactional outbox through which material edits of one job reach  *)
(* its bidders (services/jobEventOutbox.js, jobs/jobEventOutbox.js).  Edits*)
(* coalesce into the pending row; workers claim rows under a lease token,  *)
(* notify of the revision they load, and finish the row.  Several workers  *)
(* may be at it, since the fence of their job lock is asked only once.     *)
(*                                                                         *)
(* A row is named by the edit that inserted it.  Debounce and backoff are  *)
(* the claim not happening yet; the job is never deleted.  A partial fan-  *)
(* out counts as failed: its idempotency keys make the retry harmless.     *)
(* Bidders over the hourly cap on notices are skipped and not counted.     *)
(***************************************************************************)
EXTENDS Naturals

CONSTANTS
  Workers,
  Tokens, NoToken,  \* lease tokens and SQL NULL
  MaxAttempts,      \* MAX_ATTEMPTS
  MaxRevision       \* bound on the edits of the job

ASSUME NoTokenFresh == NoToken \notin Tokens
ASSUME MaxAttemptsNat == MaxAttempts \in Nat \ {0}
ASSUME MaxRevisionNat == MaxRevision \in Nat \ {0}

Rows == 1 .. MaxRevision

VARIABLES
  revision,   \* jobs.revision
  rowStatus,  \* job_event_outbox.status, "none" before and after the row
  covers,     \* the edits a row stands for
  attempts,   \* attempts, saturated at MaxAttempts
  lease,      \* lease_token
  stale,      \* locked_at is older than STALE_LOCK_MINUTES
  token,      \* the lease token each worker claimed its batch with
  batch,      \* rows each worker still has to handle
  current,    \* the row a worker is handling, 0 for none
  loaded,     \* the revision it has loaded for it
  phase,      \* how far it is with it
  notified,   \* revisions the flagged bidders have a notice of
  abandoned   \* edits whose row has been marked failed

rowVars    == <<revision, rowStatus, covers, attempts, lease, stale>>
workerVars == <<token, batch, current, loaded, phase>>
vars == <<rowVars, workerVars, notified, abandoned>>

TypeOK ==
  /\ revision \in 0 .. MaxRevision
  /\ rowStatus \in [Rows -> {"none", "pending", "sending", "sent", "failed"}]
  /\ covers \in [Rows -> SUBSET Rows]
  /\ attempts \in [Rows -> 0 .. MaxAttempts]
  /\ lease \in [Rows -> Tokens \cup {NoToken}]
  /\ stale \in [Rows -> BOOLEAN]
  /\ token \in [Workers -> Tokens \cup {NoToken}]
  /\ batch \in [Workers -> SUBSET Rows]
  /\ current \in [Workers -> Rows \cup {0}]
  /\ loaded \in [Workers -> 0 .. MaxRevision]
  /\ phase \in [Workers -> {"idle", "loaded", "delivered", "error"}]
  /\ notified \subseteq Rows
  /\ abandoned \subseteq Rows
  /\ \A r \in Rows : lease[r] # NoToken <=> rowStatus[r] = "sending"

Init ==
  /\ revision = 0
  /\ rowStatus = [r \in Rows |-> "none"]
  /\ covers = [r \in Rows |-> {}]
  /\ attempts = [r \in Rows |-> 0]
  /\ lease = [r \in Rows |-> NoToken]
  /\ stale = [r \in Rows |-> FALSE]
  /\ token = [w \in Workers |-> NoToken]
  /\ batch = [w \in Workers |-> {}]
  /\ current = [w \in Workers |-> 0]
  /\ loaded = [w \in Workers |-> 0]
  /\ phase = [w \in Workers |-> "idle"]
  /\ notified = {}
  /\ abandoned = {}

-----------------------------------------------------------------------------
(* The rows the unique index on the coalesce key speaks of.                *)
Coalescing == {r \in Rows : rowStatus[r] = "pending"}

(* A material edit commits its revision and its event together:            *)
(* enqueueJobEvent merges into the pending row or inserts a new one.       *)
EditJob ==
  /\ revision < MaxRevision
  /\ revision' = revision + 1
  /\ \/ \E r \in Coalescing :
          /\ covers' = [covers EXCEPT ![r] = @ \cup {revision'}]
          /\ UNCHANGED rowStatus
     \/ /\ Coalescing = {}
        /\ covers' = [covers EXCEPT ![revision'] = {revision'}]
        /\ rowStatus' = [rowStatus EXCEPT ![revision'] = "pending"]
  /\ UNCHANGED <<attempts, lease, stale, workerVars, notified, abandoned>>

(* Mutant of Claimable: a claim that was lost is not reclaimed.            *)
ClaimablePending == {r \in Rows : rowStatus[r] = "pending"}

Claimable == {r \in Rows : \/ rowStatus[r] = "pending"
                           \/ rowStatus[r] = "sending" /\ stale[r]}

FreshTokens ==
  Tokens \ ({lease[r] : r \in Rows} \cup {token[w] : w \in Workers})

(* claimJobEvents: any part of the claimable rows (SKIP LOCKED, LIMIT).    *)
ClaimJobEvents(w) ==
  /\ batch[w] = {}
  /\ \E S \in SUBSET Claimable \ {{}}, t \in FreshTokens :
       /\ rowStatus' = [r \in Rows |-> IF r \in S THEN "sending"
                                       ELSE rowStatus[r]]
       /\ attempts' = [r \in Rows |->
                         IF r \in S /\ attempts[r] < MaxAttempts
                         THEN attempts[r] + 1 ELSE attempts[r]]
       /\ lease' = [r \in Rows |-> IF r \in S THEN t ELSE lease[r]]
       /\ stale' = [r \in Rows |-> r \notin S /\ stale[r]]
       /\ token' = [token EXCEPT ![w] = t]
       /\ batch' = [batch EXCEPT ![w] = S]
  /\ UNCHANGED <<revision, covers, current, loaded, phase, notified, abandoned>>

(* handleEvent, first half: the job is read for the next row of the batch. *)
LoadJob(w, r) ==
  /\ current[w] = 0
  /\ r \in batch[w]
  /\ current' = [current EXCEPT ![w] = r]
  /\ loaded' = [loaded EXCEPT ![w] = revision]
  /\ phase' = [phase EXCEPT ![w] = "loaded"]
  /\ UNCHANGED <<rowVars, token, batch, notified, abandoned>>

(* handleEvent, second half: every flagged bidder is notified of the       *)
(* revision that was read ...                                              *)
NotifyBidders(w) ==
  /\ phase[w] = "loaded"
  /\ notified' = notified \cup {loaded[w]}
  /\ phase' = [phase EXCEPT ![w] = "delivered"]
  /\ UNCHANGED <<rowVars, token, batch, current, loaded, abandoned>>

(* ... or something throws.                                                *)
NotifyFails(w) ==
  /\ phase[w] = "loaded"
  /\ phase' = [phase EXCEPT ![w] = "error"]
  /\ UNCHANGED <<rowVars, token, batch, current, loaded, notified, abandoned>>

FinalStatus(w, r) ==
  IF phase[w] = "delivered" THEN "sent"
  ELSE IF attempts[r] = MaxAttempts THEN "failed" ELSE "pending"

(* Mutant of Finishable: the update does not ask for the lease token.      *)
FinishableByAnyone(w, r) == rowStatus[r] = "sending"

Finishable(w, r) == rowStatus[r] = "sending" /\ lease[r] = token[w]

(* Another pending row of the job exists: going back to pending violates   *)
(* the unique index and throws.                                            *)
PendingConflict(w, r) == FinalStatus(w, r) = "pending" /\ Coalescing # {}

Rest(w) ==
  /\ current' = [current EXCEPT ![w] = 0]
  /\ loaded' = [loaded EXCEPT ![w] = 0]
  /\ phase' = [phase EXCEPT ![w] = "idle"]

ForgetBatch(w) ==
  /\ token' = [token EXCEPT ![w] = NoToken]
  /\ batch' = [batch EXCEPT ![w] = {}]

NextRow(w, r) ==
  IF batch[w] = {r} THEN ForgetBatch(w)
  ELSE batch' = [batch EXCEPT ![w] = @ \ {r}] /\ UNCHANGED token

Unleased(r) ==
  /\ lease' = [lease EXCEPT ![r] = NoToken]
  /\ stale' = [stale EXCEPT ![r] = FALSE]

(* finishJobEvent: a row that somebody else has claimed meanwhile is left  *)
(* alone; an error of the update itself ends the whole batch.              *)
FinishJobEvent(w, r) ==
  /\ current[w] = r
  /\ phase[w] \in {"delivered", "error"}
  /\ IF Finishable(w, r) /\ ~PendingConflict(w, r)
     THEN /\ rowStatus' = [rowStatus EXCEPT ![r] = FinalStatus(w, r)]
          /\ Unleased(r)
          /\ abandoned' = IF FinalStatus(w, r) = "failed"
                          THEN abandoned \cup covers[r] ELSE abandoned
     ELSE UNCHANGED <<rowStatus, lease, stale, abandoned>>
  /\ IF Finishable(w, r) /\ PendingConflict(w, r)
     THEN ForgetBatch(w) ELSE NextRow(w, r)
  /\ Rest(w)
  /\ UNCHANGED <<revision, covers, attempts, notified>>

(* The process dies anywhere in its batch.                                 *)
Crash(w) ==
  /\ batch[w] # {}
  /\ ForgetBatch(w)
  /\ Rest(w)
  /\ UNCHANGED <<rowVars, notified, abandoned>>

BecomesStale(r) ==
  /\ rowStatus[r] = "sending"
  /\ ~stale[r]
  /\ stale' = [stale EXCEPT ![r] = TRUE]
  /\ UNCHANGED <<revision, rowStatus, covers, attempts, lease, workerVars,
                 notified, abandoned>>

(* Mutant of PruneJobEvents: rows being sent are pruned, too.              *)
PruneUnsent(r) ==
  /\ rowStatus[r] \in {"sending", "sent", "failed"}
  /\ rowStatus' = [rowStatus EXCEPT ![r] = "none"]
  /\ UNCHANGED <<revision, covers, attempts, lease, stale, workerVars,
                 notified, abandoned>>

PruneJobEvents(r) ==
  /\ rowStatus[r] \in {"sent", "failed"}
  /\ rowStatus' = [rowStatus EXCEPT ![r] = "none"]
  /\ UNCHANGED <<revision, covers, attempts, lease, stale, workerVars,
                 notified, abandoned>>

Next ==
  \/ EditJob
  \/ \E w \in Workers :
       \/ ClaimJobEvents(w) \/ NotifyBidders(w) \/ NotifyFails(w) \/ Crash(w)
       \/ \E r \in Rows : LoadJob(w, r) \/ FinishJobEvent(w, r)
  \/ \E r \in Rows : BecomesStale(r) \/ PruneJobEvents(r)

Spec == Init /\ [][Next]_vars

-----------------------------------------------------------------------------
(* Bidders have a notice of this edit or of a later one.                   *)
Announced(n) == \E m \in notified : m >= n

(* No edit is forgotten: until its bidders have a notice of it or of a     *)
(* later revision, or its row was given up visibly, a row that will be     *)
(* sent covers it - although edits race claims, and late workers finish    *)
(* rows that were claimed and coalesced again meanwhile.                   *)
NoEditForgotten ==
  \A n \in 1 .. revision :
    \/ Announced(n)
    \/ n \in abandoned
    \/ \E r \in Rows : n \in covers[r] /\ rowStatus[r] \in {"pending", "sending"}

(* A row is 'sent' only when all edits merged into it are announced.       *)
SentIsAnnounced ==
  \A r \in Rows : rowStatus[r] = "sent" => \A n \in covers[r] : Announced(n)

-----------------------------------------------------------------------------
(* Fairness: a lock grows stale, every process claims again and again, and *)
(* no process crashes, or outlives its claim, at the same point for ever.  *)
(* Delivery may fail every time.                                           *)
ClaimOf(w, r) == ClaimJobEvents(w) /\ r \in batch'[w]

LoadInTime(w, r) == lease[r] = token[w] /\ LoadJob(w, r)

HandleInTime(w, r) ==
  /\ lease[r] = token[w]
  /\ current[w] = r
  /\ NotifyBidders(w) \/ NotifyFails(w)

FinishInTime(w, r) == lease[r] = token[w] /\ FinishJobEvent(w, r)

Fairness ==
  /\ \A r \in Rows : WF_vars(BecomesStale(r))
  /\ \A w \in Workers, r \in Rows : /\ SF_vars(ClaimOf(w, r))
                                    /\ SF_vars(LoadInTime(w, r))
                                    /\ SF_vars(HandleInTime(w, r))
                                    /\ SF_vars(FinishInTime(w, r))

LiveSpec == Spec /\ Fairness

(* Every edit is announced or visibly given up, whatever crashes, failing  *)
(* deliveries and clashes with the unique index come in between.           *)
EveryEditSettles ==
  \A n \in Rows : (revision >= n) ~> (Announced(n) \/ n \in abandoned)
=============================================================================
