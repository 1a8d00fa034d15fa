------------------------ MODULE JobEventOutbox_proofs ------------------------
(***************************************************************************)
(* No edit is forgotten and no row says 'sent' too early, for any number   *)
(* of workers, edits and attempts.                                         *)
(***************************************************************************)
EXTENDS JobEventOutbox, TLAPS

(* Rows exist for past edits only, and stand for past edits only.          *)
RowsArePast ==
  \A r \in Rows : /\ covers[r] \subseteq 1 .. revision
                  /\ r > revision => covers[r] = {} /\ rowStatus[r] = "none"

(* What a worker has in hand.                                              *)
WorkInHand ==
  \A w \in Workers :
    /\ batch[w] \subseteq 1 .. revision
    /\ current[w] # 0 => /\ current[w] \in batch[w]
                         /\ loaded[w] \in 1 .. revision
    /\ phase[w] # "idle" => current[w] # 0
    /\ phase[w] = "delivered" => loaded[w] \in notified

(* While a worker holds the lease of its row, the row stands for no edit   *)
(* newer than the revision the worker has loaded: edits do not merge into  *)
(* a row that is being sent.                                               *)
LoadedCovers ==
  \A w \in Workers, r \in Rows :
    (current[w] = r /\ Finishable(w, r))
       => \A n \in covers[r] : n <= loaded[w]

IInv ==
  /\ TypeOK
  /\ RowsArePast
  /\ WorkInHand
  /\ LoadedCovers
  /\ NoEditForgotten
  /\ SentIsAnnounced

(* The initial state satisfies the invariant.                              *)
LEMMA InitSafe == Init => IInv
<1>. SUFFICES ASSUME Init PROVE IInv
  OBVIOUS
<1>1. TypeOK
  BY MaxAttemptsNat, MaxRevisionNat DEF Init, TypeOK, Rows
<1>2. RowsArePast /\ WorkInHand
  BY DEF Init, RowsArePast, WorkInHand
<1>3. LoadedCovers /\ SentIsAnnounced
  BY DEF Init, LoadedCovers, SentIsAnnounced, Finishable, Rows
<1>4. NoEditForgotten
  BY DEF Init, NoEditForgotten
<1>. QED  BY <1>1, <1>2, <1>3, <1>4 DEF IInv

(* The edits up to a revision are rows.                                    *)
LEMMA PastEditsAreRows ==
  ASSUME TypeOK PROVE 1 .. revision \subseteq Rows /\ Rows \subseteq Nat \ {0}
BY MaxRevisionNat DEF TypeOK, Rows

(* What has been announced stays announced.                                *)
LEMMA AnnouncedStays ==
  ASSUME notified \subseteq notified', NEW n, Announced(n) PROVE Announced(n)'
BY DEF Announced

(* An edit opens a row for itself or merges into a pending one, and so can *)
(* neither reach a row being sent nor displace what a row stands for.      *)
LEMMA EditJobSafe == ASSUME IInv, EditJob PROVE IInv'
<1>1. /\ revision' = revision + 1
      /\ revision \in Nat /\ MaxRevision \in Nat /\ revision' \in Rows
      /\ UNCHANGED <<attempts, lease, stale, workerVars, notified, abandoned>>
  BY MaxRevisionNat DEF IInv, TypeOK, EditJob, Rows
<1>2. PICK q \in Rows :
        /\ \/ rowStatus[q] = "pending"
           \/ q = revision' /\ rowStatus[q] = "none"
        /\ covers' = [covers EXCEPT ![q] = @ \cup {revision'}]
        /\ rowStatus' = [rowStatus EXCEPT ![q] = "pending"]
  <2>1. CASE Coalescing = {}
    <3>1. covers[revision'] = {} /\ rowStatus[revision'] = "none"
      BY <1>1 DEF IInv, RowsArePast
    <3>2. /\ covers' = [covers EXCEPT ![revision'] = {revision'}]
          /\ rowStatus' = [rowStatus EXCEPT ![revision'] = "pending"]
      BY <2>1 DEF EditJob
    <3>3. covers' = [covers EXCEPT ![revision'] = @ \cup {revision'}]
      BY <3>1, <3>2, <1>1 DEF IInv, TypeOK
    <3>. QED  BY <1>1, <3>1, <3>2, <3>3
  <2>2. CASE Coalescing # {}
    <3>1. PICK q \in Coalescing :
            /\ covers' = [covers EXCEPT ![q] = @ \cup {revision'}]
            /\ UNCHANGED rowStatus
      BY <2>2 DEF EditJob
    <3>2. q \in Rows /\ rowStatus[q] = "pending"
      BY DEF Coalescing
    <3>3. rowStatus' = [rowStatus EXCEPT ![q] = "pending"]
      BY <3>1, <3>2 DEF IInv, TypeOK
    <3>. QED  BY <3>1, <3>2, <3>3
  <2>. QED  BY <2>1, <2>2
<1>3. q <= revision' /\ lease[q] = NoToken /\ rowStatus[q] # "sending"
  BY <1>1, <1>2, PastEditsAreRows DEF IInv, TypeOK, RowsArePast, Rows
<1>4. TypeOK'
  BY <1>1, <1>2, <1>3 DEF IInv, TypeOK, workerVars, Rows
<1>5. RowsArePast'
  BY <1>1, <1>2, <1>3 DEF IInv, TypeOK, RowsArePast, Rows
<1>6. WorkInHand'
  BY <1>1 DEF IInv, TypeOK, WorkInHand, workerVars, Rows
<1>7. LoadedCovers'
  BY <1>1, <1>2, <1>3 DEF IInv, TypeOK, LoadedCovers, Finishable, workerVars
<1>8. SentIsAnnounced'
  BY <1>1, <1>2, <1>3 DEF IInv, TypeOK, SentIsAnnounced, Announced
<1>9. NoEditForgotten'
  <2>. SUFFICES ASSUME NEW n \in 1 .. revision'
       PROVE \/ Announced(n) \/ n \in abandoned
             \/ \E r \in Rows : /\ n \in covers'[r]
                                /\ rowStatus'[r] \in {"pending", "sending"}
    BY <1>1 DEF NoEditForgotten, Announced
  <2>1. CASE n = revision'
    BY <2>1, <1>2 DEF IInv, TypeOK
  <2>2. CASE n # revision'
    <3>1. n \in 1 .. revision
      BY <1>1, <2>2
    <3>. QED  BY <3>1, <1>2 DEF IInv, TypeOK, NoEditForgotten
  <2>. QED  BY <2>1, <2>2
<1>. QED  BY <1>4, <1>5, <1>6, <1>7, <1>8, <1>9 DEF IInv

(* A claim takes its rows away from whoever held them, since its token is  *)
(* remembered by nobody else.                                              *)
LEMMA ClaimSafe ==
  ASSUME IInv, NEW w \in Workers, ClaimJobEvents(w) PROVE IInv'
<1>1. PICK S \in SUBSET Claimable \ {{}}, t \in FreshTokens :
       /\ rowStatus' = [r \in Rows |-> IF r \in S THEN "sending"
                                       ELSE rowStatus[r]]
       /\ attempts' = [r \in Rows |->
                         IF r \in S /\ attempts[r] < MaxAttempts
                         THEN attempts[r] + 1 ELSE attempts[r]]
       /\ lease' = [r \in Rows |-> IF r \in S THEN t ELSE lease[r]]
       /\ stale' = [r \in Rows |-> r \notin S /\ stale[r]]
       /\ token' = [token EXCEPT ![w] = t]
       /\ batch' = [batch EXCEPT ![w] = S]
  BY DEF ClaimJobEvents
<1>2. /\ t \in Tokens /\ t # NoToken
      /\ \A r \in Rows : lease[r] # t
      /\ \A v \in Workers : token[v] # t
  BY NoTokenFresh DEF FreshTokens
<1>3. /\ S \in SUBSET Rows
      /\ \A r \in S : rowStatus[r] \in {"pending", "sending"}
  BY DEF Claimable
<1>4. /\ batch[w] = {}
      /\ UNCHANGED <<revision, covers, current, loaded, phase, notified,
                     abandoned>>
  BY DEF ClaimJobEvents
<1>5. S \subseteq 1 .. revision
  BY <1>3 DEF IInv, TypeOK, RowsArePast, Rows
<1>6. current[w] = 0
  BY <1>4 DEF IInv, WorkInHand
<1>7. TypeOK'
  <2>1. attempts' \in [Rows -> 0 .. MaxAttempts]
    BY <1>1, MaxAttemptsNat DEF IInv, TypeOK
  <2>2. stale' \in [Rows -> BOOLEAN]
    BY <1>1 DEF IInv, TypeOK
  <2>3. \A r \in Rows : (lease'[r] # NoToken) <=> (rowStatus'[r] = "sending")
    BY <1>1, <1>2, <1>3 DEF IInv, TypeOK
  <2>. QED  BY <1>1, <1>2, <1>3, <1>4, <2>1, <2>2, <2>3 DEF IInv, TypeOK
<1>8. RowsArePast'
  BY <1>1, <1>3, <1>4, <1>5 DEF IInv, TypeOK, RowsArePast, Rows
<1>9. WorkInHand'
  BY <1>1, <1>4, <1>5, <1>6 DEF IInv, TypeOK, WorkInHand
<1>10. LoadedCovers'
  BY <1>1, <1>2, <1>3, <1>4, <1>6, PastEditsAreRows
  DEF IInv, TypeOK, LoadedCovers, Finishable, Rows
<1>11. NoEditForgotten'
  BY <1>1, <1>3, <1>4 DEF IInv, NoEditForgotten, Announced
<1>12. SentIsAnnounced'
  BY <1>1, <1>3, <1>4 DEF IInv, SentIsAnnounced, Announced
<1>. QED  BY <1>7, <1>8, <1>9, <1>10, <1>11, <1>12 DEF IInv

(* A worker that loads the job has seen every edit its row stands for.     *)
LEMMA LoadJobSafe ==
  ASSUME IInv, NEW w \in Workers, NEW r \in Rows, LoadJob(w, r) PROVE IInv'
<1>1. /\ current[w] = 0 /\ r \in batch[w]
      /\ current' = [current EXCEPT ![w] = r]
      /\ loaded' = [loaded EXCEPT ![w] = revision]
      /\ phase' = [phase EXCEPT ![w] = "loaded"]
      /\ UNCHANGED <<revision, rowStatus, covers, attempts, lease, stale>>
      /\ UNCHANGED <<token, batch, notified, abandoned>>
  BY DEF LoadJob, rowVars
<1>2. TypeOK'
  BY <1>1 DEF IInv, TypeOK
<1>3. RowsArePast' /\ NoEditForgotten' /\ SentIsAnnounced'
  BY <1>1
  DEF IInv, RowsArePast, NoEditForgotten, SentIsAnnounced, Announced
<1>4. revision \in 1 .. revision
  BY <1>1 DEF IInv, TypeOK, WorkInHand
<1>5. WorkInHand'
  BY <1>1, <1>4, PastEditsAreRows DEF IInv, TypeOK, WorkInHand
<1>6. LoadedCovers'
  <2>1. \A q \in Rows : \A n \in covers[q] : n <= revision
    BY DEF IInv, RowsArePast
  <2>. QED  BY <1>1, <2>1
            DEF IInv, TypeOK, WorkInHand, LoadedCovers, Finishable
<1>. QED  BY <1>2, <1>3, <1>5, <1>6 DEF IInv

(* Delivering, or failing to, touches no row.                              *)
LEMMA DeliverySafe ==
  ASSUME IInv, NEW w \in Workers, NotifyBidders(w) \/ NotifyFails(w)
  PROVE  IInv'
<1>1. /\ phase[w] = "loaded"
      /\ UNCHANGED <<revision, rowStatus, covers, attempts, lease, stale>>
      /\ UNCHANGED <<token, batch, current, loaded, abandoned>>
      /\ \/ /\ notified' = notified \cup {loaded[w]}
            /\ phase' = [phase EXCEPT ![w] = "delivered"]
         \/ notified' = notified /\ phase' = [phase EXCEPT ![w] = "error"]
  BY DEF NotifyBidders, NotifyFails, rowVars
<1>2. loaded[w] \in Rows
  BY <1>1, PastEditsAreRows DEF IInv, WorkInHand
<1>3. TypeOK'
  BY <1>1, <1>2 DEF IInv, TypeOK
<1>4. RowsArePast' /\ LoadedCovers'
  BY <1>1 DEF IInv, RowsArePast, LoadedCovers, Finishable
<1>5. WorkInHand'
  BY <1>1 DEF IInv, TypeOK, WorkInHand
<1>6. NoEditForgotten' /\ SentIsAnnounced'
  BY <1>1 DEF IInv, NoEditForgotten, SentIsAnnounced, Announced
<1>. QED  BY <1>3, <1>4, <1>5, <1>6 DEF IInv

(* A worker that rests, or only takes the next row, has less in hand.      *)
LEMMA WorkerRests ==
  ASSUME IInv, NEW w \in Workers, Rest(w), NEW B \in SUBSET batch[w],
         batch' = [batch EXCEPT ![w] = B],
         token' = [token EXCEPT ![w] = NoToken] \/ token' = token,
         revision' = revision, notified' = notified
  PROVE  /\ WorkInHand'
         /\ current' \in [Workers -> Rows \cup {0}]
         /\ loaded' \in [Workers -> 0 .. MaxRevision]
         /\ phase' \in [Workers -> {"idle", "loaded", "delivered", "error"}]
         /\ batch' \in [Workers -> SUBSET Rows]
         /\ token' \in [Workers -> Tokens \cup {NoToken}]
<1>1. WorkInHand'
  BY DEF IInv, TypeOK, WorkInHand, Rest
<1>2. 0 \in 0 .. MaxRevision
  BY MaxRevisionNat
<1>. QED  BY <1>1, <1>2 DEF IInv, TypeOK, Rest

(* Finishing a row as sent is safe because of LoadedCovers; finishing it   *)
(* as anything else keeps its edits queued or records them as given up; a  *)
(* row somebody else has claimed is left alone.                            *)
LEMMA FinishSafe ==
  ASSUME IInv, NEW w \in Workers, NEW r \in Rows, FinishJobEvent(w, r)
  PROVE  IInv'
<1>. DEFINE Writes == Finishable(w, r) /\ ~PendingConflict(w, r)
<1>1. /\ current[w] = r /\ phase[w] \in {"delivered", "error"} /\ Rest(w)
      /\ UNCHANGED <<revision, covers, attempts, notified>>
  BY DEF FinishJobEvent
<1>2. PICK B \in SUBSET batch[w] :
        /\ batch' = [batch EXCEPT ![w] = B]
        /\ token' = [token EXCEPT ![w] = NoToken] \/ token' = token
  BY DEF FinishJobEvent, ForgetBatch, NextRow
<1>3. /\ WorkInHand'
      /\ current' \in [Workers -> Rows \cup {0}]
      /\ loaded' \in [Workers -> 0 .. MaxRevision]
      /\ phase' \in [Workers -> {"idle", "loaded", "delivered", "error"}]
      /\ batch' \in [Workers -> SUBSET Rows]
      /\ token' \in [Workers -> Tokens \cup {NoToken}]
  BY <1>1, <1>2, WorkerRests
<1>4. CASE ~Writes
  <2>1. UNCHANGED <<rowStatus, lease, stale, abandoned>>
    BY <1>4 DEF FinishJobEvent
  <2>2. TypeOK'
    BY <1>1, <1>3, <2>1 DEF IInv, TypeOK
  <2>3. RowsArePast' /\ NoEditForgotten' /\ SentIsAnnounced'
    BY <1>1, <2>1
    DEF IInv, RowsArePast, NoEditForgotten, SentIsAnnounced, Announced
  <2>4. LoadedCovers'
    BY <1>1, <1>2, <2>1
    DEF IInv, TypeOK, LoadedCovers, Finishable, Rest, Rows
  <2>. QED  BY <1>3, <2>2, <2>3, <2>4 DEF IInv
<1>5. CASE Writes
  <2>1. /\ rowStatus' = [rowStatus EXCEPT ![r] = FinalStatus(w, r)]
        /\ lease' = [lease EXCEPT ![r] = NoToken]
        /\ stale' = [stale EXCEPT ![r] = FALSE]
        /\ abandoned' = IF FinalStatus(w, r) = "failed"
                        THEN abandoned \cup covers[r] ELSE abandoned
        /\ rowStatus[r] = "sending"
    BY <1>5 DEF FinishJobEvent, Unleased, Finishable
  <2>2. FinalStatus(w, r) \in {"sent", "failed", "pending"}
    BY DEF FinalStatus
  <2>3. FinalStatus(w, r) = "sent" => \A n \in covers[r] : Announced(n)
    <3>. SUFFICES ASSUME FinalStatus(w, r) = "sent", NEW n \in covers[r]
                  PROVE Announced(n)
      OBVIOUS
    <3>1. phase[w] = "delivered"
      BY DEF FinalStatus
    <3>2. loaded[w] \in notified /\ n <= loaded[w]
      BY <1>1, <1>5, <3>1 DEF IInv, WorkInHand, LoadedCovers
    <3>. QED  BY <1>1, <3>2, PastEditsAreRows
              DEF IInv, TypeOK, RowsArePast, WorkInHand, Announced
  <2>4. TypeOK'
    BY <1>1, <1>3, <2>1, <2>2 DEF IInv, TypeOK
  <2>5. RowsArePast'
    BY <1>1, <2>1, <2>2 DEF IInv, TypeOK, RowsArePast
  <2>6. LoadedCovers'
    <3>. SUFFICES ASSUME NEW v \in Workers, NEW q \in Rows,
                         current'[v] = q, Finishable(v, q)'
                  PROVE \A n \in covers[q] : n <= loaded'[v]
      BY <1>1 DEF LoadedCovers
    <3>1. v # w
      BY <1>1 DEF IInv, TypeOK, Rest, Rows
    <3>2. q # r
      BY <2>1, <2>2 DEF IInv, TypeOK, Finishable
    <3>3. /\ current[v] = q /\ loaded'[v] = loaded[v]
          /\ token'[v] = token[v]
      BY <1>1, <1>2, <3>1 DEF IInv, TypeOK, Rest
    <3>4. rowStatus'[q] = rowStatus[q] /\ lease'[q] = lease[q]
      BY <2>1, <3>2 DEF IInv, TypeOK
    <3>. QED  BY <3>3, <3>4 DEF IInv, LoadedCovers, Finishable
  <2>7. SentIsAnnounced'
    BY <1>1, <2>1, <2>3 DEF IInv, TypeOK, SentIsAnnounced, Announced
  <2>8. NoEditForgotten'
    BY <1>1, <2>1, <2>2, <2>3 DEF IInv, TypeOK, NoEditForgotten, Announced
  <2>. QED  BY <1>3, <2>4, <2>5, <2>6, <2>7, <2>8 DEF IInv
<1>. QED  BY <1>4, <1>5

(* A crash loses the batch and nothing of the rows.                        *)
LEMMA CrashSafe == ASSUME IInv, NEW w \in Workers, Crash(w) PROVE IInv'
<1>1. /\ batch' = [batch EXCEPT ![w] = {}] /\ Rest(w)
      /\ token' = [token EXCEPT ![w] = NoToken]
      /\ UNCHANGED <<revision, rowStatus, covers, attempts, lease, stale>>
      /\ UNCHANGED <<notified, abandoned>>
  BY DEF Crash, ForgetBatch, rowVars
<1>2. /\ WorkInHand'
      /\ current' \in [Workers -> Rows \cup {0}]
      /\ loaded' \in [Workers -> 0 .. MaxRevision]
      /\ phase' \in [Workers -> {"idle", "loaded", "delivered", "error"}]
      /\ batch' \in [Workers -> SUBSET Rows]
      /\ token' \in [Workers -> Tokens \cup {NoToken}]
  BY <1>1, WorkerRests
<1>3. TypeOK'
  BY <1>1, <1>2 DEF IInv, TypeOK
<1>4. RowsArePast' /\ NoEditForgotten' /\ SentIsAnnounced'
  BY <1>1 DEF IInv, RowsArePast, NoEditForgotten, SentIsAnnounced, Announced
<1>5. LoadedCovers'
  BY <1>1 DEF IInv, TypeOK, LoadedCovers, Finishable, Rest, Rows
<1>. QED  BY <1>2, <1>3, <1>4, <1>5 DEF IInv

(* Time and pruning: only finished rows disappear.                         *)
LEMMA HousekeepingSafe ==
  ASSUME IInv, NEW r \in Rows, BecomesStale(r) \/ PruneJobEvents(r)
  PROVE  IInv'
<1>1. UNCHANGED <<revision, covers, attempts, lease, token, batch, current,
                  loaded, phase, notified, abandoned>>
  BY DEF BecomesStale, PruneJobEvents, workerVars
<1>2. \/ UNCHANGED rowStatus /\ stale' = [stale EXCEPT ![r] = TRUE]
      \/ /\ rowStatus[r] \in {"sent", "failed"}
         /\ rowStatus' = [rowStatus EXCEPT ![r] = "none"]
         /\ UNCHANGED stale
  BY DEF BecomesStale, PruneJobEvents
<1>3. TypeOK'
  BY <1>1, <1>2 DEF IInv, TypeOK
<1>4. RowsArePast' /\ WorkInHand'
  BY <1>1, <1>2 DEF IInv, TypeOK, RowsArePast, WorkInHand
<1>5. LoadedCovers'
  BY <1>1, <1>2 DEF IInv, TypeOK, LoadedCovers, Finishable
<1>6. NoEditForgotten' /\ SentIsAnnounced'
  BY <1>1, <1>2 DEF IInv, TypeOK, NoEditForgotten, SentIsAnnounced, Announced
<1>. QED  BY <1>3, <1>4, <1>5, <1>6 DEF IInv

(* Every step keeps the invariant.                                         *)
LEMMA NextSafe == IInv /\ [Next]_vars => IInv'
<1>. SUFFICES ASSUME IInv, [Next]_vars PROVE IInv'
  OBVIOUS
<1>1. CASE UNCHANGED vars
  BY <1>1
  DEF vars, rowVars, workerVars, IInv, TypeOK, RowsArePast, WorkInHand,
      LoadedCovers, Finishable, NoEditForgotten, SentIsAnnounced, Announced
<1>2. CASE Next
  <2>1. ASSUME NEW w \in Workers,
               NotifyBidders(w) \/ NotifyFails(w) PROVE IInv'
    BY <2>1, DeliverySafe
  <2>. QED  BY <1>2, <2>1, EditJobSafe, ClaimSafe, LoadJobSafe, FinishSafe,
               CrashSafe, HousekeepingSafe DEF Next
<1>. QED  BY <1>1, <1>2

(* The invariant holds in every reachable state.                           *)
THEOREM Invariance == Spec => []IInv
BY InitSafe, NextSafe, PTL DEF Spec

(* No edit is forgotten by its row, however edits race claims and late     *)
(* workers finish rows (finishJobEvent, enqueueJobEvent).                  *)
THEOREM EditsCorrect == Spec => []NoEditForgotten
<1>1. IInv => NoEditForgotten
  BY DEF IInv
<1>. QED  BY <1>1, Invariance, PTL

(* A row is 'sent' only when all edits merged into it are announced.       *)
THEOREM SentCorrect == Spec => []SentIsAnnounced
<1>1. IInv => SentIsAnnounced
  BY DEF IInv
<1>. QED  BY <1>1, Invariance, PTL

(* The outbox and its workers are well-typed.                              *)
THEOREM TypeCorrect == Spec => []TypeOK
<1>1. IInv => TypeOK
  BY DEF IInv
<1>. QED  BY Invariance, <1>1, PTL
=============================================================================
