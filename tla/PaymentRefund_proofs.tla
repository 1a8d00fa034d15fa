------------------------ MODULE PaymentRefund_proofs ------------------------
(* Proofs about PaymentRefund: types; the ledger has one entry per refund  *)
(* recorded as made; the payment's status agrees with Stripe; a request    *)
(* that needs an approval never moves money; what is settled or decided    *)
(* is final; the amount refunded covers every refund recorded as made.     *)
EXTENDS PaymentRefund, FiniteSetTheorems, TLAPS

ProcRec ==
  [op : Ops \cup {"none"}, at : Stages \cup {"none"},
   of : Refunds \cup {NoRefund}, kind : {"refund", "void"}, known : BOOLEAN,
   answer : RefundStates \cup {"taken", "canceled"}, total : UpToAmount]
AttemptRec ==
  [status : RefundStates, kind : {"refund", "void"}, amount : 0 .. Amount,
   known : BOOLEAN, tries : 0 .. MaxTries]
PaymentRec ==
  [status : {"authorized", "captured", "refunded", "canceled"},
   refunded : 0 .. Amount, disputed : BOOLEAN]

(* What a process has read and what it has done so far agree with the rows *)
(* and with Stripe, although both may have changed since.                  *)
Asking(p) == proc[p].at \in {"provider", "charge", "settle"}

ProcInv(p) ==
  LET me == proc[p]
      r == me.of
  IN
    /\ me.at = "none" <=> me.op = "none"
    /\ me.at # "none" => r \in Refunds
    /\ me.at = "giveup" => me.op = "sweep"
    /\ me.at = "commit" => me.op = "decide"
    /\ me.at = "resolve" => attempt[r].status = "succeeded"
    /\ me.op = "decide" => r \in Refunds /\ approval[r] = "pending"
    /\ Asking(p) => attempt[r].status # "none"
    /\ Asking(p) /\ me.op = "request" => attempt[r].amount < Threshold
    /\ Asking(p) /\ me.kind = "refund" => attempt[r].kind = "refund"
    /\ Asking(p) /\ me.kind = "void" /\ attempt[r].kind = "refund" => intent = "taken"
    /\ me.at = "charge" => me.kind = "refund" /\ me.answer = "succeeded"
    /\ me.at = "settle" /\ me.kind = "void" =>
         me.answer \in {"taken", "canceled"} /\ intent = me.answer
    /\ me.at = "settle" /\ me.kind = "refund" =>
         /\ me.answer \in {"pending", "succeeded", "failed"}
         /\ me.answer = "succeeded" => me.total >= attempt[r].amount
    /\ me.total # 0 => intent = "taken"

ProcsInv == \A p \in Procs : ProcInv(p)

(* One decision of an approval runs at a time.                             *)
OneDecision ==
  \A p, q \in Procs :
    proc[p].op = "decide" /\ proc[q].op = "decide" /\ proc[p].of = proc[q].of => p = q

AttemptsInv ==
  \A r \in Refunds :
    /\ attempt[r].status = "none" => ~ attempt[r].known
    /\ attempt[r].status # "none" /\ Asked[r] # 0 => attempt[r].amount = Asked[r]
    /\ attempt[r].known => attempt[r].kind = "refund"
    /\ ledger[r] = 1 => payment.refunded >= attempt[r].amount

(* Nothing is given back of an intent that was not taken.                  *)
StripeInv ==
  /\ \A r \in Refunds : refund[r] # "none" => intent = "taken"
  /\ \A total \in totals : total # 0 => intent = "taken"
  /\ charged # 0 => intent = "taken"
  /\ payment.refunded # 0 => intent = "taken"
  /\ payment.status \in {"captured", "refunded"} => intent = "taken"

MoverInv ==
  \A r \in Refunds :
    /\ mover[r] # "none" => attempt[r].status # "none"
    /\ mover[r] = "request" => attempt[r].amount < Threshold

IInv ==
  /\ TypeOK /\ ProcsInv /\ OneDecision /\ AttemptsInv /\ StripeInv /\ MoverInv
  /\ LedgerMatchesAttempts /\ StatusIsExplained

-----------------------------------------------------------------------------
(* What no step undoes.                                                    *)
Keeps ==
  /\ \A r \in Refunds :
       /\ attempt[r].status # "none" =>
            /\ attempt'[r].status # "none" /\ attempt'[r].amount = attempt[r].amount
            /\ attempt[r].kind = "refund" => attempt'[r].kind = "refund"
            /\ attempt[r].kind = "void" /\ attempt'[r].kind = "refund" => intent' = "taken"
       /\ attempt[r].status = "succeeded" => attempt'[r] = attempt[r]
  /\ intent # "held" => intent' = intent

(* Only p's own step changes what p is doing.                              *)
OnlyMoves(p) == \A q \in Procs : q # p => proc'[q] = proc[q]

(* A decision that begins finds no other, and a queued approval stays      *)
(* queued while a decision of another process runs.                        *)
DecidesAlone(p) ==
  /\ proc'[p].op = "decide" /\ (proc[p].op # "decide" \/ proc'[p].of # proc[p].of)
       => ~ ApprovalLocked(proc'[p].of)
  /\ \A q \in Procs : q # p /\ proc[q].op = "decide" =>
       approval'[proc[q].of] = approval[proc[q].of]

LEMMA ProcTypes ==
  ASSUME TypeOK
  PROVE  /\ proc \in [Procs -> ProcRec]
         /\ attempt \in [Refunds -> AttemptRec]
         /\ payment \in PaymentRec
  BY DEF TypeOK, ProcRec, AttemptRec, PaymentRec

LEMMA IdleTyped == Idle \in ProcRec
  BY RefundAssumption DEF Idle, ProcRec, UpToAmount, RefundStates

(* A process that does not move keeps what ties it to the rows.            *)
LEMMA OtherKeeps ==
  ASSUME TypeOK, NEW q \in Procs, ProcInv(q), Keeps, proc'[q] = proc[q],
         proc[q].op = "decide" => approval'[proc[q].of] = approval[proc[q].of],
         TypeOK'
  PROVE  ProcInv(q)'
<1> DEFINE r == proc[q].of
<1>1. proc[q].at # "none" => r \in Refunds
  BY DEF ProcInv
<1>2. Asking(q) => r \in Refunds
  BY <1>1 DEF Asking
<1>3. Asking(q)' = Asking(q)
  BY DEF Asking
<1>4. Asking(q)' /\ proc[q].kind = "void" /\ attempt'[r].kind = "refund" => intent' = "taken"
  <2> SUFFICES ASSUME Asking(q), proc[q].kind = "void", attempt'[r].kind = "refund"
               PROVE  intent' = "taken"
    BY <1>3
  <2>1. attempt[r].status # "none" /\ attempt[r].kind \in {"refund", "void"}
    BY <1>2, ProcTypes DEF ProcInv, AttemptRec
  <2> QED BY <1>2, <2>1 DEF Keeps, ProcInv
<1>5. proc[q].at = "resolve" => attempt'[r].status = "succeeded"
  BY <1>1 DEF ProcInv, Keeps
<1>6. Asking(q) => /\ attempt'[r].status # "none" /\ attempt'[r].amount = attempt[r].amount
                   /\ attempt[r].kind = "refund" => attempt'[r].kind = "refund"
  BY <1>2 DEF ProcInv, Keeps
<1>7. intent = "taken" => intent' = "taken"
  BY DEF Keeps
<1>8. proc[q].at = "settle" /\ proc[q].kind = "void" => intent' = proc[q].answer
  BY DEF ProcInv, Keeps
<1> QED
  BY <1>1, <1>3, <1>4, <1>5, <1>6, <1>7, <1>8 DEF ProcInv, Asking

(* One process moves: it is enough to look at that one.                    *)
LEMMA OneMoves ==
  ASSUME TypeOK, TypeOK', ProcsInv, OneDecision, NEW p \in Procs,
         OnlyMoves(p), Keeps, DecidesAlone(p), ProcInv(p)'
  PROVE  ProcsInv' /\ OneDecision'
<1>1. ASSUME NEW q \in Procs, q # p
      PROVE  ProcInv(q)'
  BY <1>1, OtherKeeps DEF ProcsInv, OnlyMoves, DecidesAlone
<1>2. ProcsInv'
  BY <1>1 DEF ProcsInv
<1>3. ASSUME NEW q \in Procs, q # p, proc'[p].op = "decide", proc'[q].op = "decide",
             proc'[p].of = proc'[q].of
      PROVE  FALSE
  <2>1. proc[q].op = "decide" /\ proc[q].of = proc'[p].of
    BY <1>3 DEF OnlyMoves
  <2>2. ApprovalLocked(proc'[p].of)
    BY <2>1 DEF ApprovalLocked
  <2>3. proc[p].op = "decide" /\ proc'[p].of = proc[p].of
    BY <1>3, <2>2 DEF DecidesAlone
  <2> QED BY <1>3, <2>1, <2>3 DEF OneDecision
<1>4. OneDecision'
  <2> SUFFICES ASSUME NEW a \in Procs, NEW b \in Procs, a # b, proc'[a].op = "decide",
                      proc'[b].op = "decide", proc'[a].of = proc'[b].of
               PROVE  FALSE
    BY DEF OneDecision
  <2>1. CASE a = p
    BY <2>1, <1>3
  <2>2. CASE b = p
    BY <2>2, <1>3
  <2>3. CASE a # p /\ b # p
    BY <2>3 DEF OnlyMoves, OneDecision
  <2> QED BY <2>1, <2>2, <2>3
<1> QED BY <1>2, <1>4

(* No process moves.                                                       *)
LEMMA NoneMoves ==
  ASSUME TypeOK, TypeOK', ProcsInv, OneDecision, Keeps, proc' = proc,
         \A q \in Procs : proc[q].op = "decide" =>
           approval'[proc[q].of] = approval[proc[q].of]
  PROVE  ProcsInv' /\ OneDecision'
<1>1. ASSUME NEW q \in Procs
      PROVE  ProcInv(q)'
  BY <1>1, OtherKeeps DEF ProcsInv
<1> QED BY <1>1 DEF ProcsInv, OneDecision

-----------------------------------------------------------------------------
(* An error ends what the process was doing.                               *)
LEMMA AbortProc ==
  ASSUME TypeOK, NEW p \in Procs, ProcInv(p), proc[p].op # "none", Abort(p),
         intent = "taken" => intent' = "taken"
  PROVE  /\ proc' \in [Procs -> ProcRec]
         /\ OnlyMoves(p)
         /\ proc'[p].op # "decide"
         /\ ProcInv(p)'
<1>1. CASE proc[p].op = "sweep"
  <2>1. proc' = [proc EXCEPT ![p] = [proc[p] EXCEPT !.at = "giveup"]]
    BY <1>1 DEF Abort
  <2>2. [proc[p] EXCEPT !.at = "giveup"] \in ProcRec
    BY ProcTypes DEF ProcRec, Stages
  <2>3. /\ proc'[p].op = "sweep" /\ proc'[p].at = "giveup"
        /\ proc'[p].of = proc[p].of /\ proc'[p].total = proc[p].total
    BY <1>1, <2>1, ProcTypes DEF ProcRec
  <2>4. proc[p].total # 0 => intent' = "taken"
    BY DEF ProcInv
  <2>5. proc[p].at # "none" => proc[p].of \in Refunds
    BY DEF ProcInv
  <2>6. QED
    BY <2>1, <2>2, <2>3, <2>4, <2>5, ProcTypes DEF OnlyMoves, ProcInv, Asking
<1>2. CASE proc[p].op # "sweep"
  <2>1. proc' = [proc EXCEPT ![p] = Idle]
    BY <1>2 DEF Abort
  <2>2. proc'[p] = Idle
    BY <2>1, ProcTypes
  <2> QED BY <2>1, <2>2, ProcTypes, IdleTyped DEF OnlyMoves, ProcInv, Asking, Idle
<1> QED BY <1>1, <1>2

(* Steps that touch neither a row nor Stripe.                              *)
LEMMA ReadsOnly ==
  ASSUME IInv, UNCHANGED <<rows, stripe, mover>>, faults' \in 0 .. MaxFaults,
         NEW p \in Procs, proc' \in [Procs -> ProcRec], OnlyMoves(p), ProcInv(p)',
         proc'[p].op = "decide" /\ (proc[p].op # "decide" \/ proc'[p].of # proc[p].of)
           => ~ ApprovalLocked(proc'[p].of)
  PROVE  IInv'
<1>1. TypeOK'
  BY DEF IInv, TypeOK, ProcRec, rows, stripe
<1>2. Keeps
  BY RefundAssumption DEF Keeps, rows, stripe, IInv, TypeOK
<1>3. DecidesAlone(p)
  BY DEF DecidesAlone, rows
<1>4. ProcsInv' /\ OneDecision'
  BY <1>1, <1>2, <1>3, OneMoves DEF IInv
<1>5. AttemptsInv' /\ StripeInv' /\ MoverInv'
  BY DEF IInv, AttemptsInv, StripeInv, MoverInv, rows, stripe
<1>6. LedgerMatchesAttempts' /\ StatusIsExplained'
  BY DEF IInv, LedgerMatchesAttempts, StatusIsExplained, rows, stripe
<1> QED BY <1>1, <1>4, <1>5, <1>6 DEF IInv

-----------------------------------------------------------------------------
(* The steps of that kind, one lemma each.                                 *)
LEMMA RequestStep ==
  ASSUME IInv, NEW p \in Handlers, NEW r \in Refunds, Request(p, r)
  PROVE  IInv'
<1> DEFINE me == [Idle EXCEPT !.op = "request", !.of = r,
                    !.at = IF r \in DisputeRefunds THEN "dispute" ELSE "reserve"]
<1>1. p \in Procs /\ proc' = [proc EXCEPT ![p] = me]
  BY DEF Request, Procs
<1>2. me \in ProcRec /\ me.op = "request" /\ me.of = r /\ me.total = 0
        /\ me.at \in {"dispute", "reserve"}
  BY IdleTyped DEF ProcRec, Ops, Stages, Idle
<1>3. proc' \in [Procs -> ProcRec] /\ OnlyMoves(p) /\ proc'[p] = me
  BY <1>1, <1>2, ProcTypes DEF OnlyMoves, IInv
<1>4. ProcInv(p)'
  BY <1>2, <1>3 DEF ProcInv, Asking
<1>5. UNCHANGED <<rows, stripe, mover>> /\ faults' \in 0 .. MaxFaults
  BY DEF Request, IInv, TypeOK
<1> QED BY <1>1, <1>2, <1>3, <1>4, <1>5, ReadsOnly

LEMMA ApproveStep ==
  ASSUME IInv, NEW p \in Handlers, NEW r \in Refunds, Approve(p, r)
  PROVE  IInv'
<1> DEFINE me == [Idle EXCEPT !.op = "decide", !.of = r,
                    !.at = IF r \in DisputeRefunds THEN "dispute" ELSE "reserve"]
<1>1. p \in Procs /\ proc' = [proc EXCEPT ![p] = me]
  BY DEF Approve, Procs
<1>2. me \in ProcRec /\ me.op = "decide" /\ me.of = r /\ me.total = 0
        /\ me.at \in {"dispute", "reserve"}
  BY IdleTyped DEF ProcRec, Ops, Stages, Idle
<1>3. proc' \in [Procs -> ProcRec] /\ OnlyMoves(p) /\ proc'[p] = me
  BY <1>1, <1>2, ProcTypes DEF OnlyMoves, IInv
<1>4. UNCHANGED <<rows, stripe, mover>> /\ faults' \in 0 .. MaxFaults
  BY DEF Approve, IInv, TypeOK
<1>5. ProcInv(p)'
  BY <1>2, <1>3, <1>4 DEF ProcInv, Asking, Approve, rows
<1>6. ~ ApprovalLocked(proc'[p].of)
  BY <1>2, <1>3 DEF Approve
<1> QED BY <1>1, <1>3, <1>4, <1>5, <1>6, ReadsOnly

LEMMA LockDisputeStep ==
  ASSUME IInv, NEW p \in Procs, LockDispute(p)
  PROVE  IInv'
<1>1. ProcInv(p) /\ proc[p].at = "dispute" /\ proc[p].op # "none"
        /\ UNCHANGED <<rows, stripe, mover>> /\ faults' \in 0 .. MaxFaults
  BY DEF LockDispute, IInv, ProcsInv, ProcInv, TypeOK
<1>2. intent' = intent
  BY <1>1 DEF stripe
<1>3. CASE Abort(p)
  BY <1>1, <1>2, <1>3, AbortProc, ReadsOnly DEF IInv
<1>4. CASE Goto(p, "reserve")
  <2>1. proc' = [proc EXCEPT ![p] = [proc[p] EXCEPT !.at = "reserve"]]
    BY <1>4, ProcTypes DEF Goto, IInv, ProcRec
  <2>2. [proc[p] EXCEPT !.at = "reserve"] \in ProcRec
    BY ProcTypes DEF ProcRec, Stages, IInv
  <2>3. proc' \in [Procs -> ProcRec] /\ OnlyMoves(p)
    BY <2>1, <2>2, ProcTypes DEF OnlyMoves, IInv
  <2>4. /\ proc'[p].at = "reserve" /\ proc'[p].op = proc[p].op
        /\ proc'[p].of = proc[p].of /\ proc'[p].total = proc[p].total
    BY <2>1, ProcTypes DEF ProcRec, IInv
  <2>5. ProcInv(p)'
    BY <1>1, <1>2, <2>4 DEF ProcInv, Asking, rows
  <2> QED BY <1>1, <2>3, <2>4, <2>5, ReadsOnly
<1> QED BY <1>3, <1>4 DEF LockDispute

LEMMA FindsMovedStep ==
  ASSUME IInv, NEW p \in Procs, FindsMoved(p)
  PROVE  IInv'
<1> DEFINE me == proc[p]
           seen == Seen(me)
           next == IF me.kind = "refund" /\ seen = "succeeded" THEN "charge" ELSE "settle"
<1>1. /\ ProcInv(p) /\ me.at = "provider" /\ me.op # "none" /\ me.of \in Refunds
      /\ me \in ProcRec /\ seen \notin {"held", "none"}
      /\ UNCHANGED <<rows, stripe, mover>> /\ faults' \in 0 .. MaxFaults
  BY ProcTypes DEF FindsMoved, IInv, ProcsInv, ProcInv, TypeOK
<1>2. /\ me.kind = "void" => seen \in {"taken", "canceled"} /\ seen = intent
      /\ me.kind = "refund" => seen \in {"pending", "succeeded", "failed"}
  BY <1>1 DEF Seen, IInv, TypeOK, RefundStates
<1>3. proc' = [proc EXCEPT ![p] = [me EXCEPT !.answer = seen, !.at = next]]
  BY ProcTypes DEF FindsMoved, IInv, ProcRec
<1>4. me.kind \in {"void", "refund"}
  BY <1>1 DEF ProcRec
<1>5. [me EXCEPT !.answer = seen, !.at = next] \in ProcRec
  BY <1>1, <1>2, <1>4 DEF ProcRec, Stages, RefundStates
<1>6. proc' \in [Procs -> ProcRec] /\ OnlyMoves(p)
  BY <1>3, <1>5, ProcTypes DEF OnlyMoves, IInv
<1>7. /\ proc'[p].at = next /\ proc'[p].op = me.op /\ proc'[p].answer = seen
      /\ proc'[p].of = me.of /\ proc'[p].total = me.total /\ proc'[p].kind = me.kind
  BY <1>1, <1>3, ProcTypes DEF ProcRec, IInv
<1>8. intent' = intent /\ attempt' = attempt /\ approval' = approval
  BY <1>1 DEF stripe, rows
<1>9. ProcInv(p)'
  BY <1>1, <1>2, <1>4, <1>7, <1>8 DEF ProcInv, Asking
<1> QED BY <1>1, <1>6, <1>7, <1>9, ReadsOnly

LEMMA ReadTotalStep ==
  ASSUME IInv, NEW p \in Procs, ReadTotal(p)
  PROVE  IInv'
<1>1. /\ ProcInv(p) /\ proc[p].at = "charge" /\ proc[p].op # "none"
      /\ proc[p].of \in Refunds /\ proc[p] \in ProcRec
      /\ UNCHANGED <<rows, stripe, mover>> /\ faults' \in 0 .. MaxFaults
  BY ProcTypes DEF ReadTotal, IInv, ProcsInv, ProcInv, TypeOK
<1>2. intent' = intent /\ attempt' = attempt /\ approval' = approval
  BY <1>1 DEF stripe, rows
<1>3. CASE Abort(p)
  BY <1>1, <1>2, <1>3, AbortProc, ReadsOnly DEF IInv
<1>4. CASE /\ charged >= attempt[proc[p].of].amount
           /\ proc' = [proc EXCEPT ![p].total = charged, ![p].at = "settle"]
  <2>1. proc' = [proc EXCEPT ![p] = [proc[p] EXCEPT !.total = charged, !.at = "settle"]]
    BY <1>4, ProcTypes DEF IInv, ProcRec
  <2>2. [proc[p] EXCEPT !.total = charged, !.at = "settle"] \in ProcRec
    BY <1>1 DEF ProcRec, Stages, IInv, TypeOK
  <2>3. proc' \in [Procs -> ProcRec] /\ OnlyMoves(p)
    BY <2>1, <2>2, ProcTypes DEF OnlyMoves, IInv
  <2>4. /\ proc'[p].at = "settle" /\ proc'[p].op = proc[p].op
        /\ proc'[p].of = proc[p].of /\ proc'[p].total = charged
        /\ proc'[p].kind = proc[p].kind /\ proc'[p].answer = proc[p].answer
    BY <1>1, <2>1, ProcTypes DEF ProcRec, IInv
  <2>5. charged # 0 => intent = "taken"
    BY DEF IInv, StripeInv
  <2>6. ProcInv(p)'
    BY <1>1, <1>2, <1>4, <2>4, <2>5 DEF ProcInv, Asking
  <2> QED BY <1>1, <2>3, <2>4, <2>6, ReadsOnly
<1>5. charged \in Int /\ attempt[proc[p].of].amount \in Int
  BY <1>1, ProcTypes DEF IInv, TypeOK, UpToAmount, AttemptRec
<1> QED BY <1>3, <1>4, <1>5 DEF ReadTotal

LEMMA FailureSteps ==
  ASSUME IInv, NEW p \in Procs,
         Refused(p) \/ Fails(p) \/ Dies(p) \/ StatementTimeout(p)
  PROVE  IInv'
<1>1. faults' \in 0 .. MaxFaults /\ UNCHANGED <<rows, stripe, mover>> /\ ProcInv(p)
  BY RefundAssumption DEF Refused, Fails, Dies, StatementTimeout, Fault, IInv, TypeOK, ProcsInv
<1>2. proc[p] # Idle /\ intent' = intent
  BY <1>1 DEF Refused, Fails, Dies, StatementTimeout, Waiting, Idle, stripe
<1>3. CASE Abort(p) /\ proc[p].op # "none"
  BY <1>1, <1>2, <1>3, AbortProc, ReadsOnly DEF IInv
<1>4. CASE proc' = [proc EXCEPT ![p] = Idle]
  <2>1. proc' \in [Procs -> ProcRec] /\ OnlyMoves(p) /\ proc'[p] = Idle
    BY <1>4, ProcTypes, IdleTyped DEF OnlyMoves, IInv
  <2>2. ProcInv(p)' /\ proc'[p].op # "decide"
    BY <2>1 DEF ProcInv, Asking, Idle
  <2> QED BY <1>1, <2>1, <2>2, ReadsOnly
<1>5. proc[p].op = "none" /\ Abort(p) => proc' = [proc EXCEPT ![p] = Idle]
  BY DEF Abort
<1> QED BY <1>3, <1>4, <1>5 DEF Refused, Fails, Dies, StatementTimeout

(* A lost transaction changes nothing but what the process still holds.    *)
LEMMA OrphanProc ==
  ASSUME TypeOK, NEW p \in Procs, IdleTimeout(p)
  PROVE  \E new \in ProcRec :
           /\ proc' = [proc EXCEPT ![p] = new]
           /\ new.op = "orphan" /\ new.at = proc[p].at /\ new.of = proc[p].of
           /\ new.kind = proc[p].kind /\ new.answer = proc[p].answer
           /\ new.total = proc[p].total
<1> DEFINE new == [proc[p] EXCEPT !.op = "orphan"]
<1>1. proc[p] \in ProcRec /\ proc' = [proc EXCEPT ![p] = new]
  BY ProcTypes DEF IdleTimeout
<1>2. /\ new \in ProcRec
      /\ new.op = "orphan" /\ new.at = proc[p].at /\ new.of = proc[p].of
      /\ new.kind = proc[p].kind /\ new.answer = proc[p].answer
      /\ new.total = proc[p].total
  BY <1>1 DEF ProcRec, Ops
<1> HIDE DEF new
<1> QED BY <1>1, <1>2

LEMMA IdleTimeoutStep ==
  ASSUME IInv, NEW p \in Procs, IdleTimeout(p)
  PROVE  IInv'
<1>1. PICK new \in ProcRec :
        /\ proc' = [proc EXCEPT ![p] = new]
        /\ new.op = "orphan" /\ new.at = proc[p].at /\ new.of = proc[p].of
        /\ new.kind = proc[p].kind /\ new.answer = proc[p].answer
        /\ new.total = proc[p].total
  BY OrphanProc DEF IInv
<1>2. /\ ProcInv(p) /\ proc[p].at \in {"provider", "charge"} /\ proc[p].op # "none"
      /\ UNCHANGED <<rows, stripe, mover>> /\ faults' \in 0 .. MaxFaults
  BY RefundAssumption DEF IdleTimeout, Fault, IInv, TypeOK, ProcsInv, ProcInv
<1>3. proc' \in [Procs -> ProcRec] /\ OnlyMoves(p) /\ proc'[p] = new
  BY <1>1, ProcTypes DEF OnlyMoves, IInv
<1>4. intent' = intent /\ attempt' = attempt /\ approval' = approval
  BY <1>2 DEF rows, stripe
<1>5. ProcInv(p)'
  BY <1>1, <1>2, <1>3, <1>4 DEF ProcInv, Asking
<1> QED BY <1>1, <1>2, <1>3, <1>5, ReadsOnly
-----------------------------------------------------------------------------
(* The parties and Stripe's webhooks: no process moves, no attempt changes. *)
LEMMA AttemptsStay ==
  ASSUME IInv, UNCHANGED <<attempt, approval, ledger, proc, mover>>, TypeOK',
         intent # "held" => intent' = intent,
         payment'.refunded >= payment.refunded, StripeInv', StatusIsExplained'
  PROVE  IInv'
<1>1. Keeps
  BY ProcTypes DEF Keeps, IInv
<1>2. ProcsInv' /\ OneDecision'
  BY <1>1, NoneMoves DEF IInv
<1>3. AttemptsInv'
  <2>1. /\ payment.refunded \in Int /\ payment'.refunded \in Int
        /\ \A r \in Refunds : attempt[r].amount \in Int
    BY ProcTypes, RefundAssumption DEF IInv, TypeOK, PaymentRec, AttemptRec
  <2> QED BY <2>1 DEF IInv, AttemptsInv
<1>4. MoverInv' /\ LedgerMatchesAttempts'
  BY DEF IInv, MoverInv, LedgerMatchesAttempts
<1> QED BY <1>2, <1>3, <1>4 DEF IInv

LEMMA RejectStep ==
  ASSUME IInv, NEW r \in Refunds, Reject(r)
  PROVE  IInv'
<1>1. TypeOK'
  BY DEF Reject, IInv, TypeOK, stripe
<1>2. Keeps
  BY ProcTypes DEF Keeps, Reject, IInv, stripe
<1>3. ASSUME NEW q \in Procs, proc[q].op = "decide"
      PROVE  approval'[proc[q].of] = approval[proc[q].of]
  BY <1>3 DEF Reject, ApprovalLocked, IInv, TypeOK
<1>4. ProcsInv' /\ OneDecision'
  BY <1>1, <1>2, <1>3, NoneMoves DEF IInv, Reject
<1>5. AttemptsInv' /\ StripeInv' /\ MoverInv'
  BY DEF Reject, IInv, AttemptsInv, StripeInv, MoverInv, stripe
<1>6. LedgerMatchesAttempts' /\ StatusIsExplained'
  BY DEF Reject, IInv, LedgerMatchesAttempts, StatusIsExplained, stripe
<1> QED BY <1>1, <1>4, <1>5, <1>6 DEF IInv

LEMMA PartySteps ==
  ASSUME IInv, OpenDispute \/ ResolveWithoutRefund
  PROVE  IInv'
<1>1. /\ UNCHANGED <<attempt, approval, ledger, stripe, proc, mover, faults>>
      /\ dispute' \in {"open", "resolved"}
      /\ payment' \in PaymentRec
      /\ payment'.status = payment.status /\ payment'.refunded = payment.refunded
  <2>1. PICK now \in BOOLEAN : payment' = [payment EXCEPT !.disputed = now]
    <3>1. CASE OpenDispute
      <4> DEFINE now == payment.status \in {"authorized", "captured"}
      <4>1. payment' = [payment EXCEPT !.disputed = now]
        BY <3>1 DEF OpenDispute
      <4>2. now \in BOOLEAN
        OBVIOUS
      <4> QED BY <4>1, <4>2
    <3>2. CASE ResolveWithoutRefund
      BY <3>2 DEF ResolveWithoutRefund
    <3> QED BY <3>1, <3>2
  <2>2. payment \in PaymentRec
    BY ProcTypes DEF IInv
  <2>3. payment' \in PaymentRec /\ payment'.status = payment.status
          /\ payment'.refunded = payment.refunded
    BY <2>1, <2>2 DEF PaymentRec
  <2> QED BY <2>3 DEF OpenDispute, ResolveWithoutRefund
<1>2. TypeOK'
  BY <1>1 DEF IInv, TypeOK, PaymentRec, stripe
<1>3. StripeInv' /\ StatusIsExplained'
  BY <1>1 DEF IInv, StripeInv, StatusIsExplained, stripe
<1>4. payment'.refunded >= payment.refunded
  BY <1>1, ProcTypes, RefundAssumption DEF IInv, PaymentRec
<1> QED BY <1>1, <1>2, <1>3, <1>4, AttemptsStay DEF stripe

LEMMA CaptureSteps ==
  ASSUME IInv, Capture \/ RecordCapture
  PROVE  IInv'
<1>1. payment \in PaymentRec /\ payment.refunded >= payment.refunded
  BY ProcTypes, RefundAssumption DEF IInv, PaymentRec
<1>2. CASE Capture
  <2>1. TypeOK'
    BY <1>2 DEF Capture, IInv, TypeOK, rows
  <2>2. StripeInv'
    BY <1>2 DEF Capture, IInv, StripeInv, rows
  <2>3. StatusIsExplained'
    BY <1>2 DEF Capture, IInv, StatusIsExplained, rows
  <2> QED BY <1>1, <1>2, <2>1, <2>2, <2>3, AttemptsStay DEF Capture, rows
<1>3. CASE RecordCapture
  <2>1. /\ payment' \in PaymentRec /\ payment'.status = "captured"
        /\ payment'.refunded = payment.refunded
        /\ intent = "taken" /\ UNCHANGED <<dispute, attempt, approval, ledger, stripe,
                                           proc, mover, faults>>
    BY <1>1, <1>3 DEF RecordCapture, PaymentRec
  <2>2. TypeOK'
    BY <2>1 DEF IInv, TypeOK, PaymentRec, stripe
  <2>3. StripeInv' /\ StatusIsExplained'
    BY <2>1 DEF IInv, StripeInv, StatusIsExplained, stripe
  <2> QED BY <1>1, <2>1, <2>2, <2>3, AttemptsStay DEF stripe
<1> QED BY <1>2, <1>3

LEMMA WebhookSteps ==
  ASSUME IInv, CanceledWebhook \/ RefundedWebhook
  PROVE  IInv'
<1>1. payment \in PaymentRec /\ payment.refunded \in Int
  BY ProcTypes, RefundAssumption DEF IInv, PaymentRec
<1>2. CASE CanceledWebhook
  <2>1. /\ payment' \in PaymentRec /\ payment'.status = "canceled"
        /\ payment'.refunded = payment.refunded
        /\ intent = "canceled" /\ UNCHANGED <<dispute, attempt, approval, ledger, stripe,
                                           proc, mover, faults>>
    BY <1>1, <1>2 DEF CanceledWebhook, PaymentRec
  <2>2. TypeOK'
    BY <2>1 DEF IInv, TypeOK, PaymentRec, stripe
  <2>3. StripeInv' /\ StatusIsExplained'
    BY <2>1 DEF IInv, StripeInv, StatusIsExplained, stripe
  <2> QED BY <1>1, <2>1, <2>2, <2>3, AttemptsStay DEF stripe
<1>3. CASE RefundedWebhook
  <2>1. PICK total \in totals \ {0} :
          /\ payment' = [payment EXCEPT !.refunded = LargerOf(@, total),
                                  !.status = IF total = Amount THEN "refunded" ELSE @]
          /\ UNCHANGED <<dispute, attempt, approval, ledger, stripe, proc, mover, faults>>
    BY <1>3 DEF RefundedWebhook
  <2>2. total \in Int /\ total <= Amount /\ intent = "taken" /\ Amount \in Nat
    BY <2>1, RefundAssumption DEF IInv, TypeOK, UpToAmount, StripeInv
  <2>3. payment.refunded \in 0 .. Amount
    BY <1>1 DEF PaymentRec
  <2>4. /\ LargerOf(payment.refunded, total) \in 0 .. Amount
        /\ LargerOf(payment.refunded, total) >= payment.refunded
        /\ total = Amount => LargerOf(payment.refunded, total) = Amount
    BY <2>2, <2>3 DEF LargerOf
  <2>5. /\ payment' \in PaymentRec
        /\ payment'.refunded = LargerOf(payment.refunded, total)
        /\ payment'.status = IF total = Amount THEN "refunded" ELSE payment.status
    BY <1>1, <2>1, <2>4 DEF PaymentRec
  <2>6. TypeOK'
    BY <2>1, <2>5 DEF IInv, TypeOK, PaymentRec, stripe
  <2>7. StripeInv'
    BY <2>1, <2>2, <2>5 DEF IInv, StripeInv, stripe
  <2>8. payment'.status = "refunded" => payment'.refunded = Amount
    BY <1>1, <2>2, <2>3, <2>4, <2>5 DEF IInv, StatusIsExplained
  <2>9. StatusIsExplained'
    BY <2>1, <2>2, <2>5, <2>8 DEF IInv, StatusIsExplained, stripe
  <2> QED BY <2>1, <2>4, <2>5, <2>6, <2>7, <2>9, AttemptsStay DEF stripe
<1> QED BY <1>2, <1>3

LEMMA RefundEndsStep ==
  ASSUME IInv, NEW r \in Refunds, RefundEnds(r)
  PROVE  IInv'
<1>1. PICK end \in {"succeeded", "failed"} :
        /\ refund' = [refund EXCEPT ![r] = end]
        /\ charged' = IF end = "failed" THEN charged - attempt[r].amount ELSE charged
  BY DEF RefundEnds
<1>2. intent = "taken" /\ UNCHANGED <<rows, intent, first, proc, mover, faults>>
        /\ totals' = totals \cup {charged'}
  BY DEF RefundEnds, IInv, StripeInv
<1>3. charged' \in UpToAmount
  BY <1>1, ProcTypes, RefundAssumption DEF IInv, TypeOK, AttemptRec, UpToAmount
<1>4. TypeOK'
  BY <1>1, <1>2, <1>3 DEF IInv, TypeOK, RefundStates, rows
<1>5. StripeInv'
  BY <1>1, <1>2 DEF IInv, StripeInv, rows
<1>6. StatusIsExplained'
  BY <1>2 DEF IInv, StatusIsExplained, rows
<1>7. payment'.refunded >= payment.refunded
  BY <1>2, ProcTypes, RefundAssumption DEF IInv, PaymentRec, rows
<1> QED BY <1>2, <1>4, <1>5, <1>6, <1>7, AttemptsStay DEF rows
-----------------------------------------------------------------------------
(* One process moves and rows change.                                      *)
LEMMA EndsProc ==
  ASSUME TypeOK, NEW p \in Procs, proc' = [proc EXCEPT ![p] = Idle]
  PROVE  /\ proc' \in [Procs -> ProcRec] /\ OnlyMoves(p) /\ proc'[p] = Idle
         /\ ProcInv(p)' /\ proc'[p].op # "decide"
<1>1. proc' \in [Procs -> ProcRec] /\ OnlyMoves(p) /\ proc'[p] = Idle
  BY ProcTypes, IdleTyped DEF OnlyMoves
<1> QED BY <1>1 DEF ProcInv, Asking, Idle

LEMMA SweepStep ==
  ASSUME IInv, NEW r \in Refunds, Sweep(r)
  PROVE  IInv'
<1> DEFINE tries == IF attempt[r].tries < MaxTries THEN attempt[r].tries + 1
                                                 ELSE attempt[r].tries
           me == [Idle EXCEPT !.op = "sweep", !.of = r, !.at = "provider",
                    !.kind = attempt[r].kind, !.known = attempt[r].known]
<1>1. /\ Sweeper \in Procs /\ proc[Sweeper] = Idle /\ attempt[r].status = "pending"
      /\ attempt \in [Refunds -> AttemptRec]
      /\ UNCHANGED <<payment, dispute, approval, ledger, stripe, mover, faults>>
  BY ProcTypes DEF Sweep, Procs, IInv
<1>2. attempt' = [attempt EXCEPT ![r] = [attempt[r] EXCEPT !.tries = tries]]
  BY <1>1 DEF Sweep, AttemptRec
<1>3. [attempt[r] EXCEPT !.tries = tries] \in AttemptRec
  BY <1>1, RefundAssumption DEF AttemptRec
<1>4. /\ attempt' \in [Refunds -> AttemptRec]
      /\ \A s \in Refunds :
           /\ attempt'[s].status = attempt[s].status /\ attempt'[s].kind = attempt[s].kind
           /\ attempt'[s].amount = attempt[s].amount /\ attempt'[s].known = attempt[s].known
           /\ s # r => attempt'[s] = attempt[s]
  BY <1>1, <1>2, <1>3 DEF AttemptRec
<1>5. proc' = [proc EXCEPT ![Sweeper] = me]
  BY DEF Sweep
<1>6. me \in ProcRec /\ me.op = "sweep" /\ me.of = r /\ me.total = 0
        /\ me.at = "provider" /\ me.kind = attempt[r].kind
  BY <1>1, IdleTyped DEF ProcRec, Ops, Stages, Idle, AttemptRec
<1>7. proc' \in [Procs -> ProcRec] /\ OnlyMoves(Sweeper) /\ proc'[Sweeper] = me
  BY <1>1, <1>5, <1>6, ProcTypes DEF OnlyMoves, IInv
<1>8. TypeOK'
  BY <1>1, <1>4, <1>7 DEF IInv, TypeOK, AttemptRec, ProcRec, stripe
<1>9. Keeps
  BY <1>1, <1>4 DEF Keeps, stripe, AttemptRec
<1>10. ProcInv(Sweeper)'
  BY <1>1, <1>4, <1>6, <1>7 DEF ProcInv, Asking
<1>11. DecidesAlone(Sweeper)
  BY <1>1, <1>6, <1>7 DEF DecidesAlone
<1>12. ProcsInv' /\ OneDecision'
  BY <1>1, <1>7, <1>8, <1>9, <1>10, <1>11, OneMoves DEF IInv
<1>13. AttemptsInv' /\ StripeInv' /\ MoverInv'
  BY <1>1, <1>4 DEF IInv, AttemptsInv, StripeInv, MoverInv, stripe
<1>14. LedgerMatchesAttempts' /\ StatusIsExplained'
  BY <1>1, <1>4 DEF IInv, LedgerMatchesAttempts, StatusIsExplained, stripe
<1> QED BY <1>8, <1>12, <1>13, <1>14 DEF IInv

LEMMA GiveUpStep ==
  ASSUME IInv, GiveUp
  PROVE  IInv'
<1> DEFINE r == proc[Sweeper].of
           now == IF attempt[r].status = "pending" /\ attempt[r].tries = MaxTries
                    THEN "failed" ELSE attempt[r].status
<1>1. /\ Sweeper \in Procs /\ r \in Refunds /\ attempt \in [Refunds -> AttemptRec]
      /\ UNCHANGED <<payment, dispute, approval, ledger, stripe, mover, faults>>
      /\ proc' = [proc EXCEPT ![Sweeper] = Idle]
  BY ProcTypes DEF GiveUp, Procs, IInv, ProcsInv, ProcInv
<1>2. attempt' = [attempt EXCEPT ![r] = [attempt[r] EXCEPT !.status = now]]
  BY <1>1 DEF GiveUp, AttemptRec
<1>3. [attempt[r] EXCEPT !.status = now] \in AttemptRec
  BY <1>1 DEF AttemptRec, RefundStates
<1>4. /\ attempt' \in [Refunds -> AttemptRec]
      /\ attempt'[r].status = now
      /\ attempt[r].status \in {"none", "succeeded"} => attempt'[r] = attempt[r]
      /\ \A s \in Refunds :
           /\ attempt'[s].kind = attempt[s].kind
           /\ attempt'[s].amount = attempt[s].amount /\ attempt'[s].known = attempt[s].known
           /\ s # r => attempt'[s] = attempt[s]
  BY <1>1, <1>2, <1>3 DEF AttemptRec
<1>5. OnlyMoves(Sweeper) /\ ProcInv(Sweeper)' /\ proc' \in [Procs -> ProcRec]
        /\ proc'[Sweeper].op # "decide"
  BY <1>1, EndsProc DEF IInv
<1>6. TypeOK'
  BY <1>1, <1>4, <1>5 DEF IInv, TypeOK, AttemptRec, ProcRec, stripe
<1>7. Keeps
  BY <1>1, <1>4 DEF Keeps, stripe, AttemptRec
<1>8. DecidesAlone(Sweeper)
  BY <1>1, <1>5 DEF DecidesAlone
<1>9. ProcsInv' /\ OneDecision'
  BY <1>1, <1>5, <1>6, <1>7, <1>8, OneMoves DEF IInv
<1>10. AttemptsInv' /\ StripeInv' /\ MoverInv'
  BY <1>1, <1>4 DEF IInv, AttemptsInv, StripeInv, MoverInv, stripe
<1>11. LedgerMatchesAttempts' /\ StatusIsExplained'
  BY <1>1, <1>4 DEF IInv, LedgerMatchesAttempts, StatusIsExplained, stripe
<1> QED BY <1>6, <1>9, <1>10, <1>11 DEF IInv

(* Steps on an approval's row.                                             *)
LEMMA DecisionRows ==
  ASSUME IInv, NEW p \in Procs, NEW r \in Refunds, NEW now \in {"pending", "rejected", "executed"},
         approval' = [approval EXCEPT ![r] = now],
         proc' = [proc EXCEPT ![p] = Idle],
         \A q \in Procs : q # p /\ proc[q].op = "decide" => proc[q].of # r,
         UNCHANGED <<payment, dispute, attempt, ledger, stripe, mover, faults>>
  PROVE  IInv'
<1>1. OnlyMoves(p) /\ ProcInv(p)' /\ proc' \in [Procs -> ProcRec]
        /\ proc'[p].op # "decide"
  BY EndsProc DEF IInv
<1>2. TypeOK'
  BY <1>1 DEF IInv, TypeOK, ProcRec, stripe
<1>3. Keeps
  BY ProcTypes DEF IInv, Keeps, AttemptRec, stripe
<1>4. DecidesAlone(p)
  BY <1>1 DEF DecidesAlone, IInv, TypeOK
<1>5. ProcsInv' /\ OneDecision'
  BY <1>1, <1>2, <1>3, <1>4, OneMoves DEF IInv
<1>6. AttemptsInv' /\ StripeInv' /\ MoverInv'
  BY DEF IInv, AttemptsInv, StripeInv, MoverInv, stripe
<1>7. LedgerMatchesAttempts' /\ StatusIsExplained'
  BY DEF IInv, LedgerMatchesAttempts, StatusIsExplained, stripe
<1> QED BY <1>2, <1>5, <1>6, <1>7 DEF IInv

LEMMA GateStep ==
  ASSUME IInv, NEW p \in Procs, Gate(p)
  PROVE  IInv'
<1> DEFINE r == proc[p].of
           now == IF approval[r] = "none" THEN "pending" ELSE approval[r]
<1>1. r \in Refunds /\ approval' = [approval EXCEPT ![r] = now]
        /\ now \in {"pending", "rejected", "executed"}
  BY DEF Gate, IInv, ProcsInv, ProcInv, TypeOK
<1>2. \A q \in Procs : proc[q].op = "decide" => proc[q].of # r
  BY DEF Gate, ApprovalLocked
<1>3. /\ proc' = [proc EXCEPT ![p] = Idle]
      /\ UNCHANGED <<payment, dispute, attempt, ledger, stripe, mover, faults>>
  BY DEF Gate
<1> HIDE DEF now, r
<1> QED BY <1>1, <1>2, <1>3, DecisionRows

LEMMA CommitDecisionStep ==
  ASSUME IInv, NEW p \in Procs, CommitDecision(p)
  PROVE  IInv'
<1>1. proc[p].of \in Refunds /\ proc[p].op = "decide"
  BY DEF CommitDecision, IInv, ProcsInv, ProcInv
<1>2. \A q \in Procs : q # p /\ proc[q].op = "decide" => proc[q].of # proc[p].of
  BY <1>1 DEF IInv, OneDecision
<1> QED BY <1>1, <1>2, DecisionRows DEF CommitDecision
-----------------------------------------------------------------------------
(* Steps on an attempt's row or at Stripe.  Whatever becomes of the one    *)
(* process, it is idle or goes on with its refund.                         *)
GoesOn(p, stages) ==
  /\ proc' \in [Procs -> ProcRec] /\ OnlyMoves(p)
  /\ \/ proc'[p] = Idle
     \/ /\ proc'[p].op = proc[p].op /\ proc'[p].of = proc[p].of
        /\ proc'[p].total = proc[p].total
        /\ proc'[p].at \in stages

LEMMA FinishProc ==
  ASSUME TypeOK, NEW p \in Procs, NEW status, Finish(p, status)
  PROVE  /\ GoesOn(p, {"resolve", "commit"})
         /\ proc'[p].at = "resolve" => status = "succeeded"
         /\ proc'[p].at = "commit" => proc'[p].op = "decide"
<1> DEFINE me == proc[p]
           toResolve == [me EXCEPT !.at = "resolve"]
           toCommit == [me EXCEPT !.at = "commit"]
<1>1. me \in ProcRec
  BY ProcTypes
<1>2. toResolve \in ProcRec /\ toCommit \in ProcRec
  BY <1>1 DEF ProcRec, Stages
<1>3. /\ toResolve.op = me.op /\ toResolve.of = me.of /\ toResolve.total = me.total
      /\ toCommit.op = me.op /\ toCommit.of = me.of /\ toCommit.total = me.total
      /\ toResolve.at = "resolve" /\ toCommit.at = "commit"
  BY <1>1 DEF ProcRec
<1>4. \/ proc' = [proc EXCEPT ![p] = Idle]
      \/ status = "succeeded" /\ proc' = [proc EXCEPT ![p] = toResolve]
      \/ me.op = "decide" /\ proc' = [proc EXCEPT ![p] = toCommit]
  BY DEF Finish
<1>5. CASE proc' = [proc EXCEPT ![p] = Idle]
  BY <1>5, ProcTypes, IdleTyped DEF GoesOn, OnlyMoves, Idle
<1>6. CASE status = "succeeded" /\ proc' = [proc EXCEPT ![p] = toResolve]
  <2> HIDE DEF toResolve
  <2>1. proc' \in [Procs -> ProcRec] /\ OnlyMoves(p) /\ proc'[p] = toResolve
    BY <1>2, <1>6, ProcTypes DEF OnlyMoves
  <2> QED BY <1>3, <1>6, <2>1 DEF GoesOn
<1>7. CASE me.op = "decide" /\ proc' = [proc EXCEPT ![p] = toCommit]
  <2> HIDE DEF toCommit
  <2>1. proc' \in [Procs -> ProcRec] /\ OnlyMoves(p) /\ proc'[p] = toCommit
    BY <1>2, <1>7, ProcTypes DEF OnlyMoves
  <2> QED BY <1>3, <1>7, <2>1 DEF GoesOn
<1> QED BY <1>4, <1>5, <1>6, <1>7

(* After Finish, the process that finished is as it should be.             *)
LEMMA FinishInv ==
  ASSUME IInv, NEW p \in Procs, proc[p].at # "none", NEW status, Finish(p, status),
         status = "succeeded" => attempt'[proc[p].of].status = "succeeded",
         UNCHANGED <<approval, intent>>
  PROVE  proc' \in [Procs -> ProcRec] /\ OnlyMoves(p) /\ ProcInv(p)' /\ DecidesAlone(p)
<1>1. ProcInv(p)
  BY DEF IInv, ProcsInv
<1>2. /\ GoesOn(p, {"resolve", "commit"})
      /\ proc'[p].at = "resolve" => status = "succeeded"
      /\ proc'[p].at = "commit" => proc'[p].op = "decide"
  BY FinishProc DEF IInv
<1>3. ProcInv(p)'
  BY <1>1, <1>2 DEF GoesOn, ProcInv, Asking, Idle
<1>4. DecidesAlone(p)
  BY <1>2 DEF GoesOn, DecidesAlone, Idle
<1> QED BY <1>2, <1>3, <1>4 DEF GoesOn

LEMMA ResolveDisputeStep ==
  ASSUME IInv, NEW p \in Procs, ResolveDispute(p)
  PROVE  IInv'
<1> DEFINE r == proc[p].of
           now == IF payment.disputed /\ Asked[r] = Amount /\ attempt[r].known
                    THEN "refunded" ELSE payment.status
<1>1. /\ proc[p].at = "resolve" /\ ProcInv(p) /\ r \in Refunds
      /\ attempt[r].status = "succeeded"
      /\ UNCHANGED <<attempt, approval, ledger, stripe, mover, faults>>
      /\ dispute' = "resolved"
  BY DEF ResolveDispute, IInv, ProcsInv, ProcInv
<1>2. payment' = [payment EXCEPT !.disputed = FALSE, !.status = now]
  BY DEF ResolveDispute
<1>3. payment \in PaymentRec
  BY ProcTypes DEF IInv
<1>4. /\ payment' \in PaymentRec /\ payment'.status = now
      /\ payment'.refunded = payment.refunded
  BY <1>2, <1>3 DEF PaymentRec
<1>5. Asked[r] = Amount /\ attempt[r].known
        => payment.refunded = Amount /\ intent = "taken"
  <2> SUFFICES ASSUME Asked[r] = Amount, attempt[r].known
               PROVE  payment.refunded = Amount /\ intent = "taken"
    OBVIOUS
  <2>1. attempt[r].kind = "refund" /\ attempt[r].amount = Amount
    BY <1>1, RefundAssumption DEF IInv, AttemptsInv
  <2>2. ledger[r] = 1
    BY <1>1, <2>1 DEF IInv, LedgerMatchesAttempts
  <2>3. payment.refunded >= Amount /\ payment.refunded \in 0 .. Amount
    BY <1>1, <1>3, <2>1, <2>2 DEF IInv, AttemptsInv, PaymentRec
  <2> QED BY <2>3, RefundAssumption DEF IInv, StripeInv
<1>6. \/ proc' = [proc EXCEPT ![p] = Idle]
      \/ proc[p].op = "decide" /\ proc' = [proc EXCEPT ![p] = [proc[p] EXCEPT !.at = "commit"]]
  BY DEF ResolveDispute
<1>7. proc' \in [Procs -> ProcRec] /\ OnlyMoves(p) /\ ProcInv(p)' /\ DecidesAlone(p)
  <2>1. CASE proc' = [proc EXCEPT ![p] = Idle]
    BY <1>1, <2>1, EndsProc DEF DecidesAlone, IInv
  <2>2. CASE /\ proc[p].op = "decide"
             /\ proc' = [proc EXCEPT ![p] = [proc[p] EXCEPT !.at = "commit"]]
    <3>1. [proc[p] EXCEPT !.at = "commit"] \in ProcRec
      BY ProcTypes DEF ProcRec, Stages, IInv
    <3>2. proc' \in [Procs -> ProcRec] /\ OnlyMoves(p)
      BY <2>2, <3>1, ProcTypes DEF OnlyMoves, IInv
    <3>3. /\ proc'[p].at = "commit" /\ proc'[p].op = "decide"
          /\ proc'[p].of = r /\ proc'[p].total = proc[p].total
      BY <2>2, ProcTypes DEF ProcRec, IInv
    <3>4. ProcInv(p)'
      BY <1>1, <2>2, <3>3 DEF ProcInv, Asking, stripe
    <3>5. DecidesAlone(p)
      BY <1>1, <2>2, <3>3 DEF DecidesAlone
    <3> QED BY <3>2, <3>4, <3>5
  <2> QED BY <1>6, <2>1, <2>2
<1>8. TypeOK'
  BY <1>1, <1>4, <1>7 DEF IInv, TypeOK, PaymentRec, ProcRec, stripe
<1>9. Keeps
  BY <1>1, ProcTypes DEF Keeps, stripe, IInv, AttemptRec
<1>10. ProcsInv' /\ OneDecision'
  BY <1>7, <1>8, <1>9, OneMoves DEF IInv
<1>11. AttemptsInv' /\ MoverInv' /\ LedgerMatchesAttempts'
  BY <1>1, <1>4 DEF IInv, AttemptsInv, MoverInv, LedgerMatchesAttempts, stripe
<1>12. StripeInv'
  BY <1>1, <1>4, <1>5 DEF IInv, StripeInv, stripe
<1>13. StatusIsExplained'
  BY <1>1, <1>4, <1>5 DEF IInv, StatusIsExplained, stripe
<1> QED BY <1>8, <1>10, <1>11, <1>12, <1>13 DEF IInv
LEMMA SettleRefundStep ==
  ASSUME IInv, NEW p \in Procs, SettleRefund(p)
  PROVE  IInv'
<1> DEFINE me == proc[p]
           r == me.of
           next == LargerOf(payment.refunded, me.total)
           status == IF next = Amount THEN "refunded" ELSE payment.status
<1>1. /\ me.at = "settle" /\ me.kind = "refund" /\ ProcInv(p) /\ r \in Refunds
      /\ me.answer \in {"pending", "succeeded", "failed"}
      /\ me.answer = "succeeded" => me.total >= attempt[r].amount
      /\ attempt[r].status # "none" /\ attempt[r].kind = "refund"
      /\ me.total # 0 => intent = "taken"
      /\ UNCHANGED <<dispute, approval, stripe, mover, faults>>
  BY DEF SettleRefund, Settled, IInv, ProcsInv, ProcInv, Asking
<1>2. /\ attempt \in [Refunds -> AttemptRec] /\ payment \in PaymentRec
      /\ payment.refunded \in 0 .. Amount /\ me.total \in UpToAmount
      /\ Amount \in Nat \ {0}
  BY ProcTypes, RefundAssumption DEF IInv, PaymentRec, ProcRec
<1>3. /\ next \in 0 .. Amount /\ next >= payment.refunded /\ next >= me.total
      /\ next = payment.refunded \/ next = me.total
  BY <1>2 DEF LargerOf, UpToAmount
<1>4. next # 0 => intent = "taken"
  BY <1>1, <1>3 DEF IInv, StripeInv
<1>5. CASE attempt[r].status = "succeeded"
  <2>1. Finish(p, "succeeded") /\ UNCHANGED <<attempt, payment, ledger>>
    BY <1>1, <1>5 DEF SettleRefund, Settled
  <2>2. intent' = intent /\ attempt' = attempt /\ approval' = approval
    BY <1>1, <2>1 DEF stripe
  <2>3. /\ proc' \in [Procs -> ProcRec] /\ OnlyMoves(p) /\ ProcInv(p)' /\ DecidesAlone(p)
    BY <1>1, <1>5, <2>1, <2>2, FinishInv
  <2>4. faults' \in 0 .. MaxFaults /\ UNCHANGED <<rows, stripe, mover>>
    BY <1>1, <2>1 DEF IInv, TypeOK, rows
  <2> QED BY <2>3, <2>4, ReadsOnly DEF DecidesAlone
<1>6. CASE attempt[r].status # "succeeded"
  <2> DEFINE new == [attempt[r] EXCEPT !.status = me.answer, !.known = TRUE]
  <2>1. attempt' = [attempt EXCEPT ![r] = new] /\ Finish(p, me.answer)
    BY <1>1, <1>2, <1>6 DEF SettleRefund, Settled, AttemptRec
  <2>2. new \in AttemptRec /\ new.status = me.answer /\ new.kind = "refund"
          /\ new.amount = attempt[r].amount /\ new.known
    BY <1>1, <1>2 DEF AttemptRec, RefundStates
  <2> HIDE DEF new
  <2>3. /\ attempt' \in [Refunds -> AttemptRec] /\ attempt'[r] = new
        /\ \A s \in Refunds : s # r => attempt'[s] = attempt[s]
    BY <1>1, <1>2, <2>1, <2>2
  <2>4. /\ proc' \in [Procs -> ProcRec] /\ OnlyMoves(p) /\ ProcInv(p)' /\ DecidesAlone(p)
    BY <1>1, <2>1, <2>2, <2>3, FinishInv DEF stripe
  <2>5. Keeps
    BY <1>1, <1>6, <2>2, <2>3 DEF Keeps, stripe
  <2>6. ledger[r] = 0
    BY <1>1, <1>6 DEF IInv, LedgerMatchesAttempts
  <2>7. CASE me.answer = "succeeded"
    <3>1. /\ payment' = [payment EXCEPT !.refunded = next, !.status = status]
          /\ ledger' = [ledger EXCEPT ![r] = 1]
      BY <1>1, <1>6, <2>6, <2>7 DEF SettleRefund, Settled, IInv, TypeOK
    <3> HIDE DEF next
    <3>2. /\ payment' \in PaymentRec /\ payment'.refunded = next /\ payment'.status = status
      BY <1>2, <1>3, <3>1 DEF PaymentRec
    <3>3. /\ ledger' \in [Refunds -> 0 .. 1] /\ ledger'[r] = 1
          /\ \A s \in Refunds : s # r => ledger'[s] = ledger[s]
      BY <1>1, <3>1 DEF IInv, TypeOK
    <3>4. TypeOK'
      BY <1>1, <2>3, <2>4, <3>2, <3>3 DEF IInv, TypeOK, PaymentRec, AttemptRec, ProcRec, stripe
    <3>5. ProcsInv' /\ OneDecision'
      BY <2>4, <2>5, <3>4, OneMoves DEF IInv
    <3>6. AttemptsInv'
      <4> SUFFICES ASSUME NEW s \in Refunds
                   PROVE  /\ attempt'[s].status = "none" => ~ attempt'[s].known
                          /\ attempt'[s].status # "none" /\ Asked[s] # 0
                               => attempt'[s].amount = Asked[s]
                          /\ attempt'[s].known => attempt'[s].kind = "refund"
                          /\ ledger'[s] = 1 => payment'.refunded >= attempt'[s].amount
        BY DEF AttemptsInv
      <4>1. attempt[s].amount \in Int /\ attempt[r].amount \in Int /\ me.total \in Int
        BY <1>1, <1>2 DEF AttemptRec, UpToAmount
      <4>2. CASE s = r
        BY <1>1, <1>3, <2>2, <2>3, <2>7, <3>2, <4>1, <4>2 DEF IInv, AttemptsInv
      <4>3. CASE s # r
        BY <1>2, <1>3, <2>3, <3>2, <3>3, <4>1, <4>3 DEF IInv, AttemptsInv
      <4> QED BY <4>2, <4>3
    <3>7. StripeInv'
      BY <1>1, <1>2, <1>4, <3>2 DEF IInv, StripeInv, stripe
    <3>8. MoverInv'
      BY <1>1, <2>2, <2>3, <2>7 DEF IInv, MoverInv
    <3>9. LedgerMatchesAttempts'
      BY <2>2, <2>3, <2>7, <3>3 DEF IInv, LedgerMatchesAttempts
    <3>10. payment.status = "refunded" => next = Amount
      BY <1>2, <1>3 DEF IInv, StatusIsExplained
    <3>11. StatusIsExplained'
      BY <1>1, <1>2, <1>4, <2>2, <2>3, <2>7, <3>2, <3>10 DEF IInv, StatusIsExplained, stripe
    <3> QED BY <3>4, <3>5, <3>6, <3>7, <3>8, <3>9, <3>11 DEF IInv
  <2>8. CASE me.answer # "succeeded"
    <3>1. UNCHANGED <<payment, ledger>>
      BY <1>1, <1>6, <2>8 DEF SettleRefund, Settled
    <3>2. TypeOK'
      BY <1>1, <2>3, <2>4, <3>1 DEF IInv, TypeOK, AttemptRec, ProcRec, stripe
    <3>3. ProcsInv' /\ OneDecision'
      BY <2>4, <2>5, <3>2, OneMoves DEF IInv
    <3>4. AttemptsInv'
      BY <1>1, <2>2, <2>3, <3>1 DEF IInv, AttemptsInv
    <3>5. StripeInv' /\ MoverInv'
      BY <1>1, <2>2, <2>3, <3>1 DEF IInv, StripeInv, MoverInv, stripe
    <3>6. LedgerMatchesAttempts' /\ StatusIsExplained'
      BY <1>1, <1>6, <2>2, <2>3, <2>8, <3>1 DEF IInv, LedgerMatchesAttempts, StatusIsExplained, stripe
    <3> QED BY <3>2, <3>3, <3>4, <3>5, <3>6 DEF IInv
  <2> QED BY <2>7, <2>8
<1> QED BY <1>5, <1>6

LEMMA SettleVoidStep ==
  ASSUME IInv, NEW p \in Procs, SettleVoid(p)
  PROVE  IInv'
<1> DEFINE me == proc[p]
           r == me.of
           status == IF payment.status = "authorized" THEN "canceled" ELSE payment.status
<1>1. /\ me.at = "settle" /\ me.kind = "void" /\ ProcInv(p) /\ r \in Refunds
      /\ me.answer \in {"taken", "canceled"} /\ intent = me.answer
      /\ attempt[r].status # "none"
      /\ attempt[r].kind = "refund" => intent = "taken"
      /\ UNCHANGED <<dispute, approval, ledger, stripe, mover, faults>>
  BY DEF SettleVoid, Settled, IInv, ProcsInv, ProcInv, Asking
<1>2. attempt \in [Refunds -> AttemptRec] /\ payment \in PaymentRec
  BY ProcTypes DEF IInv
<1>3. CASE attempt[r].status = "succeeded"
  <2>1. Finish(p, "succeeded") /\ UNCHANGED <<attempt, payment, ledger>>
    BY <1>1, <1>3 DEF SettleVoid, Settled
  <2>2. intent' = intent /\ attempt' = attempt /\ approval' = approval
    BY <1>1, <2>1 DEF stripe
  <2>3. /\ proc' \in [Procs -> ProcRec] /\ OnlyMoves(p) /\ ProcInv(p)' /\ DecidesAlone(p)
    BY <1>1, <1>3, <2>1, <2>2, FinishInv
  <2>4. faults' \in 0 .. MaxFaults /\ UNCHANGED <<rows, stripe, mover>>
    BY <1>1, <2>1 DEF IInv, TypeOK, rows
  <2> QED BY <2>3, <2>4, ReadsOnly DEF DecidesAlone
<1>4. CASE attempt[r].status # "succeeded" /\ me.answer = "taken"
  <2> DEFINE new == [attempt[r] EXCEPT !.kind = "refund"]
  <2>1. /\ attempt' = [attempt EXCEPT ![r] = new] /\ Finish(p, attempt[r].status)
        /\ payment' = payment
    BY <1>1, <1>2, <1>4 DEF SettleVoid, Settled, AttemptRec
  <2>2. new \in AttemptRec /\ new.status = attempt[r].status /\ new.kind = "refund"
          /\ new.amount = attempt[r].amount /\ new.known = attempt[r].known
    BY <1>1, <1>2 DEF AttemptRec
  <2> HIDE DEF new
  <2>3. /\ attempt' \in [Refunds -> AttemptRec] /\ attempt'[r] = new
        /\ \A s \in Refunds : s # r => attempt'[s] = attempt[s]
    BY <1>1, <1>2, <2>1, <2>2
  <2>4. /\ proc' \in [Procs -> ProcRec] /\ OnlyMoves(p) /\ ProcInv(p)' /\ DecidesAlone(p)
    BY <1>1, <1>4, <2>1, <2>2, <2>3, FinishInv DEF stripe
  <2>5. Keeps
    BY <1>1, <1>4, <2>2, <2>3 DEF Keeps, stripe
  <2>6. TypeOK'
    BY <1>1, <2>1, <2>3, <2>4 DEF IInv, TypeOK, AttemptRec, ProcRec, stripe
  <2>7. ProcsInv' /\ OneDecision'
    BY <2>4, <2>5, <2>6, OneMoves DEF IInv
  <2>8. AttemptsInv' /\ StripeInv' /\ MoverInv'
    BY <1>1, <2>1, <2>2, <2>3 DEF IInv, AttemptsInv, StripeInv, MoverInv, stripe
  <2>9. LedgerMatchesAttempts' /\ StatusIsExplained'
    BY <1>1, <1>4, <2>1, <2>2, <2>3 DEF IInv, LedgerMatchesAttempts, StatusIsExplained, stripe
  <2> QED BY <2>6, <2>7, <2>8, <2>9 DEF IInv
<1>5. CASE attempt[r].status # "succeeded" /\ me.answer = "canceled"
  <2> DEFINE new == [attempt[r] EXCEPT !.status = "succeeded"]
  <2>1. /\ attempt' = [attempt EXCEPT ![r] = new] /\ Finish(p, "succeeded")
        /\ payment' = [payment EXCEPT !.status = status]
    BY <1>1, <1>2, <1>5 DEF SettleVoid, Settled, AttemptRec
  <2>2. attempt[r].kind = "void"
    BY <1>1, <1>2, <1>5 DEF AttemptRec
  <2>3. new \in AttemptRec /\ new.status = "succeeded" /\ new.kind = "void"
          /\ new.amount = attempt[r].amount /\ new.known = attempt[r].known
    BY <1>1, <1>2, <2>2 DEF AttemptRec, RefundStates
  <2> HIDE DEF new
  <2>4. /\ attempt' \in [Refunds -> AttemptRec] /\ attempt'[r] = new
        /\ \A s \in Refunds : s # r => attempt'[s] = attempt[s]
    BY <1>1, <1>2, <2>1, <2>3
  <2>5. /\ payment' \in PaymentRec /\ payment'.status = status
        /\ payment'.refunded = payment.refunded
    BY <1>2, <2>1 DEF PaymentRec
  <2>6. status = "canceled" /\ intent = "canceled"
    BY <1>1, <1>2, <1>5 DEF IInv, StripeInv, PaymentRec
  <2>7. /\ proc' \in [Procs -> ProcRec] /\ OnlyMoves(p) /\ ProcInv(p)' /\ DecidesAlone(p)
    BY <1>1, <2>1, <2>3, <2>4, FinishInv DEF stripe
  <2>8. Keeps
    BY <1>1, <1>5, <2>2, <2>3, <2>4 DEF Keeps, stripe
  <2>9. TypeOK'
    BY <1>1, <2>4, <2>5, <2>7 DEF IInv, TypeOK, AttemptRec, PaymentRec, ProcRec, stripe
  <2>10. ProcsInv' /\ OneDecision'
    BY <2>7, <2>8, <2>9, OneMoves DEF IInv
  <2>11. ledger[r] = 0
    BY <1>1, <1>5 DEF IInv, LedgerMatchesAttempts
  <2>12. AttemptsInv' /\ MoverInv'
    BY <1>1, <2>2, <2>3, <2>4, <2>5, <2>11 DEF IInv, AttemptsInv, MoverInv
  <2>13. StripeInv' /\ StatusIsExplained'
    BY <1>1, <2>3, <2>4, <2>5, <2>6 DEF IInv, StripeInv, StatusIsExplained, stripe
  <2>14. LedgerMatchesAttempts'
    BY <1>1, <2>3, <2>4, <2>11 DEF IInv, LedgerMatchesAttempts
  <2> QED BY <2>9, <2>10, <2>12, <2>13, <2>14 DEF IInv
<1> QED BY <1>1, <1>3, <1>4, <1>5
(* Stripe moves the money; whether p hears of it is open.                  *)
LEMMA MovesMoneyStep ==
  ASSUME IInv, NEW p \in Procs, MovesMoney(p)
  PROVE  IInv'
<1> DEFINE me == proc[p]
           r == me.of
           answer == IF me.kind = "void" THEN "canceled" ELSE first'[r]
           next == IF me.kind = "refund" /\ first'[r] = "succeeded" THEN "charge" ELSE "settle"
<1>1. /\ me.at = "provider" /\ ProcInv(p) /\ r \in Refunds /\ me \in ProcRec
      /\ me.op # "none" /\ me.kind \in {"refund", "void"}
      /\ attempt[r].status # "none"
      /\ me.op = "request" => attempt[r].amount < Threshold
      /\ mover' = [mover EXCEPT ![r] = me.op]
      /\ UNCHANGED rows
  BY ProcTypes DEF MovesMoney, IInv, ProcsInv, ProcInv, Asking, ProcRec
<1>3. /\ intent' \in {"held", "taken", "canceled"}
      /\ refund' \in [Refunds -> RefundStates] /\ first' \in [Refunds -> RefundStates]
      /\ charged' \in UpToAmount /\ totals' \subseteq UpToAmount
      /\ intent # "held" => intent' = intent
      /\ me.kind = "void" => answer = "canceled" /\ intent = "held" /\ intent' = "canceled"
      /\ me.kind = "refund" => answer \in {"pending", "succeeded"}
      /\ StripeInv'
  <2>1. CASE me.kind = "void"
    <3>1. intent = "held" /\ intent' = "canceled" /\ UNCHANGED <<refund, first, charged, totals>>
      BY <2>1 DEF MovesMoney, CancelIntent
    <3>2. StripeInv'
      BY <1>1, <3>1 DEF IInv, StripeInv, rows
    <3> QED BY <2>1, <3>1, <3>2 DEF IInv, TypeOK
  <2>2. CASE me.kind = "refund"
    <3>1. MakeRefund(r)
      BY <2>2 DEF MovesMoney
    <3>2. PICK now \in {"pending", "succeeded"} :
            refund' = [refund EXCEPT ![r] = now] /\ first' = [first EXCEPT ![r] = now]
      BY <3>1 DEF MakeRefund
    <3>3. /\ intent = "taken" /\ intent' = "taken"
          /\ charged' = charged + attempt[r].amount /\ charged' <= Amount
          /\ totals' = totals \cup {charged'}
      BY <3>1 DEF MakeRefund
    <3>4. charged \in Int /\ attempt[r].amount \in Int
      BY <1>1, ProcTypes DEF IInv, TypeOK, UpToAmount, AttemptRec
    <3>5. charged' \in UpToAmount
      BY <3>3, <3>4 DEF UpToAmount
    <3>6. first'[r] = now
      BY <1>1, <3>2 DEF IInv, TypeOK
    <3>7. StripeInv'
      BY <1>1, <3>3 DEF StripeInv, rows
    <3>8. refund' \in [Refunds -> RefundStates] /\ first' \in [Refunds -> RefundStates]
      BY <3>2 DEF IInv, TypeOK, RefundStates
    <3>9. totals' \subseteq UpToAmount
      BY <3>3, <3>5 DEF IInv, TypeOK
    <3>10. answer \in {"pending", "succeeded"}
      BY <1>1, <2>2, <3>2, <3>6
    <3> QED BY <2>2, <3>3, <3>5, <3>7, <3>8, <3>9, <3>10
  <2> QED BY <1>1, <2>1, <2>2
<1>4. mover' \in [Refunds -> Ops \cup {"none"}]
  BY <1>1 DEF IInv, TypeOK, ProcRec
<1>5. attempt' = attempt /\ approval' = approval /\ payment' = payment
        /\ dispute' = dispute /\ ledger' = ledger
  BY <1>1 DEF rows
<1>6. /\ proc' \in [Procs -> ProcRec] /\ OnlyMoves(p) /\ ProcInv(p)' /\ DecidesAlone(p)
      /\ faults' \in 0 .. MaxFaults
  <2>1. CASE Abort(p) /\ Fault
    <3>1. intent = "taken" => intent' = "taken"
      BY <1>3
    <3>2. proc' \in [Procs -> ProcRec] /\ OnlyMoves(p) /\ proc'[p].op # "decide" /\ ProcInv(p)'
      BY <1>1, <2>1, <3>1, AbortProc DEF IInv
    <3> QED BY <1>5, <2>1, <3>2, RefundAssumption DEF Fault, IInv, TypeOK, DecidesAlone
  <2>2. CASE /\ proc' = [proc EXCEPT ![p].answer = answer, ![p].at = next]
             /\ UNCHANGED faults
    <3> DEFINE new == [me EXCEPT !.answer = answer, !.at = next]
    <3> HIDE DEF answer
    <3>1. next \in {"charge", "settle"} /\ (next = "charge" => me.kind = "refund" /\ answer = "succeeded")
      BY DEF answer
    <3> HIDE DEF next
    <3>2. proc' = [proc EXCEPT ![p] = new]
      BY <2>2, ProcTypes DEF IInv, ProcRec
    <3>3. new \in ProcRec
      BY <1>1, <1>3, <3>1 DEF ProcRec, Stages, RefundStates
    <3>4. /\ new.at = next /\ new.answer = answer /\ new.op = me.op
          /\ new.of = r /\ new.total = me.total /\ new.kind = me.kind
      BY <1>1 DEF ProcRec
    <3> HIDE DEF new
    <3>5. proc' \in [Procs -> ProcRec] /\ OnlyMoves(p) /\ proc'[p] = new
      BY <3>2, <3>3, ProcTypes DEF OnlyMoves, IInv
    <3>6. next = "settle" /\ me.kind = "refund" => answer # "succeeded"
      BY DEF next, answer
    <3>7. ProcInv(p)'
      BY <1>1, <1>3, <1>5, <3>1, <3>4, <3>5, <3>6 DEF ProcInv, Asking
    <3>8. DecidesAlone(p)
      BY <1>5, <3>4, <3>5 DEF DecidesAlone
    <3> QED BY <2>2, <3>5, <3>7, <3>8 DEF IInv, TypeOK
  <2> QED BY <2>1, <2>2 DEF MovesMoney
<1>7. TypeOK'
  BY <1>3, <1>4, <1>5, <1>6 DEF IInv, TypeOK, ProcRec
<1>8. Keeps
  BY <1>3, <1>5, ProcTypes DEF Keeps, IInv, AttemptRec
<1>9. ProcsInv' /\ OneDecision'
  BY <1>6, <1>7, <1>8, OneMoves DEF IInv
<1>10. AttemptsInv' /\ LedgerMatchesAttempts'
  BY <1>5 DEF IInv, AttemptsInv, LedgerMatchesAttempts
<1>11. MoverInv'
  BY <1>1, <1>5 DEF IInv, MoverInv, TypeOK
<1>12. StatusIsExplained'
  BY <1>3, <1>5 DEF IInv, StatusIsExplained
<1> QED BY <1>3, <1>7, <1>9, <1>10, <1>11, <1>12 DEF IInv

(* What a caller does with the attempt it has got.                         *)
LEMMA ProceedInv ==
  ASSUME IInv, NEW p \in Procs, proc[p].at = "reserve", NEW a \in AttemptRec,
         a = attempt'[proc[p].of], a.status # "none", Proceed(p, a),
         UNCHANGED <<approval, intent>>
  PROVE  proc' \in [Procs -> ProcRec] /\ OnlyMoves(p) /\ ProcInv(p)' /\ DecidesAlone(p)
<1> DEFINE me == [proc[p] EXCEPT !.kind = a.kind, !.known = a.known]
           To(stage) == [me EXCEPT !.at = stage]
<1>1. ProcInv(p) /\ proc[p] \in ProcRec
  BY ProcTypes DEF IInv, ProcsInv
<1>2. /\ me.op = proc[p].op /\ me.of = proc[p].of /\ me.total = proc[p].total
      /\ me.kind = a.kind /\ me \in ProcRec
  BY <1>1 DEF ProcRec, AttemptRec
<1>3. ASSUME NEW stage \in Stages
      PROVE  /\ To(stage) \in ProcRec /\ To(stage).at = stage /\ To(stage).op = proc[p].op
             /\ To(stage).of = proc[p].of /\ To(stage).total = proc[p].total
             /\ To(stage).kind = a.kind
  <2> HIDE DEF me
  <2> QED BY <1>2 DEF ProcRec
<1>4. \/ proc' = [proc EXCEPT ![p] = Idle]
      \/ \E stage \in {"resolve", "commit", "gate", "provider"} :
           /\ proc' = [proc EXCEPT ![p] = To(stage)]
           /\ stage = "resolve" => a.status = "succeeded"
           /\ stage = "commit" => proc[p].op = "decide"
           /\ stage = "provider" /\ proc[p].op = "request" => ~ (a.amount >= Threshold)
  <2>1. CASE a.status = "succeeded"
    BY <1>2, <2>1 DEF Proceed
  <2>2. CASE a.status # "succeeded" /\ me.op = "request" /\ a.amount >= Threshold
    BY <1>2, <2>2 DEF Proceed, NeedsApproval
  <2>3. CASE a.status # "succeeded" /\ ~ (me.op = "request" /\ a.amount >= Threshold)
    <3>1. proc' = [proc EXCEPT ![p] = To("provider")]
      BY <2>3 DEF Proceed, NeedsApproval
    <3> QED BY <1>2, <2>3, <3>1
  <2> QED BY <2>1, <2>2, <2>3
<1>5. CASE proc' = [proc EXCEPT ![p] = Idle]
  BY <1>5, EndsProc DEF IInv, DecidesAlone
<1>6. CASE \E stage \in {"resolve", "commit", "gate", "provider"} :
             /\ proc' = [proc EXCEPT ![p] = To(stage)]
             /\ stage = "resolve" => a.status = "succeeded"
             /\ stage = "commit" => proc[p].op = "decide"
             /\ stage = "provider" /\ proc[p].op = "request" => ~ (a.amount >= Threshold)
  <2>1. PICK stage \in {"resolve", "commit", "gate", "provider"} :
             /\ proc' = [proc EXCEPT ![p] = To(stage)]
             /\ stage = "resolve" => a.status = "succeeded"
             /\ stage = "commit" => proc[p].op = "decide"
             /\ stage = "provider" /\ proc[p].op = "request" => ~ (a.amount >= Threshold)
    BY <1>6
  <2>2. stage \in Stages
    BY DEF Stages
  <2>3. /\ To(stage) \in ProcRec /\ To(stage).at = stage /\ To(stage).op = proc[p].op
        /\ To(stage).of = proc[p].of /\ To(stage).total = proc[p].total
        /\ To(stage).kind = a.kind
    BY <1>3, <2>2
  <2> HIDE DEF To
  <2>4. proc' \in [Procs -> ProcRec] /\ OnlyMoves(p) /\ proc'[p] = To(stage)
    BY <2>1, <2>3, ProcTypes DEF OnlyMoves, IInv
  <2>5. a.amount \in Int /\ Threshold \in Int
    BY RefundAssumption DEF AttemptRec
  <2>6. ProcInv(p)'
    BY <1>1, <2>1, <2>3, <2>4, <2>5 DEF ProcInv, Asking
  <2>7. DecidesAlone(p)
    BY <2>3, <2>4 DEF DecidesAlone
  <2> QED BY <2>4, <2>6, <2>7
<1> QED BY <1>4, <1>5, <1>6

LEMMA ReserveStep ==
  ASSUME IInv, NEW p \in Procs, Reserve(p)
  PROVE  IInv'
<1> DEFINE r == proc[p].of
<1>1. /\ proc[p].at = "reserve" /\ ProcInv(p) /\ r \in Refunds /\ proc[p].op # "none"
      /\ attempt \in [Refunds -> AttemptRec]
      /\ UNCHANGED <<payment, dispute, approval, ledger, stripe, mover, faults>>
  BY ProcTypes DEF Reserve, IInv, ProcsInv, ProcInv
<1>2. UNCHANGED <<approval, intent>> /\ faults' \in 0 .. MaxFaults
  BY <1>1 DEF stripe, IInv, TypeOK
<1>3. CASE attempt[r].status # "none" /\ Proceed(p, attempt[r]) /\ UNCHANGED attempt
  <2>1. /\ proc' \in [Procs -> ProcRec] /\ OnlyMoves(p) /\ ProcInv(p)' /\ DecidesAlone(p)
    BY <1>1, <1>2, <1>3, ProceedInv
  <2> QED BY <1>1, <1>2, <1>3, <2>1, ReadsOnly DEF DecidesAlone, rows
<1>4. CASE attempt[r].status = "none" /\ Abort(p) /\ UNCHANGED attempt
  BY <1>1, <1>2, <1>4, AbortProc, ReadsOnly DEF IInv, rows
<1>5. CASE /\ attempt[r].status = "none" /\ Refundable(r)
           /\ attempt' = [attempt EXCEPT ![r] = NewAttempt(r)]
           /\ Proceed(p, NewAttempt(r))
  <2> DEFINE new == NewAttempt(r)
  <2>1. payment.refunded \in 0 .. Amount /\ Amount \in Nat /\ Asked[r] \in Nat
    BY <1>1, ProcTypes, RefundAssumption DEF IInv, PaymentRec
  <2>2. /\ NewAmount(r) \in 0 .. Amount
        /\ Asked[r] # 0 => NewAmount(r) = Asked[r]
    BY <1>5, <2>1 DEF Refundable, NewAmount
  <2>3. /\ new \in AttemptRec /\ new.status = "pending" /\ ~ new.known
        /\ new.amount = NewAmount(r)
    BY <2>2, RefundAssumption DEF NewAttempt, AttemptRec, RefundStates
  <2> HIDE DEF new
  <2>4. /\ attempt' \in [Refunds -> AttemptRec] /\ attempt'[r] = new
        /\ \A s \in Refunds : s # r => attempt'[s] = attempt[s]
    BY <1>1, <1>5, <2>3 DEF new
  <2>5. Proceed(p, new)
    BY <1>5 DEF new
  <2>6. /\ proc' \in [Procs -> ProcRec] /\ OnlyMoves(p) /\ ProcInv(p)' /\ DecidesAlone(p)
    BY <1>1, <1>2, <2>3, <2>4, <2>5, ProceedInv
  <2>7. TypeOK'
    BY <1>1, <2>4, <2>6 DEF IInv, TypeOK, AttemptRec, ProcRec, stripe
  <2>8. Keeps
    BY <1>1, <1>5, <2>4 DEF Keeps, stripe, AttemptRec
  <2>9. ProcsInv' /\ OneDecision'
    BY <2>6, <2>7, <2>8, OneMoves DEF IInv
  <2>10. ledger[r] = 0 /\ mover[r] = "none"
    BY <1>1, <1>5 DEF IInv, LedgerMatchesAttempts, MoverInv
  <2>11. AttemptsInv' /\ StripeInv' /\ MoverInv'
    BY <1>1, <2>2, <2>3, <2>4, <2>10 DEF IInv, AttemptsInv, StripeInv, MoverInv, stripe
  <2>12. LedgerMatchesAttempts' /\ StatusIsExplained'
    BY <1>1, <2>3, <2>4, <2>10 DEF IInv, LedgerMatchesAttempts, StatusIsExplained, stripe
  <2> QED BY <2>7, <2>9, <2>11, <2>12 DEF IInv
<1> QED BY <1>3, <1>4, <1>5 DEF Reserve
-----------------------------------------------------------------------------
LEMMA InitInv == Init => IInv
<1> SUFFICES ASSUME Init
             PROVE  IInv
  OBVIOUS
<1>1. Amount \in Nat /\ 0 \in UpToAmount /\ MaxTries \in Nat /\ MaxFaults \in Nat
  BY RefundAssumption DEF UpToAmount
<1>2. proc \in [Procs -> ProcRec]
  BY IdleTyped DEF Init
<1>3. TypeOK
  BY <1>1, <1>2 DEF Init, TypeOK, RefundStates, ProcRec
<1>4. ProcsInv /\ OneDecision
  BY DEF Init, ProcsInv, ProcInv, OneDecision, Asking, Idle
<1>5. AttemptsInv /\ StripeInv /\ MoverInv
  BY <1>1 DEF Init, AttemptsInv, StripeInv, MoverInv
<1>6. LedgerMatchesAttempts /\ StatusIsExplained
  BY DEF Init, LedgerMatchesAttempts, StatusIsExplained
<1> QED BY <1>3, <1>4, <1>5, <1>6 DEF IInv

LEMMA NextInv == IInv /\ [Next]_vars => IInv'
<1> SUFFICES ASSUME IInv, [Next]_vars
             PROVE  IInv'
  OBVIOUS
<1>1. ASSUME NEW p \in Handlers, NEW r \in Refunds, Request(p, r) \/ Approve(p, r)
      PROVE  IInv'
  BY <1>1, RequestStep, ApproveStep
<1>2. ASSUME NEW r \in Refunds, Reject(r) \/ Sweep(r) \/ RefundEnds(r)
      PROVE  IInv'
  BY <1>2, RejectStep, SweepStep, RefundEndsStep
<1>3. ASSUME NEW p \in Procs, Step(p) \/ Fails(p) \/ Dies(p) \/ IdleTimeout(p)
      PROVE  IInv'
  <2>1. CASE LockDispute(p) \/ Reserve(p) \/ Gate(p) \/ FindsMoved(p) \/ ReadTotal(p)
    BY <2>1, LockDisputeStep, ReserveStep, GateStep, FindsMovedStep, ReadTotalStep
  <2>2. CASE MovesMoney(p) \/ SettleRefund(p) \/ SettleVoid(p) \/ ResolveDispute(p)
               \/ CommitDecision(p)
    BY <2>2, MovesMoneyStep, SettleRefundStep, SettleVoidStep, ResolveDisputeStep,
       CommitDecisionStep
  <2>3. CASE Refused(p) \/ StatementTimeout(p) \/ Fails(p) \/ Dies(p)
    BY <2>3, FailureSteps
  <2>4. CASE IdleTimeout(p)
    BY <2>4, IdleTimeoutStep
  <2> QED BY <1>3, <2>1, <2>2, <2>3, <2>4 DEF Step
<1>4. CASE GiveUp
  BY <1>4, GiveUpStep
<1>5. CASE OpenDispute \/ ResolveWithoutRefund \/ Capture \/ RecordCapture
             \/ CanceledWebhook \/ RefundedWebhook
  BY <1>5, PartySteps, CaptureSteps, WebhookSteps
<1>6. CASE UNCHANGED vars
  <2>1. UNCHANGED <<attempt, approval, ledger, proc, mover>> /\ UNCHANGED payment
          /\ UNCHANGED <<dispute, stripe, faults>>
    BY <1>6 DEF vars, rows
  <2>2. TypeOK' /\ StripeInv' /\ StatusIsExplained'
    BY <2>1 DEF IInv, TypeOK, StripeInv, StatusIsExplained, stripe
  <2>3. payment'.refunded >= payment.refunded
    BY <2>1, ProcTypes, RefundAssumption DEF IInv, PaymentRec
  <2> QED BY <2>1, <2>2, <2>3, AttemptsStay DEF stripe
<1> QED BY <1>1, <1>2, <1>3, <1>4, <1>5, <1>6 DEF Next

(* The invariant holds throughout.                                         *)
LEMMA Invariance == Spec => []IInv
  BY InitInv, NextInv, PTL DEF Spec

(* Every variable keeps its type: processPaymentRefund and its callers     *)
(* record no amount outside the payment's.                                 *)
THEOREM TypeCorrect == Spec => []TypeOK
<1>1. IInv => TypeOK
  BY DEF IInv
<1> QED BY <1>1, Invariance, PTL

(* Each refund recorded as made has its one ledger entry, however many     *)
(* handlers, decisions and runs of the job settle it.                      *)
THEOREM LedgerCorrect == Spec => []LedgerMatchesAttempts
<1>1. IInv => LedgerMatchesAttempts
  BY DEF IInv
<1> QED BY <1>1, Invariance, PTL

(* The payment's status agrees with what became of its money at Stripe,    *)
(* whichever of capture, void, refund, dispute and webhooks came first.    *)
THEOREM StatusCorrect == Spec => []StatusIsExplained
<1>1. IInv => StatusIsExplained
  BY DEF IInv
<1> QED BY <1>1, Invariance, PTL

(* A request at or above the threshold never moves money itself.           *)
THEOREM QueuedCorrect == Spec => []QueuedRequestMovesNothing
<1>1. IInv => QueuedRequestMovesNothing
  <2> SUFFICES ASSUME IInv, NEW r \in Refunds, attempt[r].amount >= Threshold,
                      mover[r] = "request"
               PROVE  FALSE
    BY DEF QueuedRequestMovesNothing
  <2>1. attempt[r].amount \in Int /\ Threshold \in Int
    BY ProcTypes, RefundAssumption DEF IInv, AttemptRec
  <2> QED BY <2>1 DEF IInv, MoverInv
<1> QED BY <1>1, Invariance, PTL

-----------------------------------------------------------------------------
(* No step undoes what is settled or decided.                              *)
LEMMA FinalAttempt ==
  ASSUME IInv, [Next]_vars, NEW r \in Refunds, attempt[r].status = "succeeded"
  PROVE  attempt'[r] = attempt[r]
<1>1. attempt \in [Refunds -> AttemptRec]
  BY ProcTypes DEF IInv
<1>2. ASSUME NEW s \in Refunds, Sweep(s)
      PROVE  attempt'[r] = attempt[r]
  BY <1>1, <1>2 DEF Sweep
<1>3. ASSUME NEW p \in Procs, Reserve(p)
      PROVE  attempt'[r] = attempt[r]
  BY <1>1, <1>3 DEF Reserve
<1>4. ASSUME NEW p \in Procs, SettleRefund(p)
      PROVE  attempt'[r] = attempt[r]
  BY <1>1, <1>4 DEF SettleRefund, Settled
<1>5. ASSUME NEW p \in Procs, SettleVoid(p)
      PROVE  attempt'[r] = attempt[r]
  BY <1>1, <1>5 DEF SettleVoid, Settled
<1>6. CASE GiveUp
  <2>1. \A s \in Refunds : s # proc[Sweeper].of => attempt'[s] = attempt[s]
    BY <1>1, <1>6 DEF GiveUp
  <2>2. CASE r = proc[Sweeper].of
    BY <1>1, <1>6, <2>2 DEF GiveUp, AttemptRec
  <2> QED BY <2>1, <2>2
<1>7. CASE UNCHANGED attempt
  BY <1>7
<1> QED
  BY <1>2, <1>3, <1>4, <1>5, <1>6, <1>7
  DEF Next, Step, Request, Approve, Reject, RefundEnds, LockDispute, Gate, MovesMoney,
      FindsMoved, Refused, ReadTotal, ResolveDispute, CommitDecision, StatementTimeout,
      Fails, Dies, IdleTimeout, OpenDispute, ResolveWithoutRefund, Capture, RecordCapture,
      CanceledWebhook, RefundedWebhook, vars, rows

LEMMA FinalApproval ==
  ASSUME IInv, [Next]_vars, NEW r \in Refunds, approval[r] \in {"rejected", "executed"}
  PROVE  approval'[r] = approval[r]
<1>1. ASSUME NEW s \in Refunds, Reject(s)
      PROVE  approval'[r] = approval[r]
  BY <1>1 DEF Reject, IInv, TypeOK
<1>2. ASSUME NEW p \in Procs, Gate(p)
      PROVE  approval'[r] = approval[r]
  BY <1>2 DEF Gate, IInv, TypeOK
<1>3. ASSUME NEW p \in Procs, CommitDecision(p)
      PROVE  approval'[r] = approval[r]
  <2>1. proc[p].of # r
    BY <1>3 DEF CommitDecision, IInv, ProcsInv, ProcInv
  <2> QED BY <1>3, <2>1 DEF CommitDecision, IInv, TypeOK
<1>4. CASE UNCHANGED approval
  BY <1>4
<1> QED
  BY <1>1, <1>2, <1>3, <1>4
  DEF Next, Step, Request, Approve, Sweep, RefundEnds, LockDispute, Reserve, MovesMoney,
      FindsMoved, Refused, ReadTotal, SettleRefund, SettleVoid, ResolveDispute,
      StatementTimeout, Fails, Dies, IdleTimeout, GiveUp, OpenDispute, ResolveWithoutRefund, Capture,
      RecordCapture, CanceledWebhook, RefundedWebhook, vars, rows

(* A refund recorded as made is never unmade, and a decision never taken   *)
(* back, by a late answer, a replay, the job or a second administrator.    *)
THEOREM FinalCorrect == Spec => SettledIsFinal
<1>1. IInv /\ [Next]_vars =>
        [\A r \in Refunds :
           /\ attempt[r].status = "succeeded" => attempt'[r] = attempt[r]
           /\ approval[r] \in {"rejected", "executed"} => approval'[r] = approval[r]]_vars
  BY FinalAttempt, FinalApproval
<1> QED BY <1>1, Invariance, PTL DEF Spec, SettledIsFinal
-----------------------------------------------------------------------------
(* Sums of amounts.  The amounts are a parameter: an attempt changes while *)
(* the sum of the others is looked at.                                     *)
Sum(a, S) == Cardinality({c \in S \X (1 .. Amount) : c[2] <= a[c[1]].amount})

LEMMA SumFinite ==
  ASSUME NEW a, NEW S \in SUBSET Refunds
  PROVE  /\ IsFiniteSet({c \in S \X (1 .. Amount) : c[2] <= a[c[1]].amount})
         /\ Sum(a, S) \in Nat
<1> DEFINE cents == {c \in S \X (1 .. Amount) : c[2] <= a[c[1]].amount}
<1>1. IsFiniteSet(S)
  BY RefundAssumption, FS_Subset
<1>2. IsFiniteSet(1 .. Amount)
  <2>1. 1 \in Int /\ Amount \in Int
    BY RefundAssumption
  <2> QED BY <2>1, FS_Interval
<1>3. IsFiniteSet(S \X (1 .. Amount))
  <2> DEFINE T == 1 .. Amount
  <2> HIDE DEF T
  <2>1. IsFiniteSet(T)
    BY <1>2 DEF T
  <2>2. IsFiniteSet(S \X T)
    BY <1>1, <2>1, FS_Product, ZenonT(30)
  <2> QED BY <2>2 DEF T
<1>4. cents \subseteq S \X (1 .. Amount)
  OBVIOUS
<1> HIDE DEF cents
<1>5. IsFiniteSet(cents)
  BY <1>3, <1>4, FS_Subset
<1>6. Cardinality(cents) \in Nat
  BY <1>5, FS_CardinalityType
<1> QED BY <1>5, <1>6 DEF Sum, cents

(* More refunds have no less money.                                        *)
LEMMA SumMonotone ==
  ASSUME NEW a, NEW T \in SUBSET Refunds, NEW S \in SUBSET T
  PROVE  Sum(a, S) <= Sum(a, T)
<1> DEFINE small == {c \in S \X (1 .. Amount) : c[2] <= a[c[1]].amount}
           large == {c \in T \X (1 .. Amount) : c[2] <= a[c[1]].amount}
<1>1. small \subseteq large
  OBVIOUS
<1>2. IsFiniteSet(large)
  BY SumFinite
<1> HIDE DEF small, large
<1>3. Cardinality(small) <= Cardinality(large)
  BY <1>1, <1>2, FS_Subset
<1> QED BY <1>3 DEF Sum, small, large

(* Only the amounts of the set count.                                      *)
LEMMA SumSame ==
  ASSUME NEW a, NEW b, NEW S \in SUBSET Refunds,
         \A r \in S : a[r].amount = b[r].amount
  PROVE  Sum(a, S) = Sum(b, S)
<1>1. {c \in S \X (1 .. Amount) : c[2] <= a[c[1]].amount}
        = {c \in S \X (1 .. Amount) : c[2] <= b[c[1]].amount}
  OBVIOUS
<1> QED BY <1>1 DEF Sum

(* One refund more is its amount more.                                     *)
LEMMA SumAdd ==
  ASSUME NEW a, NEW S \in SUBSET Refunds, NEW r \in Refunds, r \notin S,
         a[r].amount \in 0 .. Amount
  PROVE  Sum(a, S \cup {r}) = Sum(a, S) + a[r].amount
<1> DEFINE Of(T) == {c \in T \X (1 .. Amount) : c[2] <= a[c[1]].amount}
           n == a[r].amount
<1>1. Of(S \cup {r}) = Of(S) \cup Of({r}) /\ Of(S) \cap Of({r}) = {}
  OBVIOUS
<1>2. IsFiniteSet(Of(S)) /\ IsFiniteSet(Of({r}))
  BY SumFinite
<1>3. Cardinality(Of({r})) = n
  <2>1. n \in Int /\ 0 <= n /\ n <= Amount /\ Amount \in Int
    BY RefundAssumption
  <2>2. Of({r}) = {r} \X (1 .. n)
    <3> HIDE DEF n
    <3>1. \A c \in {r} \X (1 .. Amount) : c[2] <= a[c[1]].amount <=> c[2] <= n
      BY DEF n
    <3>2. {r} \X (1 .. n) = {c \in {r} \X (1 .. Amount) : c[2] <= n}
      BY <2>1
    <3> QED BY <3>1, <3>2
  <2> HIDE DEF n, Of
  <2>3. IsFiniteSet(1 .. n) /\ Cardinality(1 .. n) = n
    <3>1. 1 \in Int /\ n \in Int
      BY <2>1
    <3>2. IsFiniteSet(1 .. n) /\ Cardinality(1 .. n) = IF 1 > n THEN 0 ELSE n - 1 + 1
      BY <3>1, FS_Interval, ZenonT(30)
    <3> QED BY <2>1, <3>2
  <2>4. IsFiniteSet({r}) /\ Cardinality({r}) = 1
    BY FS_Singleton
  <2>5. Cardinality({r} \X (1 .. n)) = n
    <3> DEFINE T == 1 .. n
    <3> HIDE DEF T
    <3>1. IsFiniteSet(T)
      BY <2>3 DEF T
    <3>2. Cardinality({r} \X T) = Cardinality({r}) * Cardinality(T)
      BY <2>4, <3>1, FS_Product, ZenonT(30)
    <3>3. Cardinality(T) = n
      BY <2>3 DEF T
    <3>4. Cardinality({r} \X T) = n
      BY <2>1, <2>4, <3>2, <3>3
    <3> QED BY <3>4 DEF T
  <2> QED BY <2>2, <2>5
<1>4. Sum(a, S) = Cardinality(Of(S)) /\ Sum(a, S \cup {r}) = Cardinality(Of(S) \cup Of({r}))
  BY <1>1 DEF Sum
<1> HIDE DEF Of, n
<1>5. Cardinality(Of(S) \cup Of({r}))
        = Cardinality(Of(S)) + Cardinality(Of({r})) - Cardinality(Of(S) \cap Of({r}))
  BY <1>2, FS_Union
<1>6. Cardinality(Of(S) \cap Of({r})) = 0
  BY <1>1, FS_EmptySet
<1>7. Cardinality(Of(S)) \in Nat /\ n \in Int
  BY <1>2, FS_CardinalityType DEF n
<1> QED BY <1>3, <1>4, <1>5, <1>6, <1>7 DEF n
-----------------------------------------------------------------------------
(* The amount refunded.  RefundedIsExplained is not inductive: a           *)
(* settlement adds a refund to the ledger and raises the amount to the     *)
(* larger of what it was and a total that was read earlier, before other   *)
(* refunds were made.  What makes that enough is that totals were read in  *)
(* some order: for every bound n the recorded refunds, together with those *)
(* about to be recorded on the word of a total up to n, fit into n.        *)
Reporting(p) ==
  proc[p].at = "settle" /\ proc[p].kind = "refund" /\ proc[p].answer = "succeeded"

Made == {r \in Refunds : refund[r] \in {"pending", "succeeded"}}

Vouched(n) ==
  {r \in Refunds :
     \/ ledger[r] = 1
     \/ \E p \in Procs : Reporting(p) /\ proc[p].of = r /\ proc[p].total <= n}

Covered ==
  \A n \in Int : payment.refunded <= n /\ n <= Amount => Sum(attempt, Vouched(n)) <= n

(* Stripe's charge is the sum of its refunds, and rows know no more of     *)
(* them than Stripe.                                                       *)
ChargeInv ==
  /\ charged = Sum(attempt, Made)
  /\ 0 \in totals /\ charged \in totals /\ payment.refunded \in totals
  /\ \A r \in Refunds :
       /\ refund[r] # "none" => attempt[r].status # "none"
       /\ first[r] = "succeeded" => refund[r] = "succeeded"
       /\ ledger[r] = 1 => refund[r] = "succeeded"

ReadInv ==
  \A p \in Procs :
    /\ proc[p].total \in totals
    /\ proc[p].at = "charge" \/ Reporting(p) => refund[proc[p].of] = "succeeded"

AmountInv == ChargeInv /\ ReadInv /\ Covered

(* What is vouched for was reserved and made.                              *)
LEMMA VouchedIsMade ==
  ASSUME IInv, ChargeInv, ReadInv, NEW n, NEW r \in Vouched(n)
  PROVE  r \in Made /\ attempt[r].status # "none"
<1>1. refund[r] = "succeeded"
  BY DEF ChargeInv, ReadInv, Vouched
<1> QED BY <1>1 DEF Made, Vouched, ChargeInv

-----------------------------------------------------------------------------
(* The steps change amounts, totals and entries of the ledger in few       *)
(* places.                                                                 *)
AmountsStay ==
  \A r \in Refunds : attempt[r].status # "none" =>
    attempt'[r].status # "none" /\ attempt'[r].amount = attempt[r].amount

LEMMA AmountsAreFinal ==
  ASSUME IInv, [Next]_vars
  PROVE  AmountsStay
<1>1. attempt \in [Refunds -> AttemptRec]
  BY ProcTypes DEF IInv
<1>2. ASSUME NEW s \in Refunds, Sweep(s)
      PROVE  AmountsStay
  BY <1>1, <1>2 DEF Sweep, AmountsStay, AttemptRec
<1>3. ASSUME NEW p \in Procs, Reserve(p)
      PROVE  AmountsStay
  BY <1>1, <1>3 DEF Reserve, AmountsStay
<1>4. ASSUME NEW p \in Procs, SettleRefund(p)
      PROVE  AmountsStay
  <2>1. proc[p].of \in Refunds /\ proc[p].answer # "none"
    BY <1>4 DEF SettleRefund, IInv, ProcsInv, ProcInv
  <2>2. CASE UNCHANGED attempt
    BY <2>2 DEF AmountsStay
  <2>3. CASE attempt' = [attempt EXCEPT ![proc[p].of].status = proc[p].answer,
                                        ![proc[p].of].known = TRUE]
    BY <1>1, <2>1, <2>3 DEF AmountsStay, AttemptRec
  <2> QED BY <1>4, <2>2, <2>3 DEF SettleRefund
<1>5. ASSUME NEW p \in Procs, SettleVoid(p)
      PROVE  AmountsStay
  BY <1>1, <1>5 DEF SettleVoid, AmountsStay, AttemptRec
<1>6. CASE GiveUp
  BY <1>1, <1>6 DEF GiveUp, AmountsStay, AttemptRec
<1>7. CASE UNCHANGED attempt
  BY <1>7 DEF AmountsStay
<1> QED
  BY <1>2, <1>3, <1>4, <1>5, <1>6, <1>7
  DEF Next, Step, Request, Approve, Reject, RefundEnds, LockDispute, Gate, MovesMoney,
      FindsMoved, Refused, ReadTotal, ResolveDispute, CommitDecision, StatementTimeout,
      Fails, Dies, IdleTimeout, OpenDispute, ResolveWithoutRefund, Capture, RecordCapture,
      CanceledWebhook, RefundedWebhook, vars, rows

(* A process that does not begin to report a refund.                       *)
Quiet(q) ==
  \/ proc'[q] = proc[q]
  \/ /\ proc'[q].total \in {0, proc[q].total}
     /\ ~ Reporting(q)'
     /\ proc'[q].at = "charge" => refund'[proc'[q].of] = "succeeded"

AllQuiet == \A q \in Procs : Quiet(q)

LEMMA SetQuiet ==
  ASSUME TypeOK, NEW p \in Procs, NEW new, proc' = [proc EXCEPT ![p] = new],
         new.total \in {0, proc[p].total}, new.at \notin {"charge", "settle"}
  PROVE  AllQuiet
<1>1. proc'[p] = new /\ \A q \in Procs : q # p => proc'[q] = proc[q]
  BY ProcTypes
<1> QED BY <1>1 DEF AllQuiet, Quiet, Reporting

LEMMA IdleQuiet ==
  ASSUME TypeOK, NEW p \in Procs, proc' = [proc EXCEPT ![p] = Idle]
  PROVE  AllQuiet
<1>1. Idle.total = 0 /\ Idle.at \notin {"charge", "settle"}
  BY DEF Idle
<1> QED BY <1>1, SetQuiet

LEMMA OrphanQuiet ==
  ASSUME TypeOK, ReadInv, NEW p \in Procs, IdleTimeout(p)
  PROVE  AllQuiet
<1>1. PICK new \in ProcRec :
        /\ proc' = [proc EXCEPT ![p] = new]
        /\ new.at = proc[p].at /\ new.of = proc[p].of /\ new.total = proc[p].total
  BY OrphanProc
<1>2. proc[p].at \in {"provider", "charge"} /\ UNCHANGED refund
  BY DEF IdleTimeout, stripe
<1>3. proc'[p] = new /\ \A q \in Procs : q # p => proc'[q] = proc[q]
  BY <1>1, ProcTypes
<1>4. new.at = "charge" => refund[new.of] = "succeeded"
  BY <1>1 DEF ReadInv
<1> QED BY <1>1, <1>2, <1>3, <1>4 DEF AllQuiet, Quiet, Reporting

LEMMA AbortQuiet ==
  ASSUME TypeOK, NEW p \in Procs, Abort(p)
  PROVE  AllQuiet
<1>1. CASE proc' = [proc EXCEPT ![p] = Idle]
  BY <1>1, IdleQuiet
<1>2. CASE proc' = [proc EXCEPT ![p] = [proc[p] EXCEPT !.at = "giveup"]]
  <2> DEFINE new == [proc[p] EXCEPT !.at = "giveup"]
  <2>1. new.total = proc[p].total /\ new.at = "giveup"
    BY ProcTypes DEF ProcRec
  <2>2. proc' = [proc EXCEPT ![p] = new]
    BY <1>2
  <2> HIDE DEF new
  <2> QED BY <2>1, <2>2, SetQuiet
<1> QED BY <1>1, <1>2 DEF Abort

LEMMA FinishQuiet ==
  ASSUME TypeOK, NEW p \in Procs, NEW status, Finish(p, status)
  PROVE  AllQuiet
<1>1. GoesOn(p, {"resolve", "commit"})
  BY FinishProc
<1> QED BY <1>1 DEF GoesOn, OnlyMoves, AllQuiet, Quiet, Reporting, Idle
-----------------------------------------------------------------------------
(* What such a step keeps: what was read, and what is vouched for.         *)
LEMMA ReadsStay ==
  ASSUME IInv, ReadInv, AllQuiet, 0 \in totals, totals \subseteq totals',
         \A r \in Refunds : refund[r] = "succeeded" => refund'[r] = "succeeded"
  PROVE  ReadInv'
<1> SUFFICES ASSUME NEW q \in Procs
             PROVE  /\ proc'[q].total \in totals'
                    /\ proc'[q].at = "charge" \/ Reporting(q)'
                         => refund'[proc'[q].of] = "succeeded"
  BY DEF ReadInv
<1>1. proc[q].total \in totals /\ Quiet(q)
  BY DEF ReadInv, AllQuiet
<1>2. proc[q].at = "charge" \/ Reporting(q) => proc[q].of \in Refunds
  BY DEF IInv, ProcsInv, ProcInv, Reporting
<1>3. CASE proc'[q] = proc[q]
  BY <1>1, <1>2, <1>3 DEF ReadInv, Reporting
<1>4. CASE proc'[q] # proc[q]
  BY <1>1, <1>4 DEF Quiet
<1> QED BY <1>3, <1>4

LEMMA VouchesStay ==
  ASSUME AllQuiet, ledger' = ledger, NEW n
  PROVE  Vouched(n)' \subseteq Vouched(n)
BY DEF AllQuiet, Quiet, Vouched, Reporting

(* The bound holds on as long as nothing more is vouched for.              *)
LEMMA CoverStays ==
  ASSUME IInv, IInv', ChargeInv, ReadInv, Covered, AmountsStay,
         payment'.refunded >= payment.refunded,
         \A n \in Int : payment'.refunded <= n /\ n <= Amount
                          => Vouched(n)' \subseteq Vouched(n)
  PROVE  Covered'
<1> SUFFICES ASSUME NEW n \in Int, payment'.refunded <= n, n <= Amount
             PROVE  Sum(attempt', Vouched(n)') <= n
  BY DEF Covered
<1> DEFINE V == Vouched(n)
           W == Vouched(n)'
<1>1. payment.refunded \in Int /\ payment'.refunded \in Int
  BY RefundAssumption DEF IInv, TypeOK
<1>2. Sum(attempt, V) <= n
  BY <1>1 DEF Covered
<1>3. W \subseteq V /\ V \in SUBSET Refunds
  BY DEF Vouched
<1>4. \A r \in V : attempt'[r].amount = attempt[r].amount
  BY <1>3, VouchedIsMade DEF AmountsStay
<1> HIDE DEF V, W
<1>5. Sum(attempt', W) = Sum(attempt, W)
  BY <1>3, <1>4, SumSame
<1>6. Sum(attempt, W) <= Sum(attempt, V)
  BY <1>3, SumMonotone
<1>7. Sum(attempt, V) \in Nat /\ Sum(attempt, W) \in Nat
  BY <1>3, SumFinite
<1>8. Sum(attempt', W) <= n
  BY <1>2, <1>5, <1>6, <1>7
<1> QED BY <1>8 DEF W

(* Stripe's refunds stay as they are.                                      *)
LEMMA ChargeStays ==
  ASSUME IInv, ChargeInv, AmountsStay, UNCHANGED <<refund, first, charged, totals>>,
         payment'.refunded \in totals',
         \A r \in Refunds : ledger'[r] = 1 => refund[r] = "succeeded"
  PROVE  ChargeInv'
<1>1. Made' = Made /\ Made \in SUBSET Refunds
  BY DEF Made
<1>2. \A r \in Made : attempt'[r].amount = attempt[r].amount
  BY DEF Made, ChargeInv, AmountsStay
<1>3. Sum(attempt', Made) = Sum(attempt, Made)
  <2> HIDE DEF Made
  <2> QED BY <1>1, <1>2, SumSame
<1>4. charged' = Sum(attempt', Made')
  BY <1>1, <1>3 DEF ChargeInv
<1> QED BY <1>4 DEF ChargeInv, AmountsStay

(* A step that reports nothing new leaves the amount explained.            *)
LEMMA QuietSafe ==
  ASSUME IInv, IInv', AmountInv, AmountsStay, AllQuiet,
         UNCHANGED <<refund, first, charged, totals, ledger>>,
         payment'.refunded = payment.refunded
  PROVE  AmountInv'
<1>1. ChargeInv'
  BY ChargeStays DEF AmountInv, ChargeInv
<1>2. ReadInv'
  BY ReadsStay DEF AmountInv, ChargeInv
<1>3. payment'.refunded >= payment.refunded
  BY RefundAssumption DEF IInv, TypeOK
<1>4. Covered'
  BY <1>3, VouchesStay, CoverStays DEF AmountInv
<1> QED BY <1>1, <1>2, <1>4 DEF AmountInv

-----------------------------------------------------------------------------
(* Stripe makes a refund: the charge grows by its amount.                  *)
LEMMA MovesMoneyAmount ==
  ASSUME IInv, IInv', AmountInv, AmountsStay, NEW p \in Procs, MovesMoney(p)
  PROVE  AmountInv'
<1> DEFINE me == proc[p]
           r == me.of
<1>1. /\ me.at = "provider" /\ r \in Refunds /\ me \in ProcRec
      /\ me.kind \in {"refund", "void"} /\ attempt[r].status # "none"
      /\ UNCHANGED <<payment, attempt, ledger>>
  BY ProcTypes DEF MovesMoney, IInv, ProcsInv, ProcInv, Asking, ProcRec, rows
<1>2. ASSUME me.kind = "refund" => refund'[r] = first'[r]
      PROVE  AllQuiet
  <2> DEFINE answer == IF me.kind = "void" THEN "canceled" ELSE first'[r]
             next == IF me.kind = "refund" /\ first'[r] = "succeeded" THEN "charge"
                                                                    ELSE "settle"
             new == [me EXCEPT !.answer = answer, !.at = next]
  <2>1. CASE Abort(p)
    BY <2>1, AbortQuiet DEF IInv
  <2>2. CASE proc' = [proc EXCEPT ![p].answer = answer, ![p].at = next]
    <3>1. proc' = [proc EXCEPT ![p] = new]
      BY <2>2, ProcTypes DEF IInv, ProcRec
    <3>2. /\ new.at = next /\ new.answer = answer /\ new.of = r
          /\ new.total = me.total /\ new.kind = me.kind
      <4> HIDE DEF answer, next
      <4> QED BY <1>1 DEF ProcRec
    <3> HIDE DEF new
    <3>3. proc'[p] = new /\ \A q \in Procs : q # p => proc'[q] = proc[q]
      BY <3>1, ProcTypes DEF IInv
    <3>4. ~ (next = "settle" /\ me.kind = "refund" /\ answer = "succeeded")
      OBVIOUS
    <3>5. next = "charge" => refund'[r] = "succeeded"
      BY <1>2
    <3> HIDE DEF next, answer
    <3> QED BY <3>2, <3>3, <3>4, <3>5 DEF AllQuiet, Quiet, Reporting
  <2> QED BY <2>1, <2>2 DEF MovesMoney
<1>3. CASE me.kind = "void"
  <2>1. UNCHANGED <<refund, first, charged, totals>>
    BY <1>3 DEF MovesMoney, CancelIntent
  <2> QED BY <1>1, <1>2, <1>3, <2>1, QuietSafe
<1>4. CASE me.kind = "refund"
  <2>1. MakeRefund(r)
    BY <1>4 DEF MovesMoney
  <2>2. PICK now \in {"pending", "succeeded"} :
          refund' = [refund EXCEPT ![r] = now] /\ first' = [first EXCEPT ![r] = now]
    BY <2>1 DEF MakeRefund
  <2>3. /\ refund[r] = "none" /\ refund'[r] = now /\ first'[r] = now
        /\ \A s \in Refunds : s # r => refund'[s] = refund[s] /\ first'[s] = first[s]
    BY <1>1, <2>1, <2>2 DEF MakeRefund, IInv, TypeOK
  <2>4. AllQuiet
    BY <1>2, <2>3
  <2>5. Made' = Made \cup {r} /\ r \notin Made /\ Made \in SUBSET Refunds
    BY <1>1, <2>3 DEF Made
  <2>6. attempt[r].amount \in 0 .. Amount
    BY <1>1, ProcTypes DEF IInv, AttemptRec
  <2>7. Sum(attempt, Made') = Sum(attempt, Made) + attempt[r].amount
    <3> HIDE DEF Made, r
    <3> QED BY <1>1, <2>5, <2>6, SumAdd
  <2>8. charged' = charged + attempt[r].amount /\ totals' = totals \cup {charged'}
    BY <2>1 DEF MakeRefund
  <2>9. charged' = Sum(attempt', Made')
    BY <1>1, <2>7, <2>8 DEF AmountInv, ChargeInv
  <2>10. \A s \in Refunds : refund[s] = "succeeded" => refund'[s] = "succeeded"
    BY <2>3
  <2>11. ChargeInv'
    BY <1>1, <2>3, <2>8, <2>9, <2>10 DEF AmountInv, ChargeInv
  <2>12. ReadInv'
    BY <2>4, <2>8, <2>10, ReadsStay DEF AmountInv, ChargeInv
  <2>13. payment'.refunded >= payment.refunded
    BY <1>1, RefundAssumption DEF IInv, TypeOK
  <2>14. Covered'
    BY <1>1, <2>4, <2>13, VouchesStay, CoverStays DEF AmountInv
  <2> QED BY <2>11, <2>12, <2>14 DEF AmountInv
<1> QED BY <1>1, <1>3, <1>4

(* A refund answered as pending ends; a failed one leaves the charge.      *)
LEMMA RefundEndsAmount ==
  ASSUME IInv, IInv', AmountInv, AmountsStay, NEW r \in Refunds, RefundEnds(r)
  PROVE  AmountInv'
<1>1. PICK end \in {"succeeded", "failed"} :
        /\ refund' = [refund EXCEPT ![r] = end]
        /\ charged' = IF end = "failed" THEN charged - attempt[r].amount ELSE charged
  BY DEF RefundEnds
<1>2. /\ refund[r] = "pending" /\ totals' = totals \cup {charged'}
      /\ UNCHANGED <<payment, attempt, ledger, first, proc>>
  BY DEF RefundEnds, rows
<1>3. refund'[r] = end /\ \A s \in Refunds : s # r => refund'[s] = refund[s]
  BY <1>1 DEF IInv, TypeOK
<1>4. \A s \in Refunds : refund[s] = "succeeded" => refund'[s] = "succeeded"
  BY <1>2, <1>3
<1>5. charged' = Sum(attempt, Made')
  <2>1. CASE end = "succeeded"
    <3>1. Made' = Made
      BY <1>2, <1>3, <2>1 DEF Made
    <3> QED BY <1>1, <2>1, <3>1 DEF AmountInv, ChargeInv
  <2>2. CASE end = "failed"
    <3> DEFINE rest == Made \ {r}
    <3>1. Made' = rest /\ Made = rest \cup {r} /\ r \notin rest
      BY <1>2, <1>3, <2>2 DEF Made
    <3>2. attempt[r].amount \in 0 .. Amount
      BY ProcTypes DEF IInv, AttemptRec
    <3>3. rest \in SUBSET Refunds
      BY DEF Made
    <3> HIDE DEF rest
    <3>4. Sum(attempt, rest \cup {r}) = Sum(attempt, rest) + attempt[r].amount
      BY <3>1, <3>2, <3>3, SumAdd
    <3>5. Sum(attempt, rest) \in Nat
      BY <3>3, SumFinite
    <3>6. charged = Sum(attempt, rest \cup {r})
      BY <3>1 DEF AmountInv, ChargeInv
    <3> QED BY <1>1, <2>2, <3>1, <3>2, <3>4, <3>5, <3>6, RefundAssumption
  <2> QED BY <2>1, <2>2
<1>6. ChargeInv'
  BY <1>2, <1>3, <1>4, <1>5 DEF AmountInv, ChargeInv
<1>7. AllQuiet
  BY <1>2 DEF AllQuiet, Quiet
<1>8. ReadInv'
  BY <1>2, <1>4, <1>7, ReadsStay DEF AmountInv, ChargeInv
<1>9. payment'.refunded >= payment.refunded
  BY <1>2, RefundAssumption DEF IInv, TypeOK
<1>10. Covered'
  BY <1>2, <1>7, <1>9, VouchesStay, CoverStays DEF AmountInv
<1> QED BY <1>6, <1>8, <1>10 DEF AmountInv

(* A total is read: it covers whatever has been made by then, and with it  *)
(* everything that is vouched for.                                         *)
LEMMA ReadTotalAmount ==
  ASSUME IInv, IInv', AmountInv, AmountsStay, NEW p \in Procs, ReadTotal(p)
  PROVE  AmountInv'
<1> DEFINE me == proc[p]
<1>1. /\ me.at = "charge" /\ me \in ProcRec /\ me.of \in Refunds
      /\ UNCHANGED <<payment, attempt, ledger, refund, first, charged, totals>>
  BY ProcTypes DEF ReadTotal, IInv, ProcsInv, ProcInv, rows, stripe
<1>2. CASE Abort(p)
  BY <1>1, <1>2, AbortQuiet, QuietSafe DEF IInv
<1>3. CASE proc' = [proc EXCEPT ![p].total = charged, ![p].at = "settle"]
  <2> DEFINE new == [me EXCEPT !.total = charged, !.at = "settle"]
  <2>1. proc' = [proc EXCEPT ![p] = new]
    BY <1>3, ProcTypes DEF IInv, ProcRec
  <2>2. new.at = "settle" /\ new.total = charged /\ new.of = me.of
    BY <1>1 DEF ProcRec
  <2> HIDE DEF new
  <2>3. /\ proc'[p].at = "settle" /\ proc'[p].total = charged /\ proc'[p].of = me.of
        /\ \A q \in Procs : q # p => proc'[q] = proc[q]
    BY <2>1, <2>2, ProcTypes DEF IInv
  <2>4. ReadInv'
    BY <1>1, <2>3 DEF AmountInv, ChargeInv, ReadInv, Reporting
  <2>5. ChargeInv'
    BY <1>1, ChargeStays DEF AmountInv, ChargeInv
  <2>6. payment.refunded \in Int /\ payment'.refunded = payment.refunded /\ charged \in Int
    BY <1>1, RefundAssumption DEF IInv, TypeOK, UpToAmount
  <2>7. ASSUME NEW n \in Int, payment'.refunded <= n, n <= Amount
        PROVE  Sum(attempt', Vouched(n)') <= n
    <3> DEFINE W == Vouched(n)'
    <3>1. CASE charged <= n
      <4>1. W \in SUBSET Made /\ Made \in SUBSET Refunds
        BY <1>1, <2>4, <2>5 DEF Vouched, Made, ChargeInv, ReadInv
      <4> HIDE DEF W, Made
      <4>2. Sum(attempt, W) <= Sum(attempt, Made)
        BY <4>1, SumMonotone
      <4>3. Sum(attempt, W) \in Nat
        BY <4>1, SumFinite
      <4>4. charged = Sum(attempt, Made)
        BY DEF AmountInv, ChargeInv
      <4>5. Sum(attempt, W) <= n
        BY <2>6, <2>7, <3>1, <4>2, <4>3, <4>4
      <4> QED BY <1>1, <4>5 DEF W
    <3>2. CASE ~ (charged <= n)
      <4>1. W \subseteq Vouched(n) /\ Vouched(n) \in SUBSET Refunds
        BY <1>1, <2>3, <3>2 DEF Vouched, Reporting
      <4>2. Sum(attempt, Vouched(n)) <= n
        BY <2>6, <2>7 DEF AmountInv, Covered
      <4> DEFINE V == Vouched(n)
      <4> HIDE DEF W, V
      <4>3. Sum(attempt, W) <= Sum(attempt, V)
        BY <4>1, SumMonotone DEF V
      <4>4. Sum(attempt, W) \in Nat /\ Sum(attempt, V) \in Nat
        BY <4>1, SumFinite DEF V
      <4>5. Sum(attempt, W) <= n
        BY <2>7, <4>2, <4>3, <4>4 DEF V
      <4> QED BY <1>1, <4>5 DEF W
    <3> QED BY <3>1, <3>2
  <2>8. Covered'
    BY <2>7 DEF Covered
  <2> QED BY <2>4, <2>5, <2>8 DEF AmountInv
<1> QED BY <1>2, <1>3 DEF ReadTotal
(* A refund is recorded: it was vouched for by the total that is recorded. *)
LEMMA SettleRefundAmount ==
  ASSUME IInv, IInv', AmountInv, AmountsStay, NEW p \in Procs, SettleRefund(p)
  PROVE  AmountInv'
<1> DEFINE me == proc[p]
           r == me.of
           next == LargerOf(payment.refunded, me.total)
<1>1. /\ me.at = "settle" /\ me.kind = "refund" /\ r \in Refunds /\ me \in ProcRec
      /\ UNCHANGED <<refund, first, charged, totals>>
  BY ProcTypes DEF SettleRefund, IInv, ProcsInv, ProcInv, stripe
<1>2. AllQuiet
  <2>1. \E status : Finish(p, status)
    BY DEF SettleRefund
  <2> QED BY <2>1, FinishQuiet DEF IInv
<1>3. CASE UNCHANGED <<payment, ledger>>
  BY <1>1, <1>2, <1>3, QuietSafe
<1>4. CASE /\ me.answer = "succeeded"
           /\ payment' = [payment EXCEPT !.refunded = next,
                               !.status = IF next = Amount THEN "refunded" ELSE @]
           /\ ledger' = [ledger EXCEPT ![r] = @ + 1]
  <2>1. Reporting(p) /\ refund[r] = "succeeded" /\ me.total \in totals
    BY <1>1, <1>4 DEF Reporting, AmountInv, ReadInv
  <2>2. \A s \in Refunds : s # r => ledger'[s] = ledger[s]
    BY <1>4 DEF IInv, TypeOK
  <2>3. payment'.refunded = next
    BY <1>4, ProcTypes DEF IInv, PaymentRec
  <2>4. payment.refunded \in Int /\ me.total \in Int
    BY <1>1, RefundAssumption DEF IInv, TypeOK, ProcRec, UpToAmount
  <2>5. /\ next >= payment.refunded /\ next >= me.total /\ next \in Int
        /\ next \in {payment.refunded, me.total}
    BY <2>4 DEF LargerOf
  <2>6. ChargeInv'
    BY <1>1, <2>1, <2>2, <2>3, <2>5, ChargeStays DEF AmountInv, ChargeInv
  <2>7. ReadInv'
    BY <1>1, <1>2, ReadsStay DEF AmountInv, ChargeInv
  <2>8. ASSUME NEW n \in Int, payment'.refunded <= n, n <= Amount
        PROVE  Vouched(n)' \subseteq Vouched(n)
    <3>1. me.total <= n
      BY <2>3, <2>4, <2>5, <2>8
    <3>2. r \in Vouched(n)
      BY <1>1, <2>1, <3>1 DEF Vouched
    <3>3. ASSUME NEW s \in Vouched(n)', s # r
          PROVE  s \in Vouched(n)
      <4>1. s \in Refunds
        BY DEF Vouched
      <4>2. CASE ledger'[s] = 1
        BY <2>2, <3>3, <4>1, <4>2 DEF Vouched
      <4>3. ASSUME NEW q \in Procs, Reporting(q)', proc'[q].of = s, proc'[q].total <= n
            PROVE  s \in Vouched(n)
        BY <1>2, <4>1, <4>3 DEF AllQuiet, Quiet, Vouched, Reporting
      <4> QED BY <4>2, <4>3 DEF Vouched
    <3> QED BY <3>2, <3>3
  <2>9. payment'.refunded >= payment.refunded
    BY <2>3, <2>5
  <2>10. Covered'
    BY <2>8, <2>9, CoverStays DEF AmountInv
  <2> QED BY <2>6, <2>7, <2>10 DEF AmountInv
<1> QED BY <1>3, <1>4 DEF SettleRefund

(* A webhook raises the amount to a total that the charge has had.         *)
LEMMA WebhookAmount ==
  ASSUME IInv, IInv', AmountInv, AmountsStay, RefundedWebhook
  PROVE  AmountInv'
<1>1. UNCHANGED <<refund, first, charged, totals, ledger, proc, attempt>>
  BY DEF RefundedWebhook, stripe
<1>2. AllQuiet
  BY <1>1 DEF AllQuiet, Quiet
<1>3. PICK total \in totals : payment'.refunded = LargerOf(payment.refunded, total)
  <2>1. PICK total \in totals \ {0} :
          payment' = [payment EXCEPT !.refunded = LargerOf(@, total),
                                  !.status = IF total = Amount THEN "refunded" ELSE @]
    BY DEF RefundedWebhook
  <2> QED BY <2>1, ProcTypes DEF IInv, PaymentRec
<1>4. payment.refunded \in Int /\ total \in Int
  BY RefundAssumption DEF IInv, TypeOK, UpToAmount
<1>5. payment'.refunded >= payment.refunded /\ payment'.refunded \in {payment.refunded, total}
  BY <1>3, <1>4 DEF LargerOf
<1>6. ChargeInv'
  BY <1>1, <1>5, ChargeStays DEF AmountInv, ChargeInv
<1>7. ReadInv'
  BY <1>1, <1>2, ReadsStay DEF AmountInv, ChargeInv
<1>8. Covered'
  BY <1>1, <1>2, <1>5, VouchesStay, CoverStays DEF AmountInv
<1> QED BY <1>6, <1>7, <1>8 DEF AmountInv

-----------------------------------------------------------------------------
(* Every other step is quiet.  First the process.                          *)
LEMMA BeginsQuiet ==
  ASSUME IInv,
         \/ \E p \in Handlers, r \in Refunds : Request(p, r) \/ Approve(p, r)
         \/ \E r \in Refunds : Sweep(r)
  PROVE  AllQuiet
<1>1. ASSUME NEW p \in Procs, NEW new, new.total = 0,
             new.at \in {"dispute", "reserve", "provider"}, proc' = [proc EXCEPT ![p] = new]
      PROVE  AllQuiet
  BY <1>1, SetQuiet DEF IInv
<1>2. ASSUME NEW p \in Handlers, NEW r \in Refunds, Request(p, r) \/ Approve(p, r)
      PROVE  AllQuiet
  <2> DEFINE To(op) == [Idle EXCEPT !.op = op, !.of = r,
                    !.at = IF r \in DisputeRefunds THEN "dispute" ELSE "reserve"]
  <2>1. \A op : To(op).total = 0 /\ To(op).at \in {"dispute", "reserve", "provider"}
    BY DEF Idle
  <2>2. \E op : proc' = [proc EXCEPT ![p] = To(op)]
    BY <1>2 DEF Request, Approve
  <2> HIDE DEF To
  <2> QED BY <1>1, <2>1, <2>2 DEF Procs
<1>3. ASSUME NEW r \in Refunds, Sweep(r)
      PROVE  AllQuiet
  <2> DEFINE me == [Idle EXCEPT !.op = "sweep", !.of = r, !.at = "provider",
                    !.kind = attempt[r].kind, !.known = attempt[r].known]
  <2>1. me.total = 0 /\ me.at = "provider"
    BY DEF Idle
  <2>2. proc' = [proc EXCEPT ![Sweeper] = me]
    BY <1>3 DEF Sweep
  <2> HIDE DEF me
  <2> QED BY <1>1, <2>1, <2>2 DEF Procs
<1> QED BY <1>2, <1>3

LEMMA ReserveQuiet ==
  ASSUME IInv, NEW p \in Procs, LockDispute(p) \/ Reserve(p) \/ ResolveDispute(p)
  PROVE  AllQuiet
<1> DEFINE me == proc[p]
<1>1. me \in ProcRec
  BY ProcTypes DEF IInv
<1>2. CASE Abort(p)
  BY <1>2, AbortQuiet DEF IInv
<1>3. CASE proc' = [proc EXCEPT ![p] = Idle]
  BY <1>3, IdleQuiet DEF IInv
<1>4. ASSUME NEW stage \in Stages \ {"charge", "settle"},
             proc' = [proc EXCEPT ![p].at = stage]
      PROVE  AllQuiet
  <2> DEFINE new == [me EXCEPT !.at = stage]
  <2>1. new.total = me.total /\ new.at = stage
    BY <1>1 DEF ProcRec
  <2>2. proc' = [proc EXCEPT ![p] = new]
    BY <1>4
  <2> HIDE DEF new
  <2> QED BY <2>1, <2>2, SetQuiet DEF IInv
<1>5. ASSUME NEW a, Proceed(p, a)
      PROVE  AllQuiet
  <2> DEFINE To(stage) == [me EXCEPT !.kind = a.kind, !.known = a.known, !.at = stage]
  <2>1. \A stage : To(stage).total = me.total /\ To(stage).at = stage
    BY <1>1 DEF ProcRec
  <2>2. \/ proc' = [proc EXCEPT ![p] = Idle]
        \/ \E stage \in {"resolve", "commit", "gate", "provider"} :
             proc' = [proc EXCEPT ![p] = To(stage)]
    BY <1>5 DEF Proceed
  <2>3. CASE \E stage \in {"resolve", "commit", "gate", "provider"} :
               proc' = [proc EXCEPT ![p] = To(stage)]
    <3>1. PICK stage \in {"resolve", "commit", "gate", "provider"} :
            proc' = [proc EXCEPT ![p] = To(stage)]
      BY <2>3
    <3> DEFINE new == To(stage)
    <3>2. new.total = me.total /\ new.at \notin {"charge", "settle"}
      BY <2>1
    <3> HIDE DEF new
    <3> QED BY <3>1, <3>2, SetQuiet DEF new, IInv
  <2> QED BY <1>3, <2>2, <2>3
<1>6. CASE LockDispute(p)
  BY <1>2, <1>4, <1>6 DEF LockDispute, Goto, Stages
<1>7. CASE Reserve(p)
  BY <1>2, <1>5, <1>7 DEF Reserve
<1>8. CASE ResolveDispute(p)
  BY <1>3, <1>4, <1>8 DEF ResolveDispute, Stages
<1> QED BY <1>6, <1>7, <1>8

(* A process that finds its refund made finds it as it was or as it is.    *)
LEMMA FindsMovedQuiet ==
  ASSUME IInv, ChargeInv, NEW p \in Procs, FindsMoved(p)
  PROVE  AllQuiet
<1> DEFINE me == proc[p]
           seen == Seen(me)
           next == IF me.kind = "refund" /\ seen = "succeeded" THEN "charge" ELSE "settle"
           new == [me EXCEPT !.answer = seen, !.at = next]
<1>1. me \in ProcRec /\ me.of \in Refunds /\ UNCHANGED refund
  BY ProcTypes DEF FindsMoved, IInv, ProcsInv, ProcInv, stripe
<1>2. proc' = [proc EXCEPT ![p] = new]
  BY ProcTypes DEF FindsMoved, IInv, ProcRec
<1>3. /\ new.at = next /\ new.answer = seen /\ new.of = me.of
      /\ new.total = me.total /\ new.kind = me.kind
  <2> HIDE DEF seen, next
  <2> QED BY <1>1 DEF ProcRec
<1> HIDE DEF new
<1>4. proc'[p] = new /\ \A q \in Procs : q # p => proc'[q] = proc[q]
  BY <1>2, ProcTypes DEF IInv
<1>5. next = "charge" => refund[me.of] = "succeeded"
  BY <1>1 DEF Seen, ChargeInv
<1>6. ~ (next = "settle" /\ me.kind = "refund" /\ seen = "succeeded")
  OBVIOUS
<1> HIDE DEF next, seen
<1> QED BY <1>1, <1>3, <1>4, <1>5, <1>6 DEF AllQuiet, Quiet, Reporting
(* Then the money: neither Stripe nor the recorded amount changes.         *)
MoneyStays ==
  /\ UNCHANGED <<refund, first, charged, totals, ledger>>
  /\ payment'.refunded = payment.refunded

LEMMA ProcessMoneyStays ==
  ASSUME IInv, NEW p \in Procs,
         \/ Step(p) /\ ~ MovesMoney(p) /\ ~ SettleRefund(p)
         \/ Fails(p) \/ Dies(p) \/ IdleTimeout(p)
  PROVE  MoneyStays
<1>1. payment \in PaymentRec
  BY ProcTypes DEF IInv
<1>2. CASE UNCHANGED payment /\ UNCHANGED <<ledger, stripe>>
  BY <1>2 DEF MoneyStays, stripe
<1>3. CASE SettleVoid(p)
  BY <1>1, <1>3 DEF SettleVoid, MoneyStays, stripe, PaymentRec
<1>4. CASE ResolveDispute(p)
  BY <1>1, <1>4 DEF ResolveDispute, MoneyStays, stripe, PaymentRec
<1> QED
  BY <1>2, <1>3, <1>4
  DEF Step, LockDispute, Reserve, Gate, FindsMoved, Refused, ReadTotal, CommitDecision,
      StatementTimeout, Fails, Dies, IdleTimeout, rows

LEMMA OtherMoneyStays ==
  ASSUME IInv,
         \/ \E p \in Handlers, r \in Refunds : Request(p, r) \/ Approve(p, r)
         \/ \E r \in Refunds : Reject(r) \/ Sweep(r)
         \/ GiveUp \/ OpenDispute \/ ResolveWithoutRefund
         \/ Capture \/ RecordCapture \/ CanceledWebhook
         \/ UNCHANGED vars
  PROVE  MoneyStays
<1>1. payment \in PaymentRec
  BY ProcTypes DEF IInv
<1>2. UNCHANGED <<refund, first, charged, totals, ledger>>
  BY DEF Request, Approve, Reject, Sweep, GiveUp, OpenDispute, ResolveWithoutRefund,
         Capture, RecordCapture, CanceledWebhook, vars, rows, stripe
<1>3. CASE UNCHANGED payment
  BY <1>2, <1>3 DEF MoneyStays
<1>4. CASE OpenDispute \/ ResolveWithoutRefund \/ RecordCapture \/ CanceledWebhook
  <2>1. payment'.refunded = payment.refunded
    BY <1>1, <1>4
    DEF OpenDispute, ResolveWithoutRefund, RecordCapture, CanceledWebhook, PaymentRec
  <2> QED BY <1>2, <2>1 DEF MoneyStays
<1> QED BY <1>3, <1>4 DEF Request, Approve, Reject, Sweep, GiveUp, Capture, vars, rows

LEMMA NextAmount == IInv /\ IInv' /\ AmountInv /\ [Next]_vars => AmountInv'
<1> SUFFICES ASSUME IInv, IInv', AmountInv, [Next]_vars
             PROVE  AmountInv'
  OBVIOUS
<1>1. AmountsStay /\ TypeOK /\ ChargeInv
  BY AmountsAreFinal DEF IInv, AmountInv
<1>2. ASSUME AllQuiet, MoneyStays
      PROVE  AmountInv'
  BY <1>1, <1>2, QuietSafe DEF MoneyStays
<1>3. CASE \/ \E p \in Handlers, r \in Refunds : Request(p, r) \/ Approve(p, r)
           \/ \E r \in Refunds : Sweep(r)
  BY <1>2, <1>3, BeginsQuiet, OtherMoneyStays
<1>4. ASSUME NEW r \in Refunds, RefundEnds(r)
      PROVE  AmountInv'
  BY <1>1, <1>4, RefundEndsAmount
<1>5. ASSUME NEW p \in Procs, MovesMoney(p) \/ ReadTotal(p) \/ SettleRefund(p)
      PROVE  AmountInv'
  BY <1>1, <1>5, MovesMoneyAmount, ReadTotalAmount, SettleRefundAmount
<1>6. ASSUME NEW p \in Procs, Step(p) \/ Fails(p) \/ Dies(p) \/ IdleTimeout(p),
             ~ MovesMoney(p), ~ ReadTotal(p), ~ SettleRefund(p)
      PROVE  AmountInv'
  <2>1. MoneyStays
    BY <1>6, ProcessMoneyStays
  <2>2. AllQuiet
    <3>1. CASE LockDispute(p) \/ Reserve(p) \/ ResolveDispute(p) \/ FindsMoved(p)
      BY <1>1, <3>1, ReserveQuiet, FindsMovedQuiet
    <3>2. CASE Gate(p) \/ CommitDecision(p) \/ Dies(p)
      BY <1>1, <3>2, IdleQuiet DEF Gate, CommitDecision, Dies
    <3>3. CASE Refused(p) \/ StatementTimeout(p) \/ Fails(p)
      BY <1>1, <3>3, AbortQuiet DEF Refused, StatementTimeout, Fails
    <3>4. CASE SettleVoid(p)
      <4>1. \E status : Finish(p, status)
        BY <3>4 DEF SettleVoid
      <4> QED BY <1>1, <4>1, FinishQuiet
    <3>5. CASE IdleTimeout(p)
      BY <1>1, <3>5, OrphanQuiet DEF AmountInv
    <3> QED BY <1>6, <3>1, <3>2, <3>3, <3>4, <3>5 DEF Step
  <2> QED BY <1>2, <2>1, <2>2
<1>7. CASE GiveUp
  <2>1. AllQuiet
    BY <1>1, <1>7, IdleQuiet DEF GiveUp, Procs
  <2> QED BY <1>2, <1>7, <2>1, OtherMoneyStays
<1>8. CASE RefundedWebhook
  BY <1>1, <1>8, WebhookAmount
<1>9. CASE \/ \E r \in Refunds : Reject(r)
           \/ OpenDispute \/ ResolveWithoutRefund \/ Capture \/ RecordCapture
           \/ CanceledWebhook \/ UNCHANGED vars
  <2>1. proc' = proc
    BY <1>9
    DEF Reject, OpenDispute, ResolveWithoutRefund, Capture, RecordCapture,
        CanceledWebhook, vars
  <2>2. AllQuiet
    BY <2>1 DEF AllQuiet, Quiet
  <2>3. MoneyStays
    BY <1>9, OtherMoneyStays
  <2> QED BY <1>2, <2>2, <2>3
<1> QED BY <1>3, <1>4, <1>5, <1>6, <1>7, <1>8, <1>9 DEF Next

LEMMA InitAmount == Init => AmountInv
<1> SUFFICES ASSUME Init
             PROVE  AmountInv
  OBVIOUS
<1>1. Made = {} /\ \A n \in Int : Vouched(n) = {}
  BY DEF Init, Made, Vouched, Reporting, Idle
<1>2. Sum(attempt, {}) = 0
  <2>1. {c \in {} \X (1 .. Amount) : c[2] <= attempt[c[1]].amount} = {}
    OBVIOUS
  <2> QED BY <2>1, FS_EmptySet DEF Sum
<1>3. ChargeInv
  BY <1>1, <1>2 DEF Init, ChargeInv
<1>4. ReadInv
  BY DEF Init, ReadInv, Reporting, Idle
<1>5. Covered
  BY <1>1, <1>2 DEF Init, Covered
<1> QED BY <1>3, <1>4, <1>5 DEF AmountInv

LEMMA AmountExplained == IInv /\ AmountInv => RefundedIsExplained
<1> SUFFICES ASSUME IInv, AmountInv
             PROVE  RefundedIsExplained
  OBVIOUS
<1> DEFINE V == Vouched(payment.refunded)
           n == payment.refunded
<1>1. n \in Int /\ n <= n /\ n <= Amount
  BY RefundAssumption DEF IInv, TypeOK
<1>2. Sum(attempt, V) <= n
  BY <1>1 DEF AmountInv, Covered
<1>3. Recorded \subseteq V /\ V \in SUBSET Refunds
  BY DEF Recorded, Vouched
<1> HIDE DEF V, n
<1>4. Sum(attempt, Recorded) <= Sum(attempt, V)
  BY <1>3, SumMonotone
<1>5. Sum(attempt, Recorded) \in Nat /\ Sum(attempt, V) \in Nat
  BY <1>3, SumFinite
<1>6. Total(Recorded) = Sum(attempt, Recorded)
  BY DEF Total, Cents, Sum
<1>7. n >= Total(Recorded)
  BY <1>1, <1>2, <1>4, <1>5, <1>6
<1> QED BY <1>7 DEF n, RefundedIsExplained, AmountInv, ChargeInv

LEMMA AmountInvariance == Spec => [](IInv /\ AmountInv)
  BY InitAmount, Invariance, NextAmount, PTL DEF Spec

(* What the payment says was refunded covers the refunds recorded as made, *)
(* and Stripe did say so: settlements and webhooks carry totals read at    *)
(* different times and take effect in any order.                           *)
THEOREM RefundedCorrect == Spec => []RefundedIsExplained
  BY AmountInvariance, AmountExplained, PTL

-----------------------------------------------------------------------------
(* The refinement.  A step of PaymentRefund is one of the promise's or     *)
(* changes nothing it speaks of.                                           *)
Outcomes == [r \in Refunds |-> Outcome(attempt[r])]
Claims == [r \in Refunds |-> attempt[r].amount]

KeepsPromise == [Promise!Next]_(Promise!promiseVars)

LEMMA OutcomeValues ==
  ASSUME NEW a \in AttemptRec
  PROVE  /\ a.status = "none" <=> Outcome(a) = "none"
         /\ a.status \in {"pending", "failed"} <=> Outcome(a) = "asked"
         /\ a.status = "succeeded" /\ a.kind = "refund" <=> Outcome(a) = "returned"
         /\ a.status = "succeeded" /\ a.kind = "void" <=> Outcome(a) = "voided"
<1>1. a.status \in {"none", "pending", "succeeded", "failed"} /\ a.kind \in {"refund", "void"}
  BY DEF AttemptRec, RefundStates
<1> QED BY <1>1 DEF Outcome

(* One attempt changes.                                                    *)
LEMMA OneOutcome ==
  ASSUME NEW r \in Refunds, \A s \in Refunds : s # r => attempt'[s] = attempt[s]
  PROVE  /\ Outcomes' = [Outcomes EXCEPT ![r] = Outcome(attempt'[r])]
         /\ Claims' = [Claims EXCEPT ![r] = attempt'[r].amount]
<1> DEFINE o == Outcome(attempt'[r])
           n == attempt'[r].amount
<1>1. \A s \in Refunds : Outcome(attempt'[s]) = IF s = r THEN o ELSE Outcome(attempt[s])
  OBVIOUS
<1>2. \A s \in Refunds : attempt'[s].amount = IF s = r THEN n ELSE attempt[s].amount
  OBVIOUS
<1> HIDE DEF o, n
<1>3. Outcomes' = [Outcomes EXCEPT ![r] = o]
  BY <1>1 DEF Outcomes
<1>4. Claims' = [Claims EXCEPT ![r] = n]
  BY <1>2 DEF Claims
<1> QED BY <1>3, <1>4 DEF o, n

(* A step in which no attempt means anything else, and the amount stays.   *)
LEMMA SamePromise ==
  ASSUME payment'.refunded = payment.refunded,
         \A r \in Refunds : /\ Outcome(attempt'[r]) = Outcome(attempt[r])
                            /\ attempt'[r].amount = attempt[r].amount
  PROVE  KeepsPromise
<1>1. [r \in Refunds |-> Outcome(attempt'[r])] = [r \in Refunds |-> Outcome(attempt[r])]
  OBVIOUS
<1>2. [r \in Refunds |-> attempt'[r].amount] = [r \in Refunds |-> attempt[r].amount]
  OBVIOUS
<1> QED BY <1>1, <1>2 DEF KeepsPromise, Promise!promiseVars

(* What the promise sums up is what the ledger has recorded.               *)
LEMMA PromiseTotal ==
  IInv => Promise!Total(Promise!Returned) = Total(Recorded)
<1> SUFFICES ASSUME IInv
             PROVE  Promise!Total(Promise!Returned) = Total(Recorded)
  OBVIOUS
<1>1. Promise!Returned = Recorded
  <2>1. \A r \in Refunds : Outcome(attempt[r]) = "returned" <=> ledger[r] = 1
    BY ProcTypes, OutcomeValues DEF IInv, LedgerMatchesAttempts
  <2> QED BY <2>1 DEF Promise!Returned, Recorded
<1>2. \A S \in SUBSET Refunds :
        {c \in S \X (1 .. Amount) : c[2] <= [r \in Refunds |-> attempt[r].amount][c[1]]}
          = {c \in S \X (1 .. Amount) : c[2] <= attempt[c[1]].amount}
  OBVIOUS
<1>3. Recorded \in SUBSET Refunds
  BY DEF Recorded
<1>4. \A S : Promise!Cardinality(S) = Cardinality(S)
  BY Zenon DEF Promise!Cardinality, Cardinality
<1>5. Promise!Total(Recorded) = Total(Recorded)
  BY <1>2, <1>3, <1>4 DEF Promise!Total, Total, Cents
<1> QED BY <1>1, <1>5

(* Where the money was taken, nothing was voided.                          *)
LEMMA TakenNotVoided ==
  ASSUME IInv, intent = "taken"
  PROVE  \A r \in Refunds : Outcome(attempt[r]) # "voided"
<1>1. \A r \in Refunds : ~ (attempt[r].status = "succeeded" /\ attempt[r].kind = "void")
  BY DEF IInv, StatusIsExplained
<1> QED BY <1>1, ProcTypes, OutcomeValues DEF IInv

(* A reservation claims an amount.                                         *)
LEMMA ReservePromise ==
  ASSUME IInv, NEW p \in Procs, Reserve(p)
  PROVE  KeepsPromise
<1> SUFFICES ASSUME NEW r \in Refunds, proc[p].of = r
             PROVE  KeepsPromise
  BY DEF Reserve, IInv, ProcsInv, ProcInv
<1>1. r \in Refunds /\ attempt \in [Refunds -> AttemptRec] /\ payment' = payment
  BY ProcTypes DEF Reserve, IInv, ProcsInv, ProcInv
<1>2. CASE UNCHANGED attempt
  BY <1>1, <1>2, SamePromise
<1>3. CASE /\ attempt[r].status = "none" /\ Refundable(r)
           /\ attempt' = [attempt EXCEPT ![r] = NewAttempt(r)]
  <2> DEFINE n == NewAmount(r)
  <2>1. /\ attempt'[r] = NewAttempt(r)
        /\ \A s \in Refunds : s # r => attempt'[s] = attempt[s]
    BY <1>1, <1>3
  <2>2. NewAttempt(r).status = "pending" /\ NewAttempt(r).amount = n
    BY DEF NewAttempt
  <2>3. Outcome(attempt'[r]) = "asked"
    BY <2>1, <2>2 DEF Outcome
  <2>4. n \in 1 .. Amount
    <3>1. payment.refunded \in 0 .. Amount /\ Amount \in Nat
      BY RefundAssumption DEF IInv, TypeOK
    <3>2. n \in 1 .. Amount - payment.refunded
      BY <1>3 DEF Refundable
    <3> HIDE DEF n
    <3> QED BY <3>1, <3>2
  <2> HIDE DEF n
  <2>5. /\ Outcomes' = [Outcomes EXCEPT ![r] = "asked"]
        /\ Claims' = [Claims EXCEPT ![r] = n]
    BY <1>1, <2>1, <2>2, <2>3, OneOutcome
  <2>6. Outcome(attempt[r]) = "none"
    BY <1>1, <1>3, OutcomeValues
  <2>7. Promise!Ask(r)
    BY <1>1, <2>4, <2>5, <2>6 DEF Promise!Ask, Outcomes, Claims
  <2> QED BY <1>1, <2>7 DEF KeepsPromise, Promise!Next
<1> QED BY <1>2, <1>3 DEF Reserve

(* A settlement records an attempt as given back, or leaves it open.       *)
LEMMA SettleRefundPromise ==
  ASSUME IInv, IInv', ReadInv, RefundedIsExplained', NEW p \in Procs, SettleRefund(p)
  PROVE  KeepsPromise
<1> SUFFICES ASSUME NEW r \in Refunds, proc[p].of = r
             PROVE  KeepsPromise
  BY DEF SettleRefund, IInv, ProcsInv, ProcInv
<1> DEFINE me == proc[p]
           next == LargerOf(payment.refunded, me.total)
           new == [attempt[r] EXCEPT !.status = me.answer, !.known = TRUE]
<1>1. /\ me.at = "settle" /\ me.kind = "refund" /\ r \in Refunds /\ me \in ProcRec
      /\ attempt[r].status # "none" /\ attempt[r].kind = "refund"
      /\ me.answer \in {"pending", "succeeded", "failed"}
      /\ attempt \in [Refunds -> AttemptRec] /\ payment \in PaymentRec
  BY ProcTypes DEF SettleRefund, IInv, ProcsInv, ProcInv, Asking
<1>2. CASE UNCHANGED <<attempt, payment>>
  BY <1>2, SamePromise
<1>3. CASE /\ attempt[r].status # "succeeded"
           /\ attempt' = [attempt EXCEPT ![r].status = me.answer, ![r].known = TRUE]
           /\ IF me.answer = "succeeded"
                THEN payment' = [payment EXCEPT !.refunded = next,
                               !.status = IF next = Amount THEN "refunded" ELSE @]
                ELSE UNCHANGED payment
  <2>1. attempt' = [attempt EXCEPT ![r] = new]
    BY <1>1, <1>3 DEF AttemptRec
  <2>2. /\ new \in AttemptRec /\ new.status = me.answer /\ new.kind = "refund"
        /\ new.amount = attempt[r].amount
    BY <1>1 DEF AttemptRec, RefundStates
  <2> HIDE DEF new
  <2>3. attempt'[r] = new /\ \A s \in Refunds : s # r => attempt'[s] = attempt[s]
    BY <1>1, <2>1
  <2>4. Outcome(attempt[r]) = "asked"
    <3>1. attempt[r] \in AttemptRec /\ attempt[r].status \in {"pending", "failed"}
      BY <1>1, <1>3 DEF AttemptRec, RefundStates
    <3> QED BY <3>1, OutcomeValues
  <2>5. CASE me.answer # "succeeded"
    <3>1. Outcome(new) = "asked"
      BY <1>1, <2>2, <2>5, OutcomeValues
    <3> QED BY <1>3, <2>2, <2>3, <2>4, <2>5, <3>1, SamePromise
  <2>6. CASE me.answer = "succeeded"
    <3>1. Outcome(attempt'[r]) = "returned"
      BY <2>2, <2>3, <2>6, OutcomeValues
    <3>2. Outcomes' = [Outcomes EXCEPT ![r] = "returned"]
      BY <1>1, <2>3, <3>1, OneOutcome
    <3>3. Claims' = Claims
      <4>1. \A s \in Refunds : attempt'[s].amount = attempt[s].amount
        BY <2>2, <2>3
      <4> QED BY <4>1 DEF Claims
    <3>4. payment'.refunded = next
      BY <1>1, <1>3, <2>6 DEF PaymentRec
    <3>5. payment.refunded \in Int /\ me.total \in Int /\ Amount \in Nat
      BY <1>1, RefundAssumption DEF IInv, TypeOK, ProcRec, UpToAmount
    <3>6. payment'.refunded >= payment.refunded
      BY <3>4, <3>5 DEF LargerOf
    <3>7. payment'.refunded <= Amount
      BY <3>5 DEF IInv, TypeOK
    <3>8. intent = "taken"
      <4>1. refund[r] = "succeeded"
        BY <1>1, <2>6 DEF ReadInv, Reporting
      <4> QED BY <1>1, <4>1 DEF IInv, StripeInv
    <3>9. \A s \in Refunds : Outcome(attempt[s]) # "voided"
      BY <3>8, TakenNotVoided
    <3>10. payment'.refunded >= Promise!Total(Promise!Returned)'
      <4>1. (Promise!Total(Promise!Returned) = Total(Recorded))'
        BY PromiseTotal, PTL
      <4> QED BY <4>1 DEF RefundedIsExplained
    <3>11. Promise!Grow
      BY <3>6, <3>7, <3>9 DEF Promise!Grow
    <3>12. Promise!GiveBack(r)
      BY <2>4, <3>2, <3>3, <3>10, <3>11 DEF Promise!GiveBack, Outcomes, Claims
    <3> QED BY <1>1, <3>12 DEF KeepsPromise, Promise!Next
  <2> QED BY <2>5, <2>6
<1> QED BY <1>2, <1>3 DEF SettleRefund, Settled

(* A void is recorded, or becomes a refund.                                *)
LEMMA SettleVoidPromise ==
  ASSUME IInv, NEW p \in Procs, SettleVoid(p)
  PROVE  KeepsPromise
<1> SUFFICES ASSUME NEW r \in Refunds, proc[p].of = r
             PROVE  KeepsPromise
  BY DEF SettleVoid, IInv, ProcsInv, ProcInv
<1> DEFINE me == proc[p]
<1>1. /\ me.at = "settle" /\ me.kind = "void" /\ r \in Refunds
      /\ intent = me.answer /\ attempt[r].status # "none"
      /\ attempt[r].kind = "refund" => intent = "taken"
      /\ attempt \in [Refunds -> AttemptRec] /\ payment \in PaymentRec
  BY ProcTypes DEF SettleVoid, IInv, ProcsInv, ProcInv, Asking
<1>2. CASE UNCHANGED <<attempt, payment>>
  BY <1>2, SamePromise
<1>3. ASSUME attempt[r].status # "succeeded"
      PROVE  Outcome(attempt[r]) = "asked"
  <2>1. attempt[r] \in AttemptRec /\ attempt[r].status \in {"pending", "failed"}
    BY <1>1, <1>3 DEF AttemptRec, RefundStates
  <2> QED BY <2>1, OutcomeValues
<1>4. CASE /\ attempt[r].status # "succeeded"
           /\ attempt' = [attempt EXCEPT ![r].kind = "refund"] /\ UNCHANGED payment
  <2> DEFINE new == [attempt[r] EXCEPT !.kind = "refund"]
  <2>1. attempt' = [attempt EXCEPT ![r] = new]
    BY <1>1, <1>4 DEF AttemptRec
  <2>2. /\ new \in AttemptRec /\ new.status = attempt[r].status
        /\ new.amount = attempt[r].amount
    BY <1>1 DEF AttemptRec
  <2> HIDE DEF new
  <2>3. attempt'[r] = new /\ \A s \in Refunds : s # r => attempt'[s] = attempt[s]
    BY <1>1, <2>1
  <2>4. new.status \in {"pending", "failed"}
    BY <1>1, <1>4, <2>2 DEF AttemptRec, RefundStates
  <2>5. Outcome(new) = "asked"
    BY <2>2, <2>4, OutcomeValues
  <2> QED BY <1>3, <1>4, <2>2, <2>3, <2>5, SamePromise
<1>5. CASE /\ attempt[r].status # "succeeded" /\ me.answer = "canceled"
           /\ attempt' = [attempt EXCEPT ![r].status = "succeeded"]
           /\ payment' = [payment EXCEPT !.status =
                            IF @ = "authorized" THEN "canceled" ELSE @]
  <2> DEFINE new == [attempt[r] EXCEPT !.status = "succeeded"]
  <2>1. attempt' = [attempt EXCEPT ![r] = new]
    BY <1>1, <1>5 DEF AttemptRec
  <2>2. attempt[r].kind = "void"
    BY <1>1, <1>5 DEF AttemptRec
  <2>3. /\ new \in AttemptRec /\ new.status = "succeeded" /\ new.kind = "void"
        /\ new.amount = attempt[r].amount
    BY <1>1, <2>2 DEF AttemptRec, RefundStates
  <2> HIDE DEF new
  <2>4. attempt'[r] = new /\ \A s \in Refunds : s # r => attempt'[s] = attempt[s]
    BY <1>1, <2>1
  <2>5. Outcome(attempt'[r]) = "voided"
    BY <2>3, <2>4, OutcomeValues
  <2>6. Outcomes' = [Outcomes EXCEPT ![r] = "voided"]
    BY <1>1, <2>4, <2>5, OneOutcome
  <2>7. Claims' = Claims
    <3>1. \A s \in Refunds : attempt'[s].amount = attempt[s].amount
      BY <2>3, <2>4
    <3> QED BY <3>1 DEF Claims
  <2>8. payment'.refunded = payment.refunded
    BY <1>1, <1>5 DEF PaymentRec
  <2>9. payment.refunded = 0
    BY <1>1, <1>5 DEF IInv, StripeInv
  <2>10. Outcome(attempt[r]) = "asked"
    BY <1>3, <1>5
  <2>11. Promise!Void(r)
    BY <2>6, <2>7, <2>8, <2>9, <2>10 DEF Promise!Void, Outcomes, Claims
  <2> QED BY <1>1, <2>11 DEF KeepsPromise, Promise!Next
<1> QED BY <1>2, <1>4, <1>5 DEF SettleVoid, Settled

(* The job touches attempts without changing what they mean.               *)
LEMMA SweeperPromise ==
  ASSUME IInv, GiveUp \/ \E r \in Refunds : Sweep(r)
  PROVE  KeepsPromise
<1>1. attempt \in [Refunds -> AttemptRec] /\ payment' = payment
  BY ProcTypes DEF Sweep, GiveUp, IInv
<1>2. ASSUME NEW r \in Refunds, Sweep(r)
      PROVE  KeepsPromise
  <2> DEFINE tries == IF attempt[r].tries < MaxTries THEN attempt[r].tries + 1
                                                   ELSE attempt[r].tries
  <2>1. attempt' = [attempt EXCEPT ![r] = [attempt[r] EXCEPT !.tries = tries]]
    BY <1>1, <1>2 DEF Sweep, AttemptRec
  <2> HIDE DEF tries
  <2>2. \A s \in Refunds :
          /\ attempt'[s].status = attempt[s].status /\ attempt'[s].kind = attempt[s].kind
          /\ attempt'[s].amount = attempt[s].amount
    BY <1>1, <2>1 DEF AttemptRec
  <2>3. \A s \in Refunds : Outcome(attempt'[s]) = Outcome(attempt[s])
    BY <2>2 DEF Outcome
  <2> QED BY <1>1, <2>2, <2>3, SamePromise
<1>3. CASE GiveUp
  <2> DEFINE r == proc[Sweeper].of
             now == IF attempt[r].status = "pending" /\ attempt[r].tries = MaxTries
                      THEN "failed" ELSE attempt[r].status
             new == [attempt[r] EXCEPT !.status = now]
  <2>1. r \in Refunds
    BY <1>3 DEF GiveUp, Procs, IInv, ProcsInv, ProcInv
  <2>2. attempt' = [attempt EXCEPT ![r] = new]
    BY <1>1, <1>3, <2>1 DEF GiveUp, AttemptRec
  <2>3. /\ new.status = now /\ new.kind = attempt[r].kind
        /\ new.amount = attempt[r].amount
    BY <1>1, <2>1 DEF AttemptRec
  <2> HIDE DEF new
  <2>4. attempt'[r] = new /\ \A s \in Refunds : s # r => attempt'[s] = attempt[s]
    BY <1>1, <2>1, <2>2
  <2>5. Outcome(new) = Outcome(attempt[r])
    BY <2>3 DEF Outcome
  <2> QED BY <1>1, <2>3, <2>4, <2>5, SamePromise
<1> QED BY <1>2, <1>3

(* A webhook reports more money given back than was known.                 *)
LEMMA WebhookPromise ==
  ASSUME IInv, IInv', RefundedWebhook
  PROVE  KeepsPromise
<1>1. PICK total \in totals \ {0} :
        /\ payment' = [payment EXCEPT !.refunded = LargerOf(@, total),
                                !.status = IF total = Amount THEN "refunded" ELSE @]
        /\ UNCHANGED attempt
  BY DEF RefundedWebhook
<1>2. payment.refunded \in Int /\ total \in Int /\ payment \in PaymentRec
  BY ProcTypes, RefundAssumption DEF IInv, TypeOK, UpToAmount
<1>3. payment'.refunded = LargerOf(payment.refunded, total)
  BY <1>1, <1>2 DEF PaymentRec
<1>4. payment'.refunded >= payment.refunded
  BY <1>2, <1>3 DEF LargerOf
<1>5. payment'.refunded <= Amount
  BY RefundAssumption DEF IInv, TypeOK
<1>6. \A r \in Refunds : Outcome(attempt[r]) # "voided"
  BY TakenNotVoided DEF IInv, StripeInv
<1>7. Promise!Report
  BY <1>1, <1>4, <1>5, <1>6 DEF Promise!Report, Promise!Grow
<1> QED BY <1>7 DEF KeepsPromise, Promise!Next

LEMMA StepPromise ==
  ASSUME IInv, IInv', ReadInv, RefundedIsExplained', [Next]_vars
  PROVE  KeepsPromise
<1>1. ASSUME NEW p \in Procs, Reserve(p) \/ SettleRefund(p) \/ SettleVoid(p)
      PROVE  KeepsPromise
  BY <1>1, ReservePromise, SettleRefundPromise, SettleVoidPromise
<1>2. CASE RefundedWebhook
  BY <1>2, WebhookPromise
<1>3. CASE GiveUp \/ \E r \in Refunds : Sweep(r)
  BY <1>3, SweeperPromise
<1>4. ASSUME UNCHANGED attempt, MoneyStays
      PROVE  KeepsPromise
  BY <1>4, SamePromise DEF MoneyStays
<1>5. ASSUME UNCHANGED attempt, UNCHANGED payment
      PROVE  KeepsPromise
  BY <1>5, SamePromise
<1>6. ASSUME NEW p \in Procs, Step(p) \/ Fails(p) \/ Dies(p) \/ IdleTimeout(p),
             ~ Reserve(p), ~ SettleRefund(p), ~ SettleVoid(p)
      PROVE  KeepsPromise
  <2>1. CASE ResolveDispute(p)
    <3>1. payment'.refunded = payment.refunded /\ UNCHANGED attempt
      BY <2>1, ProcTypes DEF ResolveDispute, IInv, PaymentRec
    <3> QED BY <3>1, SamePromise
  <2>2. CASE ~ ResolveDispute(p)
    BY <1>5, <1>6, <2>2
    DEF Step, LockDispute, Gate, MovesMoney, FindsMoved, Refused, ReadTotal,
        CommitDecision, StatementTimeout, Fails, Dies, IdleTimeout, rows
  <2> QED BY <2>1, <2>2
<1>7. ASSUME NEW p \in Handlers, NEW r \in Refunds, Request(p, r) \/ Approve(p, r)
      PROVE  KeepsPromise
  BY <1>5, <1>7 DEF Request, Approve, rows
<1>8. ASSUME NEW r \in Refunds, Reject(r) \/ RefundEnds(r)
      PROVE  KeepsPromise
  BY <1>5, <1>8 DEF Reject, RefundEnds, rows
<1>9. CASE OpenDispute \/ ResolveWithoutRefund \/ Capture \/ RecordCapture
             \/ CanceledWebhook \/ UNCHANGED vars
  <2>1. UNCHANGED attempt
    BY <1>9
    DEF OpenDispute, ResolveWithoutRefund, Capture, RecordCapture, CanceledWebhook,
        vars, rows
  <2>2. MoneyStays
    BY <1>9, OtherMoneyStays
  <2> QED BY <1>4, <2>1, <2>2
<1> QED BY <1>1, <1>2, <1>3, <1>6, <1>7, <1>8, <1>9 DEF Next

(* However processes, approvals, retries, disputes and webhooks meet, the  *)
(* refunds of a payment are those of RefundPromise: each ends at most once *)
(* and for good, the amount refunded never falls and covers them, and what *)
(* was voided is not refunded as well.                                     *)
THEOREM PromiseCorrect == Spec => PromiseKept
<1>1. Init => Promise!Init
  <2> SUFFICES ASSUME Init
               PROVE  Promise!Init
    OBVIOUS
  <2>1. \A r \in Refunds : Outcome(attempt[r]) = "none" /\ attempt[r].amount = 0
    BY DEF Init, Outcome
  <2>2. payment.refunded = 0
    BY DEF Init
  <2>3. [r \in Refunds |-> Outcome(attempt[r])] = [r \in Refunds |-> "none"]
    BY <2>1
  <2>4. [r \in Refunds |-> attempt[r].amount] = [r \in Refunds |-> 0]
    BY <2>1
  <2> QED BY <2>2, <2>3, <2>4 DEF Promise!Init
<1>2. IInv /\ IInv' /\ AmountInv /\ RefundedIsExplained' /\ [Next]_vars
        => [Promise!Next]_(Promise!promiseVars)
  BY StepPromise DEF KeepsPromise, AmountInv
<1> QED
  BY <1>1, <1>2, AmountInvariance, RefundedCorrect, PTL
  DEF Spec, PromiseKept, Promise!Spec
=============================================================================
