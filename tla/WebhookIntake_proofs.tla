------------------------ MODULE WebhookIntake_proofs ------------------------
(* Proofs about WebhookIntake, for any set of events and handlers and any  *)
(* number of faults: types; what is acknowledged is done with; effects are *)
(* repeated for a fault only; the object shows the newest event.           *)
EXTENDS WebhookIntake, FiniteSetTheorems, TLAPS

(* What a handler has found out stays true while it works.                 *)
Informed(h) ==
  LET e == handler[h].of IN
    /\ handler[h].at = "none" <=> handler[h] = Free
    /\ handler[h].at # "none" => e \in Events /\ receipt[e] # "none"
    /\ handler[h].at = "drop" => Outdated(e)
    /\ handler[h].at = "handle" =>
         e <= watermark /\ (Outdated(e) => e \in overtaken)
    /\ handler[h].at = "mark" => ran[e] > 0

HandlerInv == \A h \in Handlers : Informed(h)

(* The handlers that may still commit the effects of an event.             *)
ToRun(e) ==
  {h \in Handlers : handler[h].of = e /\ handler[h].at \in {"compare", "handle"}}

(* Nobody but a fault makes a receipt claimable again.                     *)
Lost(e) ==
  \/ receipt[e] = "failed"
  \/ receipt[e] = "processing" /\ ~ (recent[e] /\ WorkedOn(e))

Counted(e) ==
  /\ receipt[e] = "none" <=> attempts[e] = 0
  /\ attempts[e] <= 1 + faults[e]
  /\ Lost(e) => attempts[e] <= faults[e]
  /\ ran[e] + Cardinality(ToRun(e)) <= attempts[e]

ClaimInv == \A e \in Events : Counted(e)

RanInv == \A e \in Events : ran[e] > 0 => e <= watermark

IInv ==
  /\ TypeOK
  /\ HandlerInv
  /\ ClaimInv
  /\ RanInv
  /\ ProcessedIsExplained
  /\ AnsweredIsDone
  /\ NewestWins
-----------------------------------------------------------------------------
(* The ways in which a step may begin to work on an event or stop working. *)
Claims(h, e, by) ==
  /\ Begin(h, e, by)
  /\ Claimable(e)
  /\ receipt' = [receipt EXCEPT ![e] = "processing"]
  /\ recent' = [recent EXCEPT ![e] = TRUE]
  /\ attempts' = [attempts EXCEPT ![e] = @ + 1]
  /\ handler' = [handler EXCEPT ![h] = [at |-> "compare", of |-> e, by |-> by]]

Refused(h, e, by) ==
  /\ Begin(h, e, by)
  /\ ~ Claimable(e)
  /\ handler' = [handler EXCEPT ![h] = [at |-> "look", of |-> e, by |-> by]]
  /\ UNCHANGED <<receipt, recent, attempts>>

(* A step of a handler or of time, the claim of a receipt told apart from  *)
(* a claim that is refused.                                                *)
AnyStep ==
  \/ \E h \in Handlers, e \in Events, by \in {"provider", "operator"} :
       Claims(h, e, by) \/ Refused(h, e, by)
  \/ \E h \in Handlers :
       Look(h) \/ Compare(h) \/ DropStale(h) \/ Handle(h) \/ MarkProcessed(h)
  \/ \E h \in Handlers : MarkFailed(h) \/ Dies(h)
  \/ \E e \in Events : Ages(e) \/ Resolve(e)
  \/ Release
  \/ UNCHANGED vars

LEMMA NextIsAnyStep == [Next]_vars => AnyStep
<1>1. ASSUME NEW h \in Handlers, NEW e \in Events,
             NEW by \in {"provider", "operator"}, Begin(h, e, by)
      PROVE  Claims(h, e, by) \/ Refused(h, e, by)
  BY <1>1 DEF Begin, Claims, Refused
<1>. QED
  BY <1>1 DEF Next, Step, Deliver, Replay, AnyStep

(* A handler that is done, or gone, is one less that may commit effects.   *)
LEMMA CountLeave ==
  ASSUME TypeOK, NEW h \in Handlers, NEW e \in Events,
         h \in ToRun(e), ToRun(e)' = ToRun(e) \ {h}
  PROVE  Cardinality(ToRun(e))' = Cardinality(ToRun(e)) - 1
<1>1. IsFiniteSet(ToRun(e))
  BY IntakeAssumption, FS_Subset DEF ToRun
<1>2. Cardinality(ToRun(e) \ {h}) = Cardinality(ToRun(e)) - 1
  BY <1>1, FS_RemoveElement
<1>. QED
  BY <1>2

(* A handler that claims an event is one more.                             *)
LEMMA CountClaim ==
  ASSUME TypeOK, NEW h \in Handlers, NEW e \in Events,
         h \notin ToRun(e), ToRun(e)' = ToRun(e) \cup {h}
  PROVE  Cardinality(ToRun(e))' = Cardinality(ToRun(e)) + 1
<1>1. IsFiniteSet(ToRun(e))
  BY IntakeAssumption, FS_Subset DEF ToRun
<1>2. Cardinality(ToRun(e) \cup {h}) = Cardinality(ToRun(e)) + 1
  BY <1>1, FS_AddElement
<1>. QED
  BY <1>2

LEMMA CountNat ==
  ASSUME NEW e \in Events
  PROVE  Cardinality(ToRun(e)) \in Nat
<1>1. IsFiniteSet(ToRun(e))
  BY IntakeAssumption, FS_Subset DEF ToRun
<1>. QED
  BY <1>1, FS_CardinalityType

(* A handler that leaves: its event has one handler less, or as many.      *)
LEMMA CountLeaves ==
  ASSUME TypeOK, NEW h \in Handlers, NEW e \in Events, Leaves(h)
  PROVE  /\ Cardinality(ToRun(e))' <= Cardinality(ToRun(e))
         /\ Cardinality(ToRun(e))' \in Nat
<1>0. Cardinality(ToRun(e)) \in Nat
  BY CountNat
<1>n. NoEvent \notin Events
  BY IntakeAssumption DEF NoEvent
<1>1. ToRun(e)' = ToRun(e) \ {h}
  BY <1>n DEF ToRun, Leaves, Free, TypeOK
<1>2. CASE h \in ToRun(e)
  <2>1. Cardinality(ToRun(e))' = Cardinality(ToRun(e)) - 1
    BY <1>1, <1>2, CountLeave
  <2>2. IsFiniteSet(ToRun(e))' /\ Cardinality(ToRun(e))' \in Nat
    <3>1. IsFiniteSet(ToRun(e) \ {h})
      BY IntakeAssumption, FS_Subset DEF ToRun
    <3>. QED
      BY <1>1, <3>1, FS_CardinalityType
  <2>. QED
    BY <1>0, <2>1, <2>2
<1>3. CASE h \notin ToRun(e)
  <2>1. ToRun(e)' = ToRun(e)
    BY <1>1, <1>3
  <2>. QED
    BY <1>0, <2>1
<1>. QED
  BY <1>2, <1>3

-----------------------------------------------------------------------------
LEMMA InitSafe == Init => IInv
<1>. SUFFICES ASSUME Init PROVE IInv
  OBVIOUS
<1>1. TypeOK
  BY IntakeAssumption DEF Init, TypeOK, Statuses, Free, Begun
<1>2. ClaimInv
  <2>. SUFFICES ASSUME NEW e \in Events PROVE Counted(e)
    BY DEF ClaimInv
  <2>1. ToRun(e) = {}
    BY DEF ToRun, Init, Free
  <2>2. Cardinality(ToRun(e)) = 0
    BY <2>1, FS_EmptySet
  <2>. QED
    BY <2>2 DEF Init, Lost, Counted
<1>3. HandlerInv
  BY DEF HandlerInv, Informed, Init, Free
<1>. QED
  BY <1>1, <1>2, <1>3
     DEF Init, IInv, RanInv, ProcessedIsExplained, AnsweredIsDone, NewestWins

(* A fault, an answer and the end of a handler touch one event's entry.    *)
LEMMA FaultCounts ==
  ASSUME TypeOK, NEW e \in Events, Fault(e)
  PROVE  /\ faults' \in [Events -> 0 .. MaxFaults]
         /\ faults'[e] = faults[e] + 1
         /\ \A d \in Events : d # e => faults'[d] = faults[d]
<1>1. faults[e] \in 0 .. MaxFaults /\ faults[e] + 1 \in 0 .. MaxFaults
  BY IntakeAssumption DEF Fault, TypeOK
<1>. QED
  BY <1>1 DEF Fault, TypeOK

LEMMA AnswerReaches ==
  ASSUME TypeOK, NEW h \in Handlers, handler[h].of \in Events, Answer(h)
  PROVE  /\ faults' \in [Events -> 0 .. MaxFaults]
         /\ answered' \in [Events -> BOOLEAN]
         /\ \A d \in Events : faults[d] <= faults'[d]
         /\ \A d \in Events : answered'[d] => answered[d] \/ d = handler[h].of
<1>0. PICK e \in Events : e = handler[h].of
  OBVIOUS
<1>n. \A d \in Events : faults[d] \in Nat
  BY IntakeAssumption DEF TypeOK
<1>1. CASE Fault(e) /\ UNCHANGED answered
  <2>1. /\ faults' \in [Events -> 0 .. MaxFaults]
        /\ faults'[e] = faults[e] + 1
        /\ \A d \in Events : d # e => faults'[d] = faults[d]
    BY <1>1, FaultCounts
  <2>2. \A d \in Events : faults[d] <= faults'[d]
    BY <2>1, <1>n
  <2>. QED
    BY <1>1, <2>1, <2>2 DEF TypeOK
<1>2. CASE UNCHANGED faults /\ (\/ UNCHANGED answered
                               \/ answered' = [answered EXCEPT ![e] = TRUE])
  <2>1. faults' = faults
    BY <1>2
  <2>2. \A d \in Events : faults[d] <= faults'[d]
    BY <2>1, <1>n
  <2>3. /\ answered' \in [Events -> BOOLEAN]
        /\ \A d \in Events : answered'[d] => answered[d] \/ d = e
    BY <1>2, Zenon DEF TypeOK
  <2>. QED
    BY <1>0, <2>1, <2>2, <2>3 DEF TypeOK
<1>. QED
  BY <1>0, <1>1, <1>2 DEF Answer

HandlerRec ==
  [at : Begun \cup {"look", "none"}, of : Events \cup {NoEvent},
   by : {"provider", "operator"}]

LEMMA HandlerMoves ==
  ASSUME TypeOK, NEW h \in Handlers, NEW v \in HandlerRec,
         handler' = [handler EXCEPT ![h] = v]
  PROVE  /\ handler' \in [Handlers -> HandlerRec]
         /\ handler'[h] = v
         /\ \A g \in Handlers : g # h => handler'[g] = handler[g]
BY DEF TypeOK, HandlerRec

LEMMA HandlerLeaves ==
  ASSUME TypeOK, NEW h \in Handlers, Leaves(h)
  PROVE  /\ handler' \in [Handlers -> HandlerRec]
         /\ handler'[h] = Free
         /\ \A g \in Handlers : g # h => handler'[g] = handler[g]
BY HandlerMoves DEF Leaves, Free, HandlerRec

(* Types, whatever step is taken.                                          *)
LEMMA TypeSafe == TypeOK /\ HandlerInv /\ AnyStep => TypeOK'
<1>. SUFFICES ASSUME TypeOK, HandlerInv, AnyStep PROVE TypeOK'
  OBVIOUS
<1>. USE IntakeAssumption
<1>1. CASE \E h \in Handlers, e \in Events, by \in {"provider", "operator"} :
             Claims(h, e, by)
  BY <1>1 DEF Claims, Begin, TypeOK, Statuses, Begun
<1>2. CASE \E h \in Handlers, e \in Events, by \in {"provider", "operator"} :
             Refused(h, e, by)
  BY <1>2 DEF Refused, Begin, TypeOK, Begun
<1>3. CASE \E h \in Handlers : Look(h)
  <2>1. PICK h \in Handlers : Look(h)
    BY <1>3
  <2>2. handler[h].of \in Events
    BY <2>1 DEF Look, HandlerInv, Informed
  <2>3. /\ faults' \in [Events -> 0 .. MaxFaults]
        /\ answered' \in [Events -> BOOLEAN]
    BY <2>1, <2>2, AnswerReaches DEF Look, TypeOK
  <2>. QED
    BY <2>1, <2>3, HandlerLeaves DEF Look, rows, TypeOK, HandlerRec
<1>4. CASE \E h \in Handlers : Compare(h)
  BY <1>4 DEF Compare, HandlerInv, Informed, TypeOK, Begun
<1>5. CASE \E h \in Handlers : DropStale(h) \/ MarkProcessed(h)
  <2>1. PICK h \in Handlers : handler[h].at \in {"drop", "mark"} /\ Finish(h)
    BY <1>5 DEF DropStale, MarkProcessed
  <2>2. handler[h].of \in Events
    BY <2>1 DEF HandlerInv, Informed
  <2>3. /\ faults' \in [Events -> 0 .. MaxFaults]
        /\ answered' \in [Events -> BOOLEAN]
    BY <2>1, <2>2, AnswerReaches DEF Finish
  <2>4. receipt' \in [Events -> Statuses]
    BY <2>1 DEF Finish, TypeOK, Statuses
  <2>. QED
    BY <2>1, <2>3, <2>4, HandlerLeaves DEF Finish, TypeOK, HandlerRec
<1>6. CASE \E h \in Handlers : Handle(h)
  <2>1. PICK h \in Handlers : Handle(h)
    BY <1>6
  <2>2. handler[h].of \in Events
    BY <2>1 DEF Handle, HandlerInv, Informed
  <2>3. ran' \in [Events -> Nat]
    BY <2>1, <2>2 DEF Handle, TypeOK
  <2>4. handler' \in [Handlers -> HandlerRec]
    BY <2>1 DEF Handle, TypeOK, HandlerRec, Begun
  <2>. QED
    BY <2>1, <2>2, <2>3, <2>4 DEF Handle, TypeOK, HandlerRec
<1>7. CASE \E h \in Handlers : MarkFailed(h) \/ Dies(h)
  <2>1. PICK h \in Handlers : MarkFailed(h) \/ Dies(h)
    BY <1>7
  <2>2. handler[h].of \in Events /\ Fault(handler[h].of) /\ Leaves(h)
    BY <2>1 DEF MarkFailed, Dies, HandlerInv, Informed
  <2>3. faults' \in [Events -> 0 .. MaxFaults]
    BY <2>2, FaultCounts
  <2>4. receipt' \in [Events -> Statuses]
    BY <2>1 DEF MarkFailed, Dies, rows, TypeOK, Statuses
  <2>. QED
    BY <2>1, <2>2, <2>3, <2>4, HandlerLeaves
       DEF MarkFailed, Dies, rows, TypeOK, HandlerRec
<1>8. CASE \E e \in Events : Ages(e) \/ Resolve(e)
  <2>1. PICK e \in Events : Ages(e) \/ Resolve(e)
    BY <1>8
  <2>2. CASE Ages(e)
    <3>1. faults' \in [Events -> 0 .. MaxFaults]
      BY <2>2, FaultCounts DEF Ages, TypeOK
    <3>2. recent' \in [Events -> BOOLEAN]
      BY <2>2 DEF Ages, TypeOK
    <3>. QED
      BY <2>2, <3>1, <3>2 DEF Ages, TypeOK
  <2>3. CASE Resolve(e)
    <3>1. receipt' \in [Events -> Statuses]
      BY <2>3 DEF Resolve, TypeOK, Statuses
    <3>. QED
      BY <2>3, <3>1 DEF Resolve, TypeOK
  <2>. QED
    BY <2>1, <2>2, <2>3
<1>9. CASE Release
  BY <1>9 DEF Release, TypeOK, Statuses
<1>10. CASE UNCHANGED vars
  BY <1>10 DEF vars, rows, TypeOK
<1>. QED
  BY <1>1, <1>2, <1>3, <1>4, <1>5, <1>6, <1>7, <1>8, <1>9, <1>10 DEF AnyStep
-----------------------------------------------------------------------------
(* What no step undoes.                                                    *)
LEMMA Grows ==
  ASSUME TypeOK, HandlerInv, AnyStep
  PROVE  /\ watermark \in Nat /\ watermark' \in Nat
         /\ watermark <= watermark'
         /\ overtaken \subseteq overtaken'
         /\ \A e \in Events : receipt[e] # "none" => receipt'[e] # "none"
         /\ \A e \in Events : ran[e] > 0 => ran'[e] > 0
         /\ \A g \in Handlers : handler[g].at = "handle" =>
              /\ handler[g].of <= watermark'
              /\ handler[g].of < watermark' => handler[g].of \in overtaken'
<1>. USE IntakeAssumption
<1>1. watermark \in Nat
  BY DEF TypeOK, NoEvent
<1>2. \A g \in Handlers : handler[g].at = "handle" =>
        /\ handler[g].of \in Nat
        /\ handler[g].of <= watermark
        /\ handler[g].of < watermark => handler[g].of \in overtaken
  BY DEF HandlerInv, Informed, Outdated
<1>3. CASE \E h \in Handlers : Compare(h)
  <2>1. PICK h \in Handlers : Compare(h)
    BY <1>3
  <2>2. receipt' = receipt /\ ran' = ran
    BY <2>1 DEF Compare
  <2>3. handler[h].of \in Events
    BY <2>1 DEF Compare, HandlerInv, Informed
  <2>4. CASE Outdated(handler[h].of)
    <3>1. watermark' = watermark /\ overtaken' = overtaken
      BY <2>1, <2>4 DEF Compare
    <3>. QED
      BY <1>1, <1>2, <2>2, <3>1
  <2>5. CASE ~ Outdated(handler[h].of)
    <3>1. /\ watermark' = handler[h].of
          /\ overtaken' = overtaken \cup
               {handler[g].of : g \in {g \in Handlers :
                  handler[g].at = "handle" /\ handler[g].of < handler[h].of}}
      BY <2>1, <2>5 DEF Compare
    <3>2. watermark' \in Nat /\ watermark <= watermark'
      <4>1. watermark' = handler[h].of
        BY <3>1
      <4>2. handler[h].of \in Nat /\ ~ (handler[h].of < watermark)
        BY <2>3, <2>5 DEF Outdated
      <4>. QED
        BY <1>1, <4>1, <4>2
    <3>3. \A g \in Handlers :
            handler[g].at = "handle" /\ handler[g].of < watermark'
              => handler[g].of \in overtaken'
      BY <3>1
    <3>4. \A g \in Handlers : handler[g].at = "handle" => handler[g].of <= watermark'
      BY <1>1, <1>2, <3>2
    <3>5. overtaken \subseteq overtaken'
      BY <3>1
    <3>. QED
      BY <1>1, <2>2, <3>2, <3>3, <3>4, <3>5
  <2>. QED
    BY <2>4, <2>5
<1>4. CASE ~ \E h \in Handlers : Compare(h)
  <2>1. watermark' = watermark /\ overtaken' = overtaken
    BY <1>4 DEF AnyStep, Claims, Refused, Begin, Look, DropStale, MarkProcessed,
                Finish, Handle, MarkFailed, Dies, Ages, Resolve, Release, rows, vars
  <2>2. \A e \in Events : ran[e] > 0 => ran'[e] > 0
    <3>1. CASE \E h \in Handlers : Handle(h)
      <4>1. PICK h \in Handlers : Handle(h)
        BY <3>1
      <4>. QED
        BY <4>1 DEF Handle, TypeOK
    <3>2. CASE ~ \E h \in Handlers : Handle(h)
      BY <1>4, <3>2 DEF AnyStep, Claims, Refused, Begin, Look, DropStale,
           MarkProcessed, Finish, MarkFailed, Dies, Ages, Resolve, Release,
           rows, vars
    <3>. QED
      BY <3>1, <3>2
  <2>3. \A e \in Events : receipt[e] # "none" => receipt'[e] # "none"
    BY <1>4 DEF AnyStep, Claims, Refused, Look, DropStale, MarkProcessed, Finish,
                Handle, MarkFailed, Dies, Ages, Resolve, Release, rows, vars, TypeOK
  <2>. QED
    BY <1>1, <1>2, <2>1, <2>2, <2>3
<1>. QED
  BY <1>3, <1>4

(* A handler that does not move is as well informed as before.             *)
LEMMA StaysInformed ==
  ASSUME TypeOK, HandlerInv, AnyStep, NEW g \in Handlers,
         handler'[g] = handler[g]
  PROVE  Informed(g)'
<1>. DEFINE e == handler[g].of
<1>1. Informed(g)
  BY DEF HandlerInv
<1>2. handler[g].at # "none" => e \in Events /\ receipt'[e] # "none"
  BY <1>1, Grows DEF Informed
<1>3. handler[g].at = "drop" => e < watermark'
  <2>1. handler[g].at = "drop" => e \in Nat /\ e < watermark
    BY <1>1, IntakeAssumption DEF Informed, Outdated
  <2>. QED
    BY <2>1, Grows
<1>4. handler[g].at = "handle" =>
        e <= watermark' /\ (e < watermark' => e \in overtaken')
  BY Grows
<1>5. handler[g].at = "mark" => ran'[e] > 0
  BY <1>1, Grows DEF Informed
<1>. QED
  BY <1>1, <1>2, <1>3, <1>4, <1>5 DEF Informed, Outdated

LEMMA HandlerSafe == TypeOK /\ HandlerInv /\ AnyStep => HandlerInv'
<1>. SUFFICES ASSUME TypeOK, HandlerInv, AnyStep PROVE HandlerInv'
  OBVIOUS
<1>. USE IntakeAssumption
<1>0. ASSUME NEW h \in Handlers, Informed(h)',
             \A g \in Handlers : g # h => handler'[g] = handler[g]
      PROVE  HandlerInv'
  BY <1>0, StaysInformed DEF HandlerInv
<1>00. ASSUME NEW h \in Handlers, Leaves(h) PROVE HandlerInv'
  <2>1. Informed(h)'
    BY <1>00, HandlerLeaves DEF Informed, Free
  <2>. QED
    BY <1>00, <1>0, <2>1, HandlerLeaves
<1>1. ASSUME NEW h \in Handlers, NEW e \in Events,
             NEW by \in {"provider", "operator"}, Claims(h, e, by)
      PROVE  HandlerInv'
  <2>1. /\ handler'[h] = [at |-> "compare", of |-> e, by |-> by]
        /\ \A g \in Handlers : g # h => handler'[g] = handler[g]
    BY <1>1 DEF Claims, TypeOK
  <2>2. receipt'[e] = "processing"
    BY <1>1 DEF Claims, TypeOK
  <2>3. Informed(h)'
    BY <2>1, <2>2 DEF Informed, Free
  <2>. QED
    BY <1>0, <2>1, <2>3
<1>2. ASSUME NEW h \in Handlers, NEW e \in Events,
             NEW by \in {"provider", "operator"}, Refused(h, e, by)
      PROVE  HandlerInv'
  <2>1. /\ handler'[h] = [at |-> "look", of |-> e, by |-> by]
        /\ \A g \in Handlers : g # h => handler'[g] = handler[g]
    BY <1>2 DEF Refused, TypeOK
  <2>2. receipt'[e] # "none"
    BY <1>2 DEF Refused, Claimable
  <2>3. Informed(h)'
    BY <2>1, <2>2 DEF Informed, Free
  <2>. QED
    BY <1>0, <2>1, <2>3
<1>3. ASSUME NEW h \in Handlers, Look(h) \/ DropStale(h) \/ MarkProcessed(h)
                                  \/ MarkFailed(h) \/ Dies(h)
      PROVE  HandlerInv'
  BY <1>3, <1>00 DEF Look, DropStale, MarkProcessed, Finish, MarkFailed, Dies
<1>4. ASSUME NEW h \in Handlers, Compare(h) PROVE HandlerInv'
  <2>. DEFINE e == handler[h].of
  <2>1. e \in Events /\ receipt[e] # "none"
    BY <1>4 DEF Compare, HandlerInv, Informed
  <2>2. CASE Outdated(e)
    <3>1. /\ handler'[h] = [handler[h] EXCEPT !.at = "drop"]
          /\ \A g \in Handlers : g # h => handler'[g] = handler[g]
          /\ receipt' = receipt /\ watermark' = watermark
      BY <1>4, <2>2 DEF Compare, TypeOK
    <3>2. handler'[h].at = "drop" /\ handler'[h].of = e
      BY <3>1 DEF TypeOK
    <3>3. Informed(h)'
      BY <2>1, <2>2, <3>1, <3>2 DEF Informed, Outdated, Free
    <3>. QED
      BY <1>0, <3>1, <3>3
  <2>3. CASE ~ Outdated(e)
    <3>1. /\ handler'[h] = [handler[h] EXCEPT !.at = "handle"]
          /\ \A g \in Handlers : g # h => handler'[g] = handler[g]
          /\ receipt' = receipt /\ watermark' = e
      BY <1>4, <2>3 DEF Compare, TypeOK
    <3>2. handler'[h].at = "handle" /\ handler'[h].of = e
      BY <3>1 DEF TypeOK
    <3>3. Informed(h)'
      BY <2>1, <3>1, <3>2 DEF Informed, Outdated, Free
    <3>. QED
      BY <1>0, <3>1, <3>3
  <2>. QED
    BY <2>2, <2>3
<1>5. ASSUME NEW h \in Handlers, Handle(h) PROVE HandlerInv'
  <2>. DEFINE e == handler[h].of
  <2>1. e \in Events /\ receipt[e] # "none"
    BY <1>5 DEF Handle, HandlerInv, Informed
  <2>2. /\ handler'[h].at = "mark" /\ handler'[h].of = e
        /\ \A g \in Handlers : g # h => handler'[g] = handler[g]
        /\ receipt' = receipt
    BY <1>5 DEF Handle, TypeOK
  <2>3. ran'[e] > 0
    BY <1>5, <2>1 DEF Handle, TypeOK
  <2>4. Informed(h)'
    BY <2>1, <2>2, <2>3 DEF Informed, Free
  <2>. QED
    BY <1>0, <2>2, <2>4
<1>6. CASE handler' = handler
  BY <1>6, StaysInformed DEF HandlerInv
<1>7. CASE (\E e \in Events : Ages(e) \/ Resolve(e)) \/ Release \/ UNCHANGED vars
  BY <1>6, <1>7 DEF Ages, Resolve, Release, vars
<1>. QED
  BY <1>1, <1>2, <1>3, <1>4, <1>5, <1>7 DEF AnyStep
-----------------------------------------------------------------------------
LEMMA Numbers ==
  ASSUME TypeOK, NEW e \in Events
  PROVE  /\ attempts[e] \in Nat /\ faults[e] \in Nat /\ ran[e] \in Nat
         /\ Cardinality(ToRun(e)) \in Nat
BY CountNat, IntakeAssumption DEF TypeOK

(* An event that a step leaves alone keeps its count.                      *)
LEMMA CountStays ==
  ASSUME TypeOK, TypeOK', NEW d \in Events, Counted(d),
         ToRun(d)' = ToRun(d), Lost(d)' => Lost(d),
         receipt'[d] = "none" <=> receipt[d] = "none",
         attempts'[d] = attempts[d], ran'[d] = ran[d], faults[d] <= faults'[d]
  PROVE  Counted(d)'
<1>1. faults'[d] \in Nat
  BY IntakeAssumption DEF TypeOK
<1>2. Cardinality(ToRun(d))' = Cardinality(ToRun(d))
  OBVIOUS
<1>. QED
  BY <1>1, <1>2, Numbers DEF Counted

LEMMA CountElsewhere ==
  ASSUME TypeOK, TypeOK', NEW h \in Handlers, NEW e \in Events,
         NEW d \in Events, d # e, Counted(d),
         handler[h].of \in {e, NoEvent}, handler'[h].of \in {e, NoEvent},
         \A g \in Handlers : g # h => handler'[g] = handler[g],
         receipt'[d] = receipt[d], recent'[d] = recent[d],
         attempts'[d] = attempts[d], ran'[d] = ran[d], faults[d] <= faults'[d]
  PROVE  Counted(d)'
<1>1. d # NoEvent
  BY IntakeAssumption DEF NoEvent
<1>2. \A g \in Handlers : handler'[g].of = d <=> handler[g].of = d
  BY <1>1
<1>3. \A g \in Handlers : handler[g].of = d => handler'[g] = handler[g]
  BY <1>1
<1>4. ToRun(d)' = ToRun(d)
  BY <1>2, <1>3 DEF ToRun
<1>5. WorkedOn(d)' <=> WorkedOn(d)
  BY <1>2, <1>3 DEF WorkedOn
<1>6. Lost(d)' => Lost(d)
  BY <1>5 DEF Lost
<1>. QED
  BY <1>4, <1>6, CountStays

(* The events of which no handler begins or ends the work.                 *)
LEMMA WorkStays ==
  ASSUME TypeOK, NEW h \in Handlers, NEW d \in Events,
         handler[h].at \notin Begun, handler'[h].at \notin Begun,
         \A g \in Handlers : g # h => handler'[g] = handler[g]
  PROVE  ToRun(d)' = ToRun(d) /\ (WorkedOn(d)' <=> WorkedOn(d))
BY DEF ToRun, WorkedOn, Begun

LEMMA ClaimSafe == TypeOK /\ TypeOK' /\ HandlerInv /\ ClaimInv /\ AnyStep => ClaimInv'
<1>. SUFFICES ASSUME TypeOK, TypeOK', HandlerInv, ClaimInv, AnyStep PROVE ClaimInv'
  OBVIOUS
<1>n. \A e \in Events : /\ attempts[e] \in Nat /\ attempts'[e] \in Nat
                        /\ faults[e] \in Nat /\ faults'[e] \in Nat
                        /\ ran[e] \in Nat /\ ran'[e] \in Nat
                        /\ Cardinality(ToRun(e)) \in Nat
  BY CountNat, IntakeAssumption DEF TypeOK
<1>c. \A e \in Events : Counted(e)
  BY DEF ClaimInv
<1>1. ASSUME NEW h \in Handlers, NEW e \in Events,
             NEW by \in {"provider", "operator"}, Claims(h, e, by)
      PROVE  ClaimInv'
  <2>1. /\ handler[h] = Free
        /\ handler'[h] = [at |-> "compare", of |-> e, by |-> by]
        /\ \A g \in Handlers : g # h => handler'[g] = handler[g]
        /\ ran' = ran /\ faults' = faults
    BY <1>1 DEF Claims, Begin, TypeOK
  <2>2. /\ receipt'[e] = "processing" /\ recent'[e] = TRUE
        /\ attempts'[e] = attempts[e] + 1
        /\ \A d \in Events : d # e =>
             /\ receipt'[d] = receipt[d] /\ recent'[d] = recent[d]
             /\ attempts'[d] = attempts[d]
    BY <1>1 DEF Claims, TypeOK
  <2>3. Counted(e)'
    <3>1. attempts[e] <= faults[e]
      BY <1>1, <1>c, <1>n DEF Claims, Claimable, Stalled, Lost, Counted
    <3>2. WorkedOn(e)'
      BY <2>1 DEF WorkedOn, Begun
    <3>3. ToRun(e)' = ToRun(e) \cup {h} /\ h \notin ToRun(e)
      BY <2>1 DEF ToRun, Free
    <3>4. Cardinality(ToRun(e))' = Cardinality(ToRun(e)) + 1
      BY <3>3, CountClaim
    <3>5. ran'[e] + Cardinality(ToRun(e))' <= attempts'[e]
      BY <1>c, <1>n, <2>1, <2>2, <3>4 DEF Counted
    <3>6. attempts'[e] <= 1 + faults'[e] /\ attempts'[e] # 0
      BY <1>n, <2>1, <2>2, <3>1
    <3>. QED
      BY <2>2, <3>2, <3>5, <3>6 DEF Counted, Lost
  <2>4. ASSUME NEW d \in Events, d # e PROVE Counted(d)'
    BY <1>c, <1>n, <2>1, <2>2, <2>4, CountElsewhere DEF Free
  <2>. QED
    BY <2>3, <2>4 DEF ClaimInv
<1>2. ASSUME NEW h \in Handlers, NEW e \in Events,
             NEW by \in {"provider", "operator"}, Refused(h, e, by)
      PROVE  ClaimInv'
  <2>1. /\ handler[h].at \notin Begun /\ handler'[h].at \notin Begun
        /\ \A g \in Handlers : g # h => handler'[g] = handler[g]
    BY <1>2 DEF Refused, Begin, Free, Begun, TypeOK
  <2>2. UNCHANGED <<receipt, recent, attempts, ran, faults>>
    BY <1>2 DEF Refused, Begin
  <2>3. ASSUME NEW d \in Events PROVE Counted(d)'
    <3>1. ToRun(d)' = ToRun(d) /\ (Lost(d)' => Lost(d))
      BY <2>1, <2>2, WorkStays DEF Lost
    <3>. QED
      BY <1>c, <1>n, <2>2, <3>1, CountStays
  <2>. QED
    BY <2>3 DEF ClaimInv
<1>3. ASSUME NEW h \in Handlers, Look(h) PROVE ClaimInv'
  <2>0. handler[h].of \in Events
    BY <1>3 DEF Look, HandlerInv, Informed
  <2>1. /\ handler[h].at \notin Begun /\ handler'[h].at \notin Begun
        /\ \A g \in Handlers : g # h => handler'[g] = handler[g]
    BY <1>3, HandlerLeaves DEF Look, Free, Begun
  <2>2. UNCHANGED <<receipt, recent, attempts, ran>>
    BY <1>3 DEF Look, rows
  <2>3. \A d \in Events : faults[d] <= faults'[d]
    BY <1>3, <1>n, <2>0, AnswerReaches DEF Look
  <2>4. ASSUME NEW d \in Events PROVE Counted(d)'
    <3>1. ToRun(d)' = ToRun(d) /\ (Lost(d)' => Lost(d))
      BY <2>1, <2>2, WorkStays DEF Lost
    <3>. QED
      BY <1>c, <2>2, <2>3, <3>1, CountStays
  <2>. QED
    BY <2>4 DEF ClaimInv
<1>4. ASSUME NEW h \in Handlers, DropStale(h) \/ MarkProcessed(h)
      PROVE  ClaimInv'
  <2>1. PICK e \in Events : e = handler[h].of /\ receipt[e] # "none"
    BY <1>4 DEF DropStale, MarkProcessed, HandlerInv, Informed
  <2>2. /\ Leaves(h) /\ handler'[h] = Free
        /\ \A g \in Handlers : g # h => handler'[g] = handler[g]
        /\ UNCHANGED <<recent, attempts, ran>>
    BY <1>4, HandlerLeaves DEF DropStale, MarkProcessed, Finish
  <2>3. \A d \in Events : faults[d] <= faults'[d]
    BY <1>4, <2>1, AnswerReaches DEF DropStale, MarkProcessed, Finish
  <2>4. /\ receipt'[e] = "processed"
        /\ \A d \in Events : d # e => receipt'[d] = receipt[d]
    BY <1>4, <2>1 DEF DropStale, MarkProcessed, Finish, TypeOK
  <2>5. Counted(e)'
    <3>1. /\ Cardinality(ToRun(e))' <= Cardinality(ToRun(e))
          /\ Cardinality(ToRun(e))' \in Nat
      BY <2>1, <2>2, CountLeaves
    <3>2. attempts[e] # 0 /\ attempts[e] <= 1 + faults[e]
          /\ ran[e] + Cardinality(ToRun(e)) <= attempts[e]
      BY <1>c, <2>1 DEF Counted
    <3>3. attempts'[e] <= 1 + faults'[e]
      BY <1>n, <2>1, <2>2, <2>3, <3>2
    <3>4. ran'[e] + Cardinality(ToRun(e))' <= attempts'[e]
      BY <1>n, <2>1, <2>2, <3>1, <3>2
    <3>. QED
      BY <2>2, <2>4, <3>2, <3>3, <3>4 DEF Counted, Lost
  <2>6. ASSUME NEW d \in Events, d # e PROVE Counted(d)'
    BY <1>c, <2>1, <2>2, <2>3, <2>4, <2>6, CountElsewhere DEF Free
  <2>. QED
    BY <2>5, <2>6 DEF ClaimInv
<1>5. ASSUME NEW h \in Handlers, MarkFailed(h) \/ Dies(h) PROVE ClaimInv'
  <2>1. PICK e \in Events : e = handler[h].of /\ receipt[e] # "none"
    BY <1>5 DEF MarkFailed, Dies, HandlerInv, Informed
  <2>2. /\ Leaves(h) /\ handler'[h] = Free
        /\ \A g \in Handlers : g # h => handler'[g] = handler[g]
        /\ UNCHANGED <<recent, attempts, ran>>
    BY <1>5, HandlerLeaves DEF MarkFailed, Dies, rows
  <2>3. /\ faults'[e] = faults[e] + 1
        /\ \A d \in Events : d # e => faults'[d] = faults[d]
    BY <1>5, <2>1, FaultCounts DEF MarkFailed, Dies
  <2>4. /\ receipt'[e] # "none"
        /\ \A d \in Events : d # e => receipt'[d] = receipt[d]
    BY <1>5, <2>1 DEF MarkFailed, Dies, rows, TypeOK
  <2>5. Counted(e)'
    <3>1. /\ Cardinality(ToRun(e))' <= Cardinality(ToRun(e))
          /\ Cardinality(ToRun(e))' \in Nat
      BY <2>1, <2>2, CountLeaves
    <3>2. /\ attempts[e] # 0 /\ attempts[e] <= 1 + faults[e]
          /\ ran[e] + Cardinality(ToRun(e)) <= attempts[e]
      BY <1>c, <2>1 DEF Counted
    <3>3. attempts'[e] <= faults'[e] /\ attempts'[e] <= 1 + faults'[e]
      BY <1>n, <2>1, <2>2, <2>3, <3>2
    <3>4. ran'[e] + Cardinality(ToRun(e))' <= attempts'[e]
      BY <1>n, <2>1, <2>2, <3>1, <3>2
    <3>. QED
      BY <2>2, <2>4, <3>2, <3>3, <3>4 DEF Counted
  <2>6. ASSUME NEW d \in Events, d # e PROVE Counted(d)'
    BY <1>c, <1>n, <2>1, <2>2, <2>3, <2>4, <2>6, CountElsewhere DEF Free
  <2>. QED
    BY <2>5, <2>6 DEF ClaimInv
<1>6. ASSUME NEW h \in Handlers, Compare(h) PROVE ClaimInv'
  <2>1. /\ handler[h].at = "compare"
        /\ handler'[h].at \in {"drop", "handle"} /\ handler'[h].of = handler[h].of
        /\ \A g \in Handlers : g # h => handler'[g] = handler[g]
        /\ UNCHANGED <<receipt, recent, attempts, ran, faults>>
    BY <1>6 DEF Compare, TypeOK
  <2>2. ASSUME NEW d \in Events PROVE Counted(d)'
    <3>1. WorkedOn(d)' <=> WorkedOn(d)
      BY <2>1 DEF WorkedOn, Begun
    <3>2. Lost(d)' => Lost(d)
      BY <2>1, <3>1 DEF Lost
    <3>3. CASE h \in ToRun(d) /\ handler'[h].at = "drop"
      <4>1. ToRun(d)' = ToRun(d) \ {h}
        BY <2>1, <3>3 DEF ToRun
      <4>2. Cardinality(ToRun(d))' = Cardinality(ToRun(d)) - 1
        BY <3>3, <4>1, CountLeave
      <4>. QED
        BY <1>c, <1>n, <2>1, <3>2, <4>2 DEF Counted
    <3>4. CASE ~ (h \in ToRun(d) /\ handler'[h].at = "drop")
      <4>1. ToRun(d)' = ToRun(d)
        BY <2>1, <3>4 DEF ToRun
      <4>. QED
        BY <1>c, <1>n, <2>1, <3>2, <4>1, CountStays
    <3>. QED
      BY <3>3, <3>4
  <2>. QED
    BY <2>2 DEF ClaimInv
<1>7. ASSUME NEW h \in Handlers, Handle(h) PROVE ClaimInv'
  <2>1. PICK e \in Events : e = handler[h].of
    BY <1>7 DEF Handle, HandlerInv, Informed
  <2>2. /\ handler[h].at = "handle"
        /\ handler'[h].at = "mark" /\ handler'[h].of = e
        /\ \A g \in Handlers : g # h => handler'[g] = handler[g]
        /\ UNCHANGED <<receipt, recent, attempts, faults>>
    BY <1>7, <2>1 DEF Handle, TypeOK
  <2>3. /\ ran'[e] = ran[e] + 1
        /\ \A d \in Events : d # e => ran'[d] = ran[d]
    BY <1>7, <2>1 DEF Handle, TypeOK
  <2>4. Counted(e)'
    <3>1. ToRun(e)' = ToRun(e) \ {h} /\ h \in ToRun(e)
      BY <2>1, <2>2 DEF ToRun
    <3>2. Cardinality(ToRun(e))' = Cardinality(ToRun(e)) - 1
      BY <2>1, <3>1, CountLeave
    <3>3. WorkedOn(e)' <=> WorkedOn(e)
      BY <2>1, <2>2 DEF WorkedOn, Begun
    <3>4. Lost(e)' => Lost(e)
      BY <2>2, <3>3 DEF Lost
    <3>5. ran'[e] + Cardinality(ToRun(e))' <= attempts[e]
      BY <1>c, <1>n, <2>1, <2>3, <3>2 DEF Counted
    <3>. QED
      BY <1>c, <2>1, <2>2, <3>4, <3>5 DEF Counted
  <2>5. ASSUME NEW d \in Events, d # e PROVE Counted(d)'
    BY <1>c, <1>n, <2>1, <2>2, <2>3, <2>5, CountElsewhere
  <2>. QED
    BY <2>4, <2>5 DEF ClaimInv
<1>8. ASSUME NEW e \in Events, Ages(e) PROVE ClaimInv'
  <2>1. /\ UNCHANGED <<receipt, attempts, ran, handler>>
        /\ receipt[e] = "processing" /\ recent[e]
        /\ \A d \in Events : d # e => recent'[d] = recent[d]
    BY <1>8 DEF Ages, TypeOK
  <2>2. \A d \in Events : /\ ToRun(d)' = ToRun(d)
                          /\ WorkedOn(d)' <=> WorkedOn(d)
    BY <2>1 DEF ToRun, WorkedOn
  <2>3. CASE WorkedOn(e)
    <3>1. /\ faults'[e] = faults[e] + 1
          /\ \A d \in Events : d # e => faults'[d] = faults[d]
      BY <1>8, <2>3, FaultCounts DEF Ages
    <3>2. Counted(e)'
      BY <1>c, <1>n, <2>1, <2>2, <3>1 DEF Counted
    <3>3. ASSUME NEW d \in Events, d # e PROVE Counted(d)'
      BY <1>c, <1>n, <2>1, <2>2, <3>1, <3>3, CountStays DEF Lost
    <3>. QED
      BY <3>2, <3>3 DEF ClaimInv
  <2>4. CASE ~ WorkedOn(e)
    <3>1. faults' = faults
      BY <1>8, <2>4 DEF Ages
    <3>2. \A d \in Events : Lost(d)' => Lost(d)
      BY <2>1, <2>2, <2>4 DEF Lost
    <3>3. ASSUME NEW d \in Events PROVE Counted(d)'
      BY <1>c, <1>n, <2>1, <2>2, <3>1, <3>2, CountStays
    <3>. QED
      BY <3>3 DEF ClaimInv
  <2>. QED
    BY <2>3, <2>4
<1>9. ASSUME (\E e \in Events : Resolve(e)) \/ Release \/ UNCHANGED vars
      PROVE  ClaimInv'
  <2>1. UNCHANGED <<recent, attempts, ran, handler, faults>>
    BY <1>9 DEF Resolve, Release, vars, rows
  <2>2. ASSUME NEW d \in Events PROVE Counted(d)'
    <3>1. /\ ToRun(d)' = ToRun(d)
          /\ WorkedOn(d)' <=> WorkedOn(d)
      BY <2>1 DEF ToRun, WorkedOn
    <3>2. /\ receipt'[d] = "none" <=> receipt[d] = "none"
          /\ receipt'[d] # receipt[d] =>
               \/ receipt'[d] = "resolved"
               \/ receipt'[d] = "failed" /\ Stalled(d)
      <4>1. CASE \E e \in Events : Resolve(e)
        <5>1. PICK e \in Events : Resolve(e)
          BY <4>1
        <5>2. CASE d = e
          BY <5>1, <5>2 DEF Resolve, TypeOK
        <5>3. CASE d # e
          BY <5>1, <5>3 DEF Resolve, TypeOK
        <5>. QED
          BY <5>2, <5>3
      <4>2. CASE Release
        BY <4>2 DEF Release, Stalled, TypeOK
      <4>3. CASE UNCHANGED vars
        BY <4>3 DEF vars, rows
      <4>. QED
        BY <1>9, <4>1, <4>2, <4>3
    <3>3. Lost(d)' => Lost(d)
      BY <2>1, <3>1, <3>2 DEF Lost, Stalled
    <3>. QED
      BY <1>c, <1>n, <2>1, <3>1, <3>2, <3>3, CountStays
  <2>. QED
    BY <2>2 DEF ClaimInv
<1>. QED
  BY <1>1, <1>2, <1>3, <1>4, <1>5, <1>6, <1>7, <1>8, <1>9 DEF AnyStep
-----------------------------------------------------------------------------
(* What is told of an event that ran, was acknowledged or was overtaken.   *)
LEMMA RanSafe ==
  TypeOK /\ HandlerInv /\ RanInv /\ NewestWins /\ AnyStep => RanInv' /\ NewestWins'
<1>. SUFFICES ASSUME TypeOK, HandlerInv, RanInv, NewestWins, AnyStep
              PROVE  RanInv' /\ NewestWins'
  OBVIOUS
<1>n. /\ \A e \in Events : e \in Nat /\ ran[e] \in Nat
      /\ watermark \in Nat /\ watermark' \in Nat /\ watermark <= watermark'
      /\ overtaken \subseteq overtaken' /\ object \in Nat
  BY Grows, IntakeAssumption DEF TypeOK, NoEvent
<1>1. ASSUME NEW h \in Handlers, Handle(h) PROVE RanInv' /\ NewestWins'
  <2>1. PICK e \in Events : e = handler[h].of
    BY <1>1 DEF Handle, HandlerInv, Informed
  <2>2. /\ e <= watermark
        /\ e < watermark => e \in overtaken
    BY <1>1, <2>1 DEF Handle, HandlerInv, Informed, Outdated
  <2>3. /\ object' = e /\ watermark' = watermark /\ overtaken' = overtaken
        /\ \A d \in Events : d # e => ran'[d] = ran[d]
    BY <1>1, <2>1 DEF Handle, TypeOK
  <2>4. \A d \in Events : ran'[d] > 0 => d <= watermark
    BY <1>n, <2>2, <2>3 DEF RanInv
  <2>5. \A d \in Events : ran'[d] > 0 /\ e < d => e \in overtaken
    BY <1>n, <2>2, <2>4
  <2>. QED
    BY <2>3, <2>4, <2>5 DEF RanInv, NewestWins
<1>2. CASE ~ \E h \in Handlers : Handle(h)
  <2>1. ran' = ran /\ object' = object
    BY <1>2 DEF AnyStep, Claims, Refused, Begin, Look, Compare, DropStale,
                MarkProcessed, Finish, MarkFailed, Dies, Ages, Resolve, Release,
                rows, vars
  <2>2. RanInv'
    BY <1>n, <2>1 DEF RanInv
  <2>. QED
    BY <1>n, <2>1, <2>2 DEF NewestWins
<1>. QED
  BY <1>1, <1>2

LEMMA ProcessedSafe ==
  TypeOK /\ HandlerInv /\ ProcessedIsExplained /\ AnyStep => ProcessedIsExplained'
<1>. SUFFICES ASSUME TypeOK, HandlerInv, ProcessedIsExplained, AnyStep,
                     NEW e \in Events, receipt'[e] = "processed"
              PROVE  ran'[e] > 0 \/ e < watermark'
  BY DEF ProcessedIsExplained
<1>n. e \in Nat
  BY IntakeAssumption
<1>1. ASSUME ran[e] > 0 \/ e < watermark PROVE ran'[e] > 0 \/ e < watermark'
  BY <1>n, <1>1, Grows
<1>2. CASE receipt[e] = "processed"
  BY <1>1, <1>2 DEF ProcessedIsExplained
<1>3. CASE receipt[e] # "processed"
  <2>1. \E h \in Handlers : /\ handler[h].of = e
                            /\ DropStale(h) \/ MarkProcessed(h)
    BY <1>3 DEF AnyStep, Claims, Refused, Look, Compare, DropStale, Handle,
                MarkProcessed, Finish, MarkFailed, Dies, Ages, Resolve, Release,
                rows, vars, TypeOK
  <2>2. ran[e] > 0 \/ e < watermark
    BY <2>1 DEF DropStale, MarkProcessed, HandlerInv, Informed, Outdated
  <2>. QED
    BY <1>1, <2>2
<1>. QED
  BY <1>2, <1>3

(* Without a fault, a receipt is claimed once and its handler finishes it. *)
LEMMA NoFaultNoLoss ==
  ASSUME TypeOK, ClaimInv, NEW e \in Events, faults[e] = 0, receipt[e] # "none"
  PROVE  ~ Lost(e) /\ ~ Stalled(e)
<1>1. attempts[e] \in Nat /\ attempts[e] # 0
  BY DEF ClaimInv, Counted, TypeOK
<1>. QED
  BY <1>1 DEF ClaimInv, Counted, Lost, Stalled

LEMMA AnsweredSafe ==
  TypeOK /\ HandlerInv /\ ClaimInv /\ AnsweredIsDone /\ AnyStep => AnsweredIsDone'
<1>. DEFINE Done(e) == receipt[e] \in {"processed", "resolved"}
<1>. SUFFICES ASSUME TypeOK, HandlerInv, ClaimInv, AnsweredIsDone, AnyStep,
                     NEW e \in Events, answered'[e], faults'[e] = 0
              PROVE  receipt'[e] \in {"processed", "resolved"}
  BY DEF AnsweredIsDone
<1>n. \A d \in Events : faults[d] \in Nat
  BY IntakeAssumption DEF TypeOK
<1>1. ASSUME NEW h \in Handlers,
             DropStale(h) \/ MarkProcessed(h) \/ Look(h)
      PROVE  receipt'[e] \in {"processed", "resolved"}
  <2>1. PICK d \in Events : d = handler[h].of /\ receipt[d] # "none"
    BY <1>1 DEF DropStale, MarkProcessed, Look, HandlerInv, Informed
  <2>2. /\ faults[e] <= faults'[e]
        /\ answered[e] \/ e = d
    BY <1>1, <1>n, <2>1, AnswerReaches DEF DropStale, MarkProcessed, Finish, Look
  <2>3. faults[e] = 0
    BY <1>n, <2>2
  <2>4. CASE DropStale(h) \/ MarkProcessed(h)
    <3>1. \/ e = d /\ receipt'[e] = "processed"
          \/ e # d /\ receipt'[e] = receipt[e]
      BY <2>1, <2>4 DEF DropStale, MarkProcessed, Finish, TypeOK
    <3>. QED
      BY <2>2, <2>3, <3>1 DEF AnsweredIsDone
  <2>5. CASE Look(h)
    <3>1. receipt' = receipt
      BY <2>5 DEF Look, rows
    <3>2. CASE answered[e]
      BY <2>3, <3>1, <3>2 DEF AnsweredIsDone
    <3>3. CASE ~ answered[e]
      <4>1. e = d /\ ~ InFlight(d)
        BY <2>1, <2>2, <2>5, <3>3 DEF Look
      <4>2. receipt[e] # "failed"
        BY <2>1, <2>3, <4>1, NoFaultNoLoss DEF Lost
      <4>. QED
        BY <2>1, <3>1, <4>1, <4>2 DEF InFlight, TypeOK, Statuses
    <3>. QED
      BY <3>2, <3>3
  <2>. QED
    BY <1>1, <2>4, <2>5
<1>2. CASE ~ \E h \in Handlers : DropStale(h) \/ MarkProcessed(h) \/ Look(h)
  <2>1. answered[e]
    BY <1>2 DEF AnyStep, Claims, Refused, Begin, Compare, Handle, MarkFailed,
                Dies, Ages, Resolve, Release, rows, vars
  <2>2. faults[e] = 0
    <3>1. ASSUME NEW d \in Events, Fault(d) PROVE faults[e] = 0
      BY <1>n, <3>1, FaultCounts
    <3>2. ASSUME NEW h \in Handlers, MarkFailed(h) \/ Dies(h)
          PROVE  faults[e] = 0
      BY <3>1, <3>2 DEF MarkFailed, Dies, HandlerInv, Informed
    <3>. QED
      BY <1>2, <3>1, <3>2 DEF AnyStep, Claims, Refused, Begin, Compare, Handle,
         Ages, Resolve, Release, rows, vars
  <2>3. Done(e)
    BY <2>1, <2>2 DEF AnsweredIsDone
  <2>4. ASSUME NEW h \in Handlers, MarkFailed(h) PROVE handler[h].of # e
    <3>1. SUFFICES ASSUME handler[h].of = e PROVE FALSE
      OBVIOUS
    <3>2. faults'[e] = faults[e] + 1
      BY <2>4, <3>1, FaultCounts DEF MarkFailed
    <3>. QED
      BY <2>2, <3>2
  <2>5. ASSUME NEW h \in Handlers, MarkFailed(h) PROVE Done(e)'
    BY <2>3, <2>4, <2>5 DEF MarkFailed, TypeOK
  <2>6. CASE ~ \E h \in Handlers : MarkFailed(h)
    <3>1. CASE UNCHANGED receipt
      BY <2>3, <3>1
    <3>2. ASSUME NEW d \in Events, Resolve(d) PROVE Done(e)'
      BY <2>3, <3>2 DEF Resolve, TypeOK
    <3>3. ASSUME NEW h \in Handlers, NEW d \in Events, NEW by \in {"provider", "operator"},
                 Begin(h, d, by)
          PROVE  Done(e)'
      BY <2>3, <3>3 DEF Begin, Claimable, Stalled, TypeOK
    <3>4. CASE Release
      BY <2>3, <3>4 DEF Release, Stalled, TypeOK
    <3>. QED
      BY <1>2, <2>6, <3>1, <3>2, <3>3, <3>4
         DEF AnyStep, Claims, Refused, Compare, Handle, Dies, Ages, rows, vars
  <2>. QED
    BY <2>5, <2>6
<1>. QED
  BY <1>1, <1>2

-----------------------------------------------------------------------------
LEMMA NextSafe == IInv /\ [Next]_vars => IInv'
<1>. SUFFICES ASSUME IInv, [Next]_vars PROVE IInv'
  OBVIOUS
<1>1. AnyStep
  BY NextIsAnyStep
<1>2. TypeOK'
  BY <1>1, TypeSafe DEF IInv
<1>. QED
  BY <1>1, <1>2, HandlerSafe, ClaimSafe, RanSafe, ProcessedSafe, AnsweredSafe
     DEF IInv

LEMMA Invariance == Spec => []IInv
<1>1. Init => IInv
  BY InitSafe
<1>2. IInv /\ [Next]_vars => IInv'
  BY NextSafe
<1>. QED
  BY <1>1, <1>2, PTL DEF Spec

(* The rows and what the handlers carry have their types.                  *)
THEOREM TypeCorrect == Spec => []TypeOK
<1>1. IInv => TypeOK
  BY DEF IInv
<1>. QED
  BY <1>1, Invariance, PTL

(* A receipt is 'processed' only for an event that ran or is out of date.  *)
THEOREM ProcessedCorrect == Spec => []ProcessedIsExplained
<1>1. IInv => ProcessedIsExplained
  BY DEF IInv
<1>. QED
  BY <1>1, Invariance, PTL

(* An event nothing went wrong with is acknowledged only when it is done.  *)
THEOREM AnsweredCorrect == Spec => []AnsweredIsDone
<1>1. IInv => AnsweredIsDone
  BY DEF IInv
<1>. QED
  BY <1>1, Invariance, PTL

(* The effects of an event are committed once, and once more per fault.    *)
THEOREM RunsCorrect == Spec => []RunsAreExplained
<1>1. IInv => RunsAreExplained
  BY Numbers DEF IInv, ClaimInv, Counted, RunsAreExplained
<1>. QED
  BY <1>1, Invariance, PTL

(* An older event replaces a newer one only if it was overtaken on its way. *)
THEOREM NewestCorrect == Spec => []NewestWins
<1>1. IInv => NewestWins
  BY DEF IInv
<1>. QED
  BY <1>1, Invariance, PTL
=============================================================================
