------------------------- MODULE DelegationsProofs -------------------------
(***************************************************************************)
(* Theorems about the register of delegations, for every number of         *)
(* delegations, questions and callers and every maxConcurrent: its type    *)
(* invariant, the account of the slots, that it implements JobPool, and    *)
(* that no question of a delegate is lost or answered twice.               *)
(***************************************************************************)
EXTENDS Delegations, FiniteSetTheorems, TLAPS

-----------------------------------------------------------------------------
(* The type invariant holds in every reachable state, whatever the         *)
(* interleaving of delegates, Stop doors and callers.                      *)
THEOREM Typing == Spec => []TypeOK
<1>1. Init => TypeOK
  BY DelegationsAssumption DEF Init, TypeOK, Stages, AskStages, CallerStages
<1>2. TypeOK /\ [Next]_vars => TypeOK'
  <2> SUFFICES ASSUME TypeOK, [Next]_vars
               PROVE  TypeOK'
    OBVIOUS
  <2> USE DEF TypeOK, taskVars, registerVars, askVars, callerVars
  <2>1. CASE Plan
    BY <2>1, DelegationsAssumption DEF Plan
  <2>2. ASSUME NEW t \in Tasks, NEW r \in 0..MaxRuns, Start(t, r)
        PROVE  TypeOK'
    BY <2>2 DEF Start, Step, Stages
  <2>3. ASSUME NEW t \in Tasks, Goroutine(t)
        PROVE  TypeOK'
    <3> USE DEF Step, Stages
    <3>1. CASE TakeSlot(t)
      BY <3>1, DelegationsAssumption DEF TakeSlot
    <3>2. CASE JoinLine(t)
      BY <3>2 DEF JoinLine, InLine
    <3>3. CASE TurnAway(t)
      BY <3>3 DEF TurnAway
    <3>4. CASE BeginRun(t)
      BY <3>4 DEF BeginRun
    <3>5. CASE Work(t, "ok")
      BY <3>5 DEF Work
    <3>6. CASE Work(t, "failed")
      BY <3>6 DEF Work
    <3>7. CASE DeferredCancel(t)
      BY <3>7 DEF DeferredCancel
    <3>8. CASE CloseDone(t)
      BY <3>8 DEF CloseDone
    <3>9. CASE Release(t)
      BY <3>9, DelegationsAssumption DEF Release
    <3>10. QED
      BY <2>3, <3>1, <3>2, <3>3, <3>4, <3>5, <3>6, <3>7, <3>8, <3>9 DEF Goroutine
  <2>4. CASE Stopping
    <3>1. ASSUME NEW S \in SUBSET Tasks, NEW why \in {"any", "queued"}, Doom(S, why)
          PROVE  TypeOK'
      BY <3>1 DEF Doom
    <3>2. ASSUME NEW t \in Tasks, NEW why \in {"any", "queued"}, MarkStopped(t, why)
          PROVE  TypeOK'
      BY <3>2 DEF MarkStopped
    <3>3. ASSUME NEW t \in Tasks, Cancel(t)
          PROVE  TypeOK'
      BY <3>3 DEF Cancel
    <3>4. Unfinished \in SUBSET Tasks
      BY DEF Unfinished
    <3>5. CASE StopAll \/ StopQueued \/ \E r \in 1..MaxRuns : StopRun(r)
      BY <3>1, <3>4, <3>5 DEF StopAll, StopQueued, StopRun
    <3>6. CASE \E t \in Tasks : Stop(t)
      <4>1. PICK t \in Tasks : Doom({t}, "any")
        BY <3>6 DEF Stop
      <4>2. {t} \in SUBSET Tasks
        OBVIOUS
      <4>3. QED
        BY <3>1, <4>1, <4>2
    <3>7. QED
      BY <2>4, <3>2, <3>3, <3>5, <3>6 DEF Stopping
  <2>5. ASSUME NEW t \in Tasks, NEW q \in Questions, Asking(t, q)
        PROVE  TypeOK'
    <3> USE DEF AskStages, InAsk
    <3>1. CASE AskMain(t, q)
      BY <2>5, <3>1 DEF AskMain
    <3>2. CASE LookIn(t, q)
      BY <2>5, <3>2 DEF LookIn
    <3>3. CASE Post(t, q)
      BY <2>5, <3>3 DEF Post
    <3>4. CASE PostCancelled(t, q)
      BY <2>5, <3>4 DEF PostCancelled
    <3>5. CASE HearAnswer(t, q)
      BY <2>5, <3>5 DEF HearAnswer
    <3>6. CASE VoidAsk(t, q)
      BY <2>5, <3>6 DEF VoidAsk
    <3>7. CASE LeaveAsk(t, q)
      BY <2>5, <3>7 DEF LeaveAsk
    <3>8. QED
      BY <2>5, <3>1, <3>2, <3>3, <3>4, <3>5, <3>6, <3>7 DEF Asking
  <2>6. ASSUME NEW t \in Tasks,
               CallOutrunsDeadline(t) \/ CallReturns(t) \/ CallCancelled(t)
        PROVE  TypeOK'
    <3>1. inCall' \in [Tasks -> Questions \cup {NoQuestion}]
      BY <2>6 DEF CallOutrunsDeadline, CallReturns, CallCancelled
    <3>2. stage' \in [Tasks -> Stages]
      BY <2>6 DEF CallOutrunsDeadline, CallReturns, CallCancelled, Step, Stages
    <3>3. QED
      BY <2>6, <3>1, <3>2 DEF CallOutrunsDeadline, CallReturns, CallCancelled
  <2>7. ASSUME NEW c \in Callers, NEW t \in Tasks, Collect(c, t) \/ Answer(c, t)
        PROVE  TypeOK'
    <3>1. ASSUME NEW entry \in {"check", "answerPeek"}, Call(c, t, entry)
          PROVE  TypeOK'
      <4>1. pc' \in [Callers -> CallerStages] /\ on' \in [Callers -> Tasks \cup {NoTask}]
        BY <3>1 DEF Call, Goto, CallerStages
      <4>2. \A d \in Callers : pc'[d] # "idle" => on'[d] \in Tasks
        BY <3>1 DEF Call, Goto, CallerStages
      <4>3. QED
        BY <3>1, <4>1, <4>2 DEF Call
    <3>2. QED
      BY <2>7, <3>1 DEF Collect, Answer
  <2>8. ASSUME NEW c \in Callers, CallStep(c) \/ CollectCancelled(c)
        PROVE  TypeOK'
    <3> USE DEF Goto, CallerStages
    <3>1. CASE CheckOver(c)
      BY <3>1 DEF CheckOver
    <3>2. CASE PeekPending(c)
      BY <3>2 DEF PeekPending
    <3>3. CASE Redeem(c)
      BY <3>3 DEF Redeem
    <3>4. ASSUME NEW from \in CallerStages \ {"idle"}, NEW to \in CallerStages,
                 Receive(c, from, to)
          PROVE  TypeOK'
      <4>1. on[c] \in Tasks
        BY <3>4 DEF Receive
      <4>2. hand' \in [Callers -> Questions \cup {NoQuestion}]
            /\ posted' \in [Tasks -> Questions \cup {NoQuestion}]
        BY <3>4, <4>1 DEF Receive
      <4>3. pc' \in [Callers -> CallerStages]
            /\ \A d \in Callers : pc'[d] # "idle" => on'[d] \in Tasks
        BY <3>4, <4>1 DEF Receive
      <4>4. QED
        BY <3>4, <4>2, <4>3 DEF Receive
    <3>5. ASSUME NEW from \in CallerStages \ {"idle"}, NEW to \in CallerStages,
                 SetAsk(c, from, to)
          PROVE  TypeOK'
      <4>1. on[c] \in Tasks
        BY <3>5 DEF SetAsk
      <4>2. hand' \in [Callers -> Questions \cup {NoQuestion}]
            /\ pending' \in [Tasks -> Questions \cup {NoQuestion}]
        BY <3>5, <4>1 DEF SetAsk
      <4>3. pc' \in [Callers -> CallerStages]
            /\ \A d \in Callers : pc'[d] # "idle" => on'[d] \in Tasks
        BY <3>5, <4>1 DEF SetAsk
      <4>4. QED
        BY <3>5, <4>2, <4>3 DEF SetAsk
    <3>6. CASE AnswerPeek(c) \/ NothingToDrain(c) \/ RefuseAnswer(c)
      BY <3>6 DEF AnswerPeek, NothingToDrain, RefuseAnswer
    <3>7. CASE AcceptAnswer(c)
      BY <3>7 DEF AcceptAnswer
    <3>8. CASE CollectCancelled(c)
      BY <3>8 DEF CollectCancelled
    <3>9. QED
      BY <2>8, <3>1, <3>2, <3>3, <3>4, <3>5, <3>6, <3>7, <3>8 DEF CallStep,
         ReceiveQuestion, DrainQuestion, HandOutQuestion, SetDrained
  <2>9. CASE UNCHANGED vars
    BY <2>9 DEF vars
  <2>10. QED
    BY <2>1, <2>2, <2>3, <2>4, <2>5, <2>6, <2>7, <2>8, <2>9 DEF Next
<1>3. QED
  BY <1>1, <1>2, PTL DEF Spec

-----------------------------------------------------------------------------
(* Most steps of questions and callers leave alone what the invariants of  *)
(* a delegation's life speak of.                                           *)
lifeVars == <<stage, queued, stopped, ctxDone, output, doomed, marked>>

LEMMA QuietSteps ==
  ASSUME NEW t \in Tasks, NEW q \in Questions, Asking(t, q)
  PROVE  UNCHANGED <<lifeVars, slots>>
BY DEF Asking, AskMain, LookIn, Post, PostCancelled, HearAnswer, VoidAsk, LeaveAsk,
       lifeVars, taskVars, registerVars

LEMMA QuietCalls ==
  ASSUME NEW c \in Callers,
         \/ CallStep(c)
         \/ CollectCancelled(c)
         \/ \E t \in Tasks : Collect(c, t) \/ Answer(c, t)
  PROVE  UNCHANGED <<lifeVars, slots>>
BY DEF CallStep, CheckOver, PeekPending, Redeem, ReceiveQuestion, HandOutQuestion,
       AnswerPeek, DrainQuestion, SetDrained, NothingToDrain, AcceptAnswer,
       RefuseAnswer, CollectCancelled, Collect, Answer, Call, Receive, SetAsk,
       lifeVars, taskVars, registerVars

LEMMA QuietRest ==
  ASSUME NEW t \in Tasks, CallOutrunsDeadline(t) \/ CallReturns(t)
  PROVE  UNCHANGED <<lifeVars, slots>>
BY DEF CallOutrunsDeadline, CallReturns, lifeVars, taskVars, registerVars

-----------------------------------------------------------------------------
(* The fields of a delegation agree with how far its goroutine has come    *)
(* (runningTask, start, release, stop).                                    *)
THEOREM Agreement == Spec => []FieldsAgree
<1>1. Init => FieldsAgree
  BY DEF Init, FieldsAgree
<1>2. TypeOK /\ FieldsAgree /\ [Next]_vars => FieldsAgree'
  <2> SUFFICES ASSUME TypeOK, FieldsAgree, [Next]_vars
               PROVE  FieldsAgree'
    OBVIOUS
  <2> USE DEF registerVars, Stages
  <2>0. ASSUME UNCHANGED lifeVars
        PROVE  FieldsAgree'
    BY <2>0 DEF FieldsAgree, lifeVars
  <2>1. CASE Plan
    BY <2>1, <2>0 DEF Plan, lifeVars, taskVars
  <2>2. ASSUME NEW t \in Tasks, NEW r \in 0..MaxRuns, Start(t, r)
        PROVE  FieldsAgree'
    <3>1. /\ \A u \in Tasks \ {t} : stage'[u] = stage[u] /\ queued'[u] = queued[u]
          /\ stage[t] = "none" /\ stage'[t] = "spawned" /\ queued'[t]
          /\ UNCHANGED <<stopped, ctxDone, output, doomed, marked>>
      BY <2>2 DEF Start, Step, TypeOK
    <3>2. QED
      BY <3>1 DEF FieldsAgree
  <2>3. ASSUME NEW t \in Tasks, Goroutine(t)
        PROVE  FieldsAgree'
    <3>3. CASE TurnAway(t)
      <4>1. /\ \A u \in Tasks \ {t} : stage'[u] = stage[u] /\ output'[u] = output[u]
            /\ stage'[t] = "returned" /\ output'[t] = "stopped"
            /\ stage[t] \in {"spawned", "queued"} /\ ctxDone[t]
            /\ UNCHANGED <<queued, stopped, ctxDone, doomed, marked>>
        BY <3>3 DEF TurnAway, TypeOK
      <4>2. queued[t] /\ stopped[t]
        BY <4>1 DEF FieldsAgree
      <4>3. QED
        BY <4>1, <4>2 DEF FieldsAgree
    <3>4. CASE BeginRun(t)
      <4>1. /\ \A u \in Tasks \ {t} : stage'[u] = stage[u] /\ queued'[u] = queued[u]
            /\ stage[t] = "admitted" /\ stage'[t] = "working" /\ ~queued'[t]
            /\ UNCHANGED <<stopped, ctxDone, output, doomed, marked>>
        BY <3>4 DEF BeginRun, Step, TypeOK
      <4>2. QED
        BY <4>1 DEF FieldsAgree
    <3>5. ASSUME NEW result \in {"ok", "failed"}, Work(t, result)
          PROVE  FieldsAgree'
      <4>1. /\ \A u \in Tasks \ {t} : stage'[u] = stage[u] /\ output'[u] = output[u]
            /\ stage[t] \in {"working", "unwinding"} /\ stage'[t] = "returned"
            /\ output'[t] = IF ctxDone[t] THEN "stopped" ELSE result
            /\ UNCHANGED <<queued, stopped, ctxDone, doomed, marked>>
        BY <3>5 DEF Work, TypeOK
      <4>2. ~queued[t] /\ (ctxDone[t] => stopped[t])
        BY <4>1 DEF FieldsAgree
      <4>3. QED
        BY <4>1, <4>2 DEF FieldsAgree
    <3>6. CASE Work(t, "ok") \/ Work(t, "failed")
      BY <3>5, <3>6
    <3>1. CASE TakeSlot(t) \/ JoinLine(t)
      <4>1. /\ \A u \in Tasks \ {t} : stage'[u] = stage[u]
            /\ stage[t] = "spawned" /\ stage'[t] \in {"admitted", "queued"}
            /\ UNCHANGED <<queued, stopped, ctxDone, output, doomed, marked>>
        BY <3>1 DEF TakeSlot, JoinLine, Step, TypeOK
      <4>2. QED
        BY <4>1 DEF FieldsAgree
    <3> USE DEF Step, FieldsAgree, TypeOK
    <3>7. CASE DeferredCancel(t)
      BY <3>7 DEF DeferredCancel
    <3>8. CASE CloseDone(t)
      BY <3>8 DEF CloseDone
    <3>9. CASE Release(t)
      <4>1. ASSUME NEW u \in Tasks, stage'[u] # stage[u]
            PROVE  \/ stage[u] = "closed" /\ stage'[u] = "gone"
                   \/ stage[u] = "queued" /\ stage'[u] = "admitted"
        BY <3>9, <4>1 DEF Release, FirstInLine, InLine
      <4>2. UNCHANGED <<queued, stopped, ctxDone, output, doomed, marked>>
        BY <3>9 DEF Release
      <4>3. QED
        BY <4>1, <4>2
    <3>10. QED
      BY <2>3, <3>1, <3>3, <3>4, <3>6, <3>7, <3>8, <3>9 DEF Goroutine
  <2>4. CASE Stopping
    <3>1. ASSUME NEW S \in SUBSET Unfinished, NEW why \in {"any", "queued"}, Doom(S, why)
          PROVE  FieldsAgree'
      BY <3>1 DEF Doom, Unfinished, Registered, taskVars, FieldsAgree, TypeOK
    <3>2. ASSUME NEW t \in Tasks, NEW why \in {"any", "queued"}, MarkStopped(t, why)
          PROVE  FieldsAgree'
      <4>1. /\ \A u \in Tasks \ {t} : stopped'[u] = stopped[u]
            /\ stopped'[t] /\ <<t, why>> \in doomed
            /\ doomed' \subseteq doomed /\ marked' = marked \cup {t}
            /\ UNCHANGED <<stage, queued, ctxDone, output>>
        BY <3>2 DEF MarkStopped, TypeOK
      <4>2. stage[t] # "none"
        BY <4>1 DEF FieldsAgree
      <4>3. QED
        BY <4>1, <4>2 DEF FieldsAgree
    <3>3. ASSUME NEW t \in Tasks, Cancel(t)
          PROVE  FieldsAgree'
      <4>1. stopped[t]
        BY <3>3 DEF Cancel, FieldsAgree
      <4>2. \A u \in Tasks : ctxDone'[u] => ctxDone[u] \/ u = t
        BY <3>3 DEF Cancel, TypeOK
      <4>3. UNCHANGED <<stage, queued, stopped, output, doomed>> /\ marked' \subseteq marked
        BY <3>3 DEF Cancel
      <4>4. QED
        BY <4>1, <4>2, <4>3 DEF FieldsAgree
    <3>4. CASE \E t \in Tasks : Stop(t)
      <4>1. PICK t \in Unfinished : Doom({t}, "any")
        BY <3>4 DEF Stop
      <4>2. {t} \in SUBSET Unfinished
        OBVIOUS
      <4>3. QED
        BY <4>1, <4>2, <3>1
    <3>5. CASE StopAll
      BY <3>5, <3>1 DEF StopAll
    <3>6. CASE StopQueued
      <4>1. {t \in Unfinished : queued[t]} \in SUBSET Unfinished
        OBVIOUS
      <4>2. QED
        BY <3>6, <3>1, <4>1 DEF StopQueued
    <3>7. CASE \E r \in 1..MaxRuns : StopRun(r)
      <4>1. PICK r \in 1..MaxRuns : Doom({t \in Unfinished : runOf[t] = r}, "any")
        BY <3>7 DEF StopRun
      <4>2. {t \in Unfinished : runOf[t] = r} \in SUBSET Unfinished
        OBVIOUS
      <4>3. QED
        BY <4>1, <4>2, <3>1
    <3>8. QED
      BY <2>4, <3>2, <3>3, <3>4, <3>5, <3>6, <3>7 DEF Stopping
  <2>5. ASSUME NEW t \in Tasks, CallCancelled(t)
        PROVE  FieldsAgree'
    BY <2>5 DEF CallCancelled, Step, FieldsAgree, TypeOK
  <2>6. CASE UNCHANGED vars
    BY <2>6, <2>0 DEF vars, lifeVars, taskVars
  <2>7. QED
    BY <2>0, <2>1, <2>2, <2>3, <2>4, <2>5, <2>6, QuietSteps, QuietCalls, QuietRest DEF Next
<1>3. QED
  BY <1>1, <1>2, Typing, PTL DEF Spec

(* A delegation that came back as stopped is drawn as stopped, never as    *)
(* one that broke (stop, taskState).                                       *)
THEOREM StoppedIsDrawnAsStopped == Spec => []StopShownAsStop
<1>1. FieldsAgree => StopShownAsStop
  <2>1. SUFFICES ASSUME FieldsAgree, NEW t \in Tasks, output[t] = "stopped"
                 PROVE  Report(t) = "stopped"
    BY DEF StopShownAsStop
  <2>2. stopped[t] /\ stage[t] # "none"
    BY <2>1 DEF FieldsAgree
  <2>3. QED
    BY <2>2 DEF Report
<1>2. QED
  BY <1>1, Agreement, PTL

-----------------------------------------------------------------------------
(* The account of the slots, and what it rests on.                         *)
SlotAccount == SlotsAreHeld /\ NoIdleSlot

LEMMA HoldersFinite == IsFiniteSet(Holders) /\ Cardinality(Holders) \in Nat
<1>1. Holders \subseteq Tasks
  BY DEF Holders
<1>2. QED
  BY <1>1, DelegationsAssumption, FS_Subset, FS_CardinalityType

(* A step that changes no holder and no token, and lets nobody join the    *)
(* line, keeps the account.                                                *)
LEMMA AccountFrame ==
  ASSUME SlotAccount, Holders' = Holders, slots' = slots, InLine' \subseteq InLine
  PROVE  SlotAccount'
BY DEF SlotAccount, SlotsAreHeld, NoIdleSlot

(* The only steps that move a token: one taken, and one handed back.       *)
LEMMA TakeSlotKeepsAccount ==
  ASSUME TypeOK, SlotAccount, NEW t \in Tasks, TakeSlot(t)
  PROVE  SlotAccount'
<1>1. stage[t] = "spawned" /\ stage' = [stage EXCEPT ![t] = "admitted"]
      /\ UNCHANGED <<queued, ctxDone>> /\ slots' = slots + 1 /\ slots < MaxConcurrent
  BY DEF TakeSlot, Step
<1>2. t \notin Holders /\ Holders' = Holders \cup {t}
  BY <1>1 DEF Holders, TypeOK
<1>3. Cardinality(Holders') = Cardinality(Holders) + 1
  BY <1>2, HoldersFinite, FS_AddElement
<1>4. InLine' = {}
  <2>1. InLine = {}
    BY <1>1, DelegationsAssumption DEF SlotAccount, NoIdleSlot, TypeOK
  <2>2. InLine' \subseteq InLine
    BY <1>1 DEF InLine, TypeOK
  <2>3. QED
    BY <2>1, <2>2
<1>5. QED
  BY <1>1, <1>3, <1>4 DEF SlotAccount, SlotsAreHeld, NoIdleSlot

LEMMA ReleaseKeepsAccount ==
  ASSUME TypeOK, FieldsAgree, SlotAccount, NEW t \in Tasks, Release(t)
  PROVE  SlotAccount'
<1>1. stage[t] = "closed" /\ UNCHANGED <<queued, ctxDone>>
  BY DEF Release
<1>2. CASE queued[t] \/ slots = 0
  <2>1. queued[t]
    <3>1. SUFFICES ASSUME ~queued[t] PROVE FALSE
      OBVIOUS
    <3>2. t \in Holders
      BY <1>1, <3>1 DEF Holders
    <3>3. Cardinality(Holders) # 0
      BY <3>2, HoldersFinite, FS_EmptySet
    <3>4. QED
      BY <1>2, <3>1, <3>3 DEF SlotAccount, SlotsAreHeld
  <2>2. stage' = [stage EXCEPT ![t] = "gone"] /\ slots' = slots
    BY <2>1 DEF Release
  <2>3. Holders' = Holders
    BY <1>1, <2>1, <2>2 DEF Holders, TypeOK
  <2>4. InLine' \subseteq InLine
    BY <1>1, <2>2 DEF InLine, TypeOK
  <2>5. QED
    BY <2>2, <2>3, <2>4, AccountFrame
<1>3. CASE ~queued[t] /\ slots > 0 /\ InLine = {}
  <2>1. stage' = [stage EXCEPT ![t] = "gone"] /\ slots' = slots - 1
    BY <1>3 DEF Release, FirstInLine
  <2>2. t \in Holders /\ Holders' = Holders \ {t}
    BY <1>1, <1>3, <2>1 DEF Holders, TypeOK
  <2>3. Cardinality(Holders') = Cardinality(Holders) - 1
    BY <2>2, HoldersFinite, FS_RemoveElement
  <2>4. InLine' = {}
    BY <1>1, <1>3, <2>1 DEF InLine, TypeOK
  <2>5. QED
    BY <2>1, <2>3, <2>4 DEF SlotAccount, SlotsAreHeld, NoIdleSlot
<1>4. CASE ~queued[t] /\ slots > 0 /\ InLine # {}
  <2>1. PICK h \in Tasks : /\ FirstInLine(h)
                           /\ stage' = [stage EXCEPT ![t] = "gone", ![h] = "admitted"]
                           /\ slots' = slots
    BY <1>4, DelegationsAssumption DEF Release, TypeOK
  <2>2. stage[h] = "queued" /\ h # t
    BY <1>1, <2>1 DEF FirstInLine, InLine
  <2>3. h \notin Holders /\ t \in Holders /\ Holders' = (Holders \ {t}) \cup {h}
    BY <1>1, <1>4, <2>1, <2>2 DEF Holders, TypeOK
  <2>4. IsFiniteSet(Holders \ {t}) /\ Cardinality(Holders \ {t}) = Cardinality(Holders) - 1
    BY <2>3, HoldersFinite, FS_RemoveElement
  <2>5. Cardinality(Holders') = Cardinality(Holders)
    <3>1. Cardinality(Holders') = Cardinality(Holders \ {t}) + 1
      BY <2>3, <2>4, FS_AddElement
    <3>2. QED
      BY <2>4, <3>1, HoldersFinite
  <2>6. slots' = MaxConcurrent
    BY <1>4, <2>1 DEF SlotAccount, NoIdleSlot
  <2>7. QED
    BY <2>1, <2>5, <2>6 DEF SlotAccount, SlotsAreHeld, NoIdleSlot
<1>5. QED
  BY <1>2, <1>3, <1>4, DelegationsAssumption DEF TypeOK

(* One token for every delegation that took one and has not given it back, *)
(* and no free slot while a delegation waits in line (start, release).     *)
THEOREM SlotsAccounted == Spec => [](SlotsAreHeld /\ NoIdleSlot)
<1>1. Init => SlotAccount
  <2>1. SUFFICES ASSUME Init PROVE SlotAccount
    OBVIOUS
  <2>2. Holders = {} /\ InLine = {} /\ slots = 0
    BY <2>1 DEF Init, Holders, InLine
  <2>3. QED
    BY <2>2, FS_EmptySet DEF SlotAccount, SlotsAreHeld, NoIdleSlot
<1>2. TypeOK /\ FieldsAgree /\ SlotAccount /\ [Next]_vars => SlotAccount'
  <2> SUFFICES ASSUME TypeOK, FieldsAgree, SlotAccount, [Next]_vars
               PROVE  SlotAccount'
    OBVIOUS
  <2>0. ASSUME UNCHANGED <<stage, queued, slots>>, \A t \in Tasks : ctxDone[t] => ctxDone'[t]
        PROVE  SlotAccount'
    <3>1. Holders' = Holders /\ InLine' \subseteq InLine
      BY <2>0 DEF Holders, InLine
    <3>2. QED
      BY <2>0, <3>1, AccountFrame
  <2>00. ASSUME UNCHANGED <<lifeVars, slots>>
         PROVE  SlotAccount'
    BY <2>00, <2>0 DEF lifeVars
  <2>1. CASE Plan
    BY <2>1, <2>00 DEF Plan, lifeVars, taskVars
  <2>2. ASSUME NEW t \in Tasks, NEW r \in 0..MaxRuns, Start(t, r)
        PROVE  SlotAccount'
    <3>1. Holders' = Holders /\ InLine' = InLine /\ slots' = slots
      BY <2>2 DEF Start, Step, Holders, InLine, TypeOK, registerVars
    <3>2. QED
      BY <3>1, AccountFrame
  <2>3. ASSUME NEW t \in Tasks, Goroutine(t)
        PROVE  SlotAccount'
    <3> USE DEF Step, TypeOK, registerVars
    <3>1. CASE TakeSlot(t)
      BY <3>1, TakeSlotKeepsAccount
    <3>2. CASE JoinLine(t)
      <4>1. Holders' = Holders
        BY <3>2 DEF JoinLine, Holders
      <4>2. QED
        BY <3>2, <4>1 DEF JoinLine, SlotAccount, SlotsAreHeld, NoIdleSlot
    <3>3. CASE TurnAway(t)
      <4>1. queued[t]
        BY <3>3 DEF TurnAway, FieldsAgree
      <4>2. Holders' = Holders /\ InLine' \subseteq InLine /\ slots' = slots
        BY <3>3, <4>1 DEF TurnAway, Holders, InLine
      <4>3. QED
        BY <4>2, AccountFrame
    <3>4. CASE BeginRun(t)
      <4>1. Holders' = Holders /\ InLine' \subseteq InLine /\ slots' = slots
        BY <3>4 DEF BeginRun, Holders, InLine
      <4>2. QED
        BY <4>1, AccountFrame
    <3>5. CASE Work(t, "ok") \/ Work(t, "failed")
      <4>1. ~queued[t]
        BY <3>5 DEF Work, FieldsAgree
      <4>2. Holders' = Holders /\ InLine' \subseteq InLine /\ slots' = slots
        BY <3>5, <4>1 DEF Work, Holders, InLine
      <4>3. QED
        BY <4>2, AccountFrame
    <3>6. CASE DeferredCancel(t)
      <4>1. Holders' = Holders /\ InLine' \subseteq InLine /\ slots' = slots
        BY <3>6 DEF DeferredCancel, Holders, InLine
      <4>2. QED
        BY <4>1, AccountFrame
    <3>7. CASE CloseDone(t)
      <4>1. Holders' = Holders /\ InLine' \subseteq InLine /\ slots' = slots
        BY <3>7 DEF CloseDone, Holders, InLine
      <4>2. QED
        BY <4>1, AccountFrame
    <3>8. CASE Release(t)
      BY <3>8, ReleaseKeepsAccount
    <3>9. QED
      BY <2>3, <3>1, <3>2, <3>3, <3>4, <3>5, <3>6, <3>7, <3>8 DEF Goroutine
  <2>4. CASE Stopping
    <3>1. UNCHANGED <<stage, queued, slots>> /\ \A t \in Tasks : ctxDone[t] => ctxDone'[t]
      BY <2>4 DEF Stopping, Stop, StopAll, StopQueued, StopRun, Doom, MarkStopped, Cancel,
                  TypeOK, taskVars
    <3>2. QED
      BY <3>1, <2>0
  <2>5. ASSUME NEW t \in Tasks, CallCancelled(t)
        PROVE  SlotAccount'
    <3>1. Holders' = Holders /\ InLine' \subseteq InLine /\ slots' = slots
      BY <2>5 DEF CallCancelled, Step, Holders, InLine, TypeOK, registerVars
    <3>2. QED
      BY <3>1, AccountFrame
  <2>6. CASE UNCHANGED vars
    BY <2>6, <2>00 DEF vars, lifeVars, taskVars, registerVars
  <2>7. QED
    BY <2>00, <2>1, <2>2, <2>3, <2>4, <2>5, <2>6, QuietSteps, QuietCalls, QuietRest DEF Next
<1>3. QED
  BY <1>1, <1>2, Typing, Agreement, PTL DEF Spec, SlotAccount

(* At most maxConcurrent delegations work at a time, by the count the tray *)
(* and the model are given (start, beginRun).                              *)
THEOREM WorkingBounded == Spec => []AtMostMaxWorking
<1> DEFINE Busy == {t \in Tasks : Registered(t) /\ ~queued[t] /\ ~Finished(t)}
<1>1. TypeOK /\ FieldsAgree /\ SlotsAreHeld => AtMostMaxWorking
  <2> SUFFICES ASSUME TypeOK, FieldsAgree, SlotsAreHeld
               PROVE  AtMostMaxWorking
    OBVIOUS
  <2>1. Busy \subseteq Holders
    BY DEF Holders, Registered, Finished, FieldsAgree, TypeOK, Stages
  <2>2. Cardinality(Busy) \in Nat /\ Cardinality(Busy) <= Cardinality(Holders)
    BY <2>1, HoldersFinite, FS_Subset, FS_CardinalityType
  <2>3. slots <= MaxConcurrent
    BY DelegationsAssumption DEF TypeOK
  <2>4. QED
    BY <2>2, <2>3, HoldersFinite, DelegationsAssumption DEF SlotsAreHeld, AtMostMaxWorking, TypeOK
<1>2. QED
  BY <1>1, Typing, Agreement, SlotsAccounted, PTL

-----------------------------------------------------------------------------
(* The register implements JobPool. A step of one delegation maps to the   *)
(* pool's step of that job, or to a stutter.                               *)
LEMMA PoolStutter ==
  ASSUME \A t \in Tasks : JobState(t)' = JobState(t),
         \A t \in Tasks : Finished(t)' = Finished(t),
         \A t \in Tasks : Finished(t) => output'[t] = output[t],
         stopped' = stopped
  PROVE  UNCHANGED Pool!poolVars
<1>1. [t \in Tasks |-> JobState(t)]' = [t \in Tasks |-> JobState(t)]
  OBVIOUS
<1>2. [t \in Tasks |-> IF Finished(t) THEN output[t] ELSE "none"]'
        = [t \in Tasks |-> IF Finished(t) THEN output[t] ELSE "none"]
  OBVIOUS
<1>3. {t \in Tasks : stopped[t]}' = {t \in Tasks : stopped[t]}
  OBVIOUS
<1>4. QED
  BY <1>1, <1>2, <1>3 DEF Pool!poolVars

(* JobPool counts with the same operator, under the name of its instance.  *)
LEMMA SameCardinality == ASSUME NEW S PROVE Pool!Cardinality(S) = Cardinality(S)
BY DEF Pool!Cardinality, Cardinality

LEMMA BeginRunIsBegin ==
  ASSUME TypeOK, FieldsAgree, SlotsAreHeld, NEW t \in Tasks, BeginRun(t)
  PROVE  Pool!Begin(t)
<1>1. stage[t] = "admitted" /\ queued[t] /\ t \in Holders
  BY DEF BeginRun, Step, FieldsAgree, Holders
<1>2. stage' = [stage EXCEPT ![t] = "working"] /\ queued' = [queued EXCEPT ![t] = FALSE]
      /\ UNCHANGED <<stopped, output>>
  BY DEF BeginRun, Step
<1>3. JobState(t) = "waiting"
  BY <1>1 DEF JobState, Finished
<1>4. Cardinality(Pool!Running) < MaxConcurrent
  <2>1. Pool!Running \subseteq Holders \ {t}
    <3>1. SUFFICES ASSUME NEW u \in Tasks, JobState(u) = "running"
                   PROVE  u \in Holders \ {t}
      BY DEF Pool!Running
    <3>2. u # t
      BY <1>3, <3>1
    <3>3. stage[u] \in Stages /\ stage[u] # "none" /\ ~Finished(u) /\ ~queued[u]
      BY <3>1 DEF JobState, TypeOK
    <3>4. QED
      BY <3>2, <3>3 DEF Finished, Holders, FieldsAgree, Stages
  <2>2. IsFiniteSet(Holders \ {t}) /\ Cardinality(Holders \ {t}) = Cardinality(Holders) - 1
    BY <1>1, HoldersFinite, FS_RemoveElement
  <2>3. Cardinality(Pool!Running) \in Nat /\ Cardinality(Pool!Running) <= Cardinality(Holders) - 1
    BY <2>1, <2>2, FS_Subset, FS_CardinalityType
  <2>4. Cardinality(Holders) <= MaxConcurrent
    BY DelegationsAssumption DEF SlotsAreHeld, TypeOK
  <2>5. QED
    BY <2>3, <2>4, HoldersFinite, DelegationsAssumption
<1>5. [u \in Tasks |-> JobState(u)]'
        = [[u \in Tasks |-> JobState(u)] EXCEPT ![t] = "running"]
  BY <1>1, <1>2 DEF JobState, Finished, TypeOK
<1>6. [u \in Tasks |-> IF Finished(u) THEN output[u] ELSE "none"]'
        = [u \in Tasks |-> IF Finished(u) THEN output[u] ELSE "none"]
  BY <1>1, <1>2 DEF Finished, TypeOK
<1>7. QED
  BY <1>2, <1>3, <1>4, <1>5, <1>6, SameCardinality DEF Pool!Begin

LEMMA CloseDoneIsEnd ==
  ASSUME TypeOK, FieldsAgree, NEW t \in Tasks, CloseDone(t),
         NEW r \in {"ok", "failed", "stopped"}, r = output[t]
  PROVE  Pool!End(t, r)
<1>1. stage[t] = "cancelled" /\ stage' = [stage EXCEPT ![t] = "closed"]
      /\ UNCHANGED <<queued, stopped, output>>
  BY DEF CloseDone, Step
<1>2. /\ output[t] = "stopped" => stopped[t]
      /\ queued[t] => output[t] = "stopped"
  BY <1>1 DEF FieldsAgree
<1>3. JobState(t) = IF queued[t] THEN "waiting" ELSE "running"
  BY <1>1 DEF JobState, Finished
<1>4. [u \in Tasks |-> JobState(u)]' = [[u \in Tasks |-> JobState(u)] EXCEPT ![t] = "over"]
  BY <1>1 DEF JobState, Finished, TypeOK
<1>5. [u \in Tasks |-> IF Finished(u) THEN output[u] ELSE "none"]'
        = [[u \in Tasks |-> IF Finished(u) THEN output[u] ELSE "none"] EXCEPT ![t] = r]
  BY <1>1 DEF Finished, TypeOK
<1>6. QED
  BY <1>1, <1>2, <1>3, <1>4, <1>5 DEF Pool!End

LEMMA MarkStoppedIsTell ==
  ASSUME TypeOK, FieldsAgree, NEW t \in Tasks, NEW why \in {"any", "queued"}, MarkStopped(t, why)
  PROVE  Pool!Tell(t)
<1>1. stage[t] # "none" /\ stopped' = [stopped EXCEPT ![t] = TRUE]
      /\ UNCHANGED <<stage, queued, output>>
  BY DEF MarkStopped, FieldsAgree
<1>2. JobState(t) # "absent"
  BY <1>1 DEF JobState
<1>3. {u \in Tasks : stopped[u]}' = {u \in Tasks : stopped[u]} \cup {t}
  BY <1>1 DEF TypeOK
<1>4. /\ [u \in Tasks |-> JobState(u)]' = [u \in Tasks |-> JobState(u)]
      /\ [u \in Tasks |-> IF Finished(u) THEN output[u] ELSE "none"]'
           = [u \in Tasks |-> IF Finished(u) THEN output[u] ELSE "none"]
  BY <1>1 DEF JobState, Finished
<1>5. QED
  BY <1>2, <1>3, <1>4 DEF Pool!Tell

LEMMA StartIsSubmit ==
  ASSUME TypeOK, NEW t \in Tasks, NEW r \in 0..MaxRuns, Start(t, r)
  PROVE  Pool!Submit(t)
<1>1. stage[t] = "none" /\ stage' = [stage EXCEPT ![t] = "spawned"]
      /\ queued' = [queued EXCEPT ![t] = TRUE] /\ UNCHANGED <<stopped, output>>
  BY DEF Start, Step
<1>2. [u \in Tasks |-> JobState(u)]' = [[u \in Tasks |-> JobState(u)] EXCEPT ![t] = "waiting"]
  BY <1>1 DEF JobState, Finished, TypeOK
<1>3. [u \in Tasks |-> IF Finished(u) THEN output[u] ELSE "none"]'
        = [u \in Tasks |-> IF Finished(u) THEN output[u] ELSE "none"]
  BY <1>1 DEF Finished, TypeOK
<1>4. JobState(t) = "absent"
  BY <1>1 DEF JobState
<1>5. QED
  BY <1>1, <1>2, <1>3, <1>4 DEF Pool!Submit

(* Every behaviour of the register is one of the pool: jobs are worked on  *)
(* at most maxConcurrent at a time, end once, and early only when told to  *)
(* (start, release, stop).                                                 *)
THEOREM Implementation == Spec => ImplementsPool
<1>1. Init => Pool!PoolInit
  BY DEF Init, Pool!PoolInit, JobState, Finished
<1>2. TypeOK /\ FieldsAgree /\ SlotsAreHeld /\ [Next]_vars => [Pool!PoolNext]_(Pool!poolVars)
  <2> SUFFICES ASSUME TypeOK, FieldsAgree, SlotsAreHeld, [Next]_vars
               PROVE  Pool!PoolNext \/ UNCHANGED Pool!poolVars
    OBVIOUS
  <2>0. ASSUME UNCHANGED <<lifeVars, slots>>
        PROVE  UNCHANGED Pool!poolVars
    <3>1. UNCHANGED <<stage, queued, output, stopped>>
      BY <2>0 DEF lifeVars
    <3>2. QED
      BY <3>1, PoolStutter DEF JobState, Finished
  <2>1. CASE Plan
    BY <2>1, <2>0 DEF Plan, lifeVars, taskVars
  <2>2. ASSUME NEW t \in Tasks, NEW r \in 0..MaxRuns, Start(t, r)
        PROVE  Pool!PoolNext
    BY <2>2, StartIsSubmit DEF Pool!PoolNext
  <2>3. ASSUME NEW t \in Tasks, Goroutine(t)
        PROVE  Pool!PoolNext \/ UNCHANGED Pool!poolVars
    <3>1. CASE BeginRun(t)
      BY <3>1, BeginRunIsBegin DEF Pool!PoolNext
    <3>2. CASE CloseDone(t)
      <4>1. PICK r \in {"ok", "failed", "stopped"} : r = output[t]
        BY <3>2 DEF CloseDone, Step, FieldsAgree, TypeOK
      <4>2. Pool!End(t, r)
        BY <3>2, <4>1, CloseDoneIsEnd
      <4>3. QED
        BY <4>2 DEF Pool!PoolNext
    <3>3. CASE Release(t)
      <4>1. ASSUME NEW u \in Tasks
            PROVE  \/ stage'[u] = stage[u]
                   \/ stage[u] = "closed" /\ stage'[u] = "gone"
                   \/ stage[u] = "queued" /\ stage'[u] = "admitted"
        BY <3>3 DEF Release, FirstInLine, InLine, TypeOK
      <4>2. UNCHANGED <<queued, stopped, output>>
        BY <3>3 DEF Release
      <4>3. QED
        BY <4>1, <4>2, PoolStutter DEF JobState, Finished
    <3>4. CASE TakeSlot(t) \/ JoinLine(t)
      BY <3>4, PoolStutter DEF TakeSlot, JoinLine, Step, JobState, Finished, TypeOK
    <3>5. CASE TurnAway(t)
      BY <3>5, PoolStutter DEF TurnAway, JobState, Finished, TypeOK
    <3>6. CASE Work(t, "ok") \/ Work(t, "failed")
      BY <3>6, PoolStutter DEF Work, JobState, Finished, TypeOK
    <3>7. CASE DeferredCancel(t)
      BY <3>7, PoolStutter DEF DeferredCancel, Step, JobState, Finished, TypeOK
    <3>8. QED
      BY <2>3, <3>1, <3>2, <3>3, <3>4, <3>5, <3>6, <3>7 DEF Goroutine
  <2>4. CASE Stopping
    <3>1. ASSUME NEW t \in Tasks, NEW why \in {"any", "queued"}, MarkStopped(t, why)
          PROVE  Pool!PoolNext
      BY <3>1, MarkStoppedIsTell DEF Pool!PoolNext
    <3>2. ASSUME NEW t \in Tasks, Cancel(t)
          PROVE  UNCHANGED Pool!poolVars
      BY <3>2, PoolStutter DEF Cancel, JobState, Finished
    <3>3. ASSUME UNCHANGED taskVars
          PROVE  UNCHANGED Pool!poolVars
      BY <3>3, PoolStutter DEF taskVars, JobState, Finished
    <3>4. QED
      BY <2>4, <3>1, <3>2, <3>3 DEF Stopping, Stop, StopAll, StopQueued, StopRun, Doom
  <2>5. ASSUME NEW t \in Tasks, CallCancelled(t)
        PROVE  UNCHANGED Pool!poolVars
    BY <2>5, PoolStutter DEF CallCancelled, Step, JobState, Finished, TypeOK
  <2>6. CASE UNCHANGED vars
    BY <2>6, <2>0 DEF vars, lifeVars, taskVars, registerVars
  <2>7. QED
    BY <2>0, <2>1, <2>2, <2>3, <2>4, <2>5, <2>6, QuietSteps, QuietCalls, QuietRest DEF Next
<1>3. QED
  BY <1>1, <1>2, Typing, Agreement, SlotsAccounted, PTL DEF Spec, ImplementsPool, Pool!PoolSpec

-----------------------------------------------------------------------------
(* Where a question is. Posted, handed over and set as pending by other    *)
(* goroutines one lock at a time, it is in one place, and with its asker;  *)
(* before it is posted and after it is answered it is in none.             *)
Nowhere(q) ==
  /\ \A t \in Tasks : posted[t] # q /\ pending[t] # q
  /\ \A c \in Callers : hand[c] # q

PostedOnce ==
  \A t \in Tasks, q \in Questions :
    posted[t] = q => asker[q] = t /\ pending[t] # q /\ \A c \in Callers : hand[c] # q

PendingOnce ==
  \A t \in Tasks, q \in Questions :
    pending[t] = q => asker[q] = t /\ \A c \in Callers : hand[c] # q

HeldOnce ==
  \A c \in Callers, q \in Questions :
    hand[c] = q => asker[q] = on[c] /\ \A d \in Callers : hand[d] = q => d = c

FreshIsNowhere ==
  \A q \in Questions :
    /\ asking[q] \in {"unasked", "posting"} => ~mail[q] /\ Nowhere(q)
    /\ mail[q] => Nowhere(q)

HandsAreFull ==
  \A c \in Callers : hand[c] # NoQuestion <=> pc[c] \in {"hold", "answerHold"}

OnePlace == PostedOnce /\ PendingOnce /\ HeldOnce /\ FreshIsNowhere /\ HandsAreFull

(* As long as no question outlives its call, a delegate that has not been  *)
(* cancelled is inside one question, the one its tool loop waits for, and  *)
(* a question that is somewhere has its asker still in ask().              *)
OneAsk ==
  \A q \in Questions : asking[q] \in {"posting", "asking", "leaving"} =>
    /\ asker[q] \in Tasks
    /\ ~ctxDone[asker[q]] => inCall[asker[q]] = q

AskerIsIn ==
  \A q \in Questions : ~Nowhere(q) =>
    asker[q] \in Tasks /\ (asking[q] = "asking" \/ ctxDone[asker[q]])

NotLost ==
  \A q \in Questions :
    asking[q] = "asking" /\ ~mail[q] /\ ~ctxDone[asker[q]] => ~Nowhere(q)

AskInv == OneAsk /\ AskerIsIn /\ NotLost

(* What a step must touch to move a question.                              *)
askFrame == <<asking, asker, mail, posted, pending, pc, on, hand>>

(* Starting, working and stopping touch no question.                       *)
LEMMA StartElsewhere ==
  ASSUME NEW t \in Tasks, NEW r \in 0..MaxRuns, Start(t, r)
  PROVE  UNCHANGED <<askFrame, inCall, ctxDone>>
BY DEF Start, askFrame, askVars, callerVars

LEMMA Elsewhere ==
  ASSUME Plan \/ Stopping \/ \E t \in Tasks : Goroutine(t)
  PROVE  UNCHANGED <<askFrame, inCall>>
BY DEF Plan, Goroutine, TakeSlot, JoinLine, TurnAway, BeginRun, Work, DeferredCancel,
       CloseDone, Release, Stopping, Stop, StopAll, StopQueued, StopRun, Doom, MarkStopped,
       Cancel, askFrame, askVars, callerVars

(* The steps of a question's own goroutine keep it in one place.           *)
LEMMA AskKeepsOnePlace ==
  ASSUME TypeOK, OnePlace, NEW t \in Tasks, NEW q \in Questions, Asking(t, q)
  PROVE  OnePlace'
<1> USE DelegationsAssumption DEF TypeOK, OnePlace, PostedOnce, PendingOnce, HeldOnce,
      FreshIsNowhere, HandsAreFull, Nowhere, taskVars, registerVars, callerVars, OwnAsk
<1>1. CASE AskMain(t, q)
  BY <1>1 DEF AskMain
<1>2. CASE LookIn(t, q)
  BY <1>2 DEF LookIn
<1>3. CASE Post(t, q)
  BY <1>3 DEF Post
<1>4. CASE PostCancelled(t, q)
  BY <1>4 DEF PostCancelled
<1>5. CASE HearAnswer(t, q)
  BY <1>5 DEF HearAnswer
<1>6. CASE VoidAsk(t, q)
  BY <1>6 DEF VoidAsk
<1>7. CASE LeaveAsk(t, q)
  BY <1>7 DEF LeaveAsk
<1>8. QED
  BY <1>1, <1>2, <1>3, <1>4, <1>5, <1>6, <1>7 DEF Asking

(* So do the steps of a caller, that of setAsk among them, where the       *)
(* question leaves the hand as it becomes pending.                         *)
LEMMA CallKeepsOnePlace ==
  ASSUME TypeOK, OnePlace, NEW c \in Callers,
         \/ CallStep(c)
         \/ CollectCancelled(c)
         \/ \E t \in Tasks : Collect(c, t) \/ Answer(c, t)
  PROVE  OnePlace'
<1> USE DelegationsAssumption DEF TypeOK, OnePlace, PostedOnce, PendingOnce, HeldOnce,
      FreshIsNowhere, HandsAreFull, Nowhere, taskVars, registerVars, askVars, CallerStages, Goto
<1>1. ASSUME NEW t \in Tasks, Collect(c, t) \/ Answer(c, t)
      PROVE  OnePlace'
  <2>1. /\ pc[c] = "idle" /\ pc'[c] \notin {"hold", "answerHold"} /\ hand[c] = NoQuestion
        /\ \A d \in Callers \ {c} : pc'[d] = pc[d] /\ on'[d] = on[d]
        /\ UNCHANGED <<asking, asker, mail, posted, pending, hand>>
    BY <1>1 DEF Collect, Answer, Call
  <2>2. HeldOnce'
    BY <2>1
  <2>3. HandsAreFull'
    BY <2>1
  <2>4. QED
    BY <2>1, <2>2, <2>3
<1>2. CASE \/ CheckOver(c) \/ PeekPending(c) \/ Redeem(c) \/ AnswerPeek(c)
           \/ NothingToDrain(c) \/ RefuseAnswer(c) \/ CollectCancelled(c)
  <2>1. UNCHANGED <<asking, asker, mail, posted, pending, on, hand>>
    BY <1>2 DEF CheckOver, PeekPending, Redeem, AnswerPeek, NothingToDrain, RefuseAnswer,
                CollectCancelled
  <2>2. /\ pc[c] \notin {"hold", "answerHold"} /\ pc'[c] \notin {"hold", "answerHold"}
        /\ \A d \in Callers \ {c} : pc'[d] = pc[d]
    BY <1>2 DEF CheckOver, PeekPending, Redeem, AnswerPeek, NothingToDrain, RefuseAnswer,
                CollectCancelled
  <2>3. HandsAreFull'
    BY <2>1, <2>2
  <2>4. QED
    BY <2>1, <2>3
<1>3. CASE ReceiveQuestion(c) \/ DrainQuestion(c)
  <2>1. /\ pc[c] \notin {"hold", "answerHold"} /\ pc'[c] \in {"hold", "answerHold"}
        /\ \A d \in Callers \ {c} : pc'[d] = pc[d] /\ hand'[d] = hand[d]
        /\ UNCHANGED <<asking, asker, mail, pending, on>>
    BY <1>3 DEF ReceiveQuestion, DrainQuestion, Receive
  <2>2. /\ posted[on[c]] \in Questions /\ on[c] \in Tasks
        /\ hand'[c] = posted[on[c]] /\ posted'[on[c]] = NoQuestion
        /\ \A t \in Tasks \ {on[c]} : posted'[t] = posted[t]
    BY <1>3, <2>1 DEF ReceiveQuestion, DrainQuestion, Receive
  <2>3. /\ asker[hand'[c]] = on[c]
        /\ \A d \in Callers : hand[d] # hand'[c]
        /\ \A t \in Tasks : pending[t] # hand'[c]
        /\ asking[hand'[c]] \notin {"unasked", "posting"} /\ ~mail[hand'[c]]
    BY <2>2
  <2>4. PostedOnce'
    BY <2>1, <2>2
  <2>5. PendingOnce'
    BY <2>1, <2>2, <2>3
  <2>6. HeldOnce'
    BY <2>1, <2>2, <2>3
  <2>7. FreshIsNowhere'
    BY <2>1, <2>2, <2>3
  <2>8. HandsAreFull'
    BY <2>1, <2>2
  <2>9. QED
    BY <2>4, <2>5, <2>6, <2>7, <2>8
<1>4. CASE HandOutQuestion(c) \/ SetDrained(c)
  <2>1. /\ pc[c] \in {"hold", "answerHold"} /\ pc'[c] \notin {"hold", "answerHold"}
        /\ \A d \in Callers \ {c} : pc'[d] = pc[d] /\ hand'[d] = hand[d]
        /\ hand'[c] = NoQuestion
        /\ UNCHANGED <<asking, asker, mail, posted, on>>
    BY <1>4 DEF HandOutQuestion, SetDrained, SetAsk
  <2>2. /\ hand[c] \in Questions /\ on[c] \in Tasks
        /\ pending'[on[c]] = hand[c]
        /\ \A t \in Tasks \ {on[c]} : pending'[t] = pending[t]
    BY <1>4, <2>1 DEF HandOutQuestion, SetDrained, SetAsk
  <2>3. /\ asker[hand[c]] = on[c]
        /\ \A d \in Callers \ {c} : hand[d] # hand[c]
        /\ \A t \in Tasks : posted[t] # hand[c]
        /\ asking[hand[c]] \notin {"unasked", "posting"} /\ ~mail[hand[c]]
    BY <2>2
  <2>4. PostedOnce'
    BY <2>1, <2>2, <2>3
  <2>5. PendingOnce'
    BY <2>1, <2>2, <2>3
  <2>6. HeldOnce'
    BY <2>1, <2>2
  <2>7. FreshIsNowhere'
    BY <2>1, <2>2, <2>3
  <2>8. HandsAreFull'
    BY <2>1
  <2>9. QED
    BY <2>4, <2>5, <2>6, <2>7, <2>8
<1>5. CASE AcceptAnswer(c)
  BY <1>5 DEF AcceptAnswer
<1>6. QED
  BY <1>1, <1>2, <1>3, <1>4, <1>5 DEF CallStep

(* A question is in one place at every moment, however the parent's calls  *)
(* race for it: the channel, a hand, the pending slot (ask, setAsk).       *)
THEOREM QuestionsInOnePlace == Spec => []OnePlace
<1>1. Init => OnePlace
  BY DelegationsAssumption DEF Init, OnePlace, PostedOnce, PendingOnce, HeldOnce,
     FreshIsNowhere, HandsAreFull, Nowhere
<1>2. TypeOK /\ OnePlace /\ [Next]_vars => OnePlace'
  <2> SUFFICES ASSUME TypeOK, OnePlace, [Next]_vars
               PROVE  OnePlace'
    OBVIOUS
  <2>1. ASSUME UNCHANGED askFrame
        PROVE  OnePlace'
    BY <2>1 DEF askFrame, OnePlace, PostedOnce, PendingOnce, HeldOnce, FreshIsNowhere,
                HandsAreFull, Nowhere
  <2>2. ASSUME NEW t \in Tasks, CallOutrunsDeadline(t) \/ CallReturns(t) \/ CallCancelled(t)
        PROVE  OnePlace'
    BY <2>2, <2>1 DEF CallOutrunsDeadline, CallReturns, CallCancelled, askFrame, callerVars
  <2>3. CASE UNCHANGED vars
    BY <2>3, <2>1 DEF vars, askFrame, askVars, callerVars
  <2>4. QED
    <3>1. ASSUME NEW t \in Tasks, NEW r \in 0..MaxRuns, Start(t, r)
          PROVE  OnePlace'
      BY <3>1, <2>1, StartElsewhere
    <3>2. CASE Plan \/ Stopping \/ \E t \in Tasks : Goroutine(t)
      BY <3>2, <2>1, Elsewhere
    <3>3. QED
      BY <2>2, <2>3, <3>1, <3>2, AskKeepsOnePlace, CallKeepsOnePlace DEF Next
<1>3. QED
  BY <1>1, <1>2, Typing, PTL DEF Spec

(* One answer reaches a question at most: it is in one place until it is   *)
(* answered and in none afterwards (takeAsk).                              *)
THEOREM OneAnswerEach == Spec => []OneAnswerPerQuestion
<1>1. OnePlace => OneAnswerPerQuestion
  <2> SUFFICES ASSUME OnePlace, NEW q \in Questions
               PROVE  Cardinality(Places(q)) <= (IF mail[q] THEN 0 ELSE 1)
    BY DEF OneAnswerPerQuestion, OnePlace, PostedOnce, PendingOnce, HeldOnce
  <2> USE DEF OnePlace, PostedOnce, PendingOnce, HeldOnce, FreshIsNowhere, Nowhere
  <2>1. CASE Nowhere(q)
    <3>1. Places(q) = {}
      BY <2>1 DEF Places
    <3>2. QED
      BY <3>1, FS_EmptySet
  <2>2. ASSUME NEW x, ~mail[q], Places(q) = {x}
        PROVE  Cardinality(Places(q)) <= (IF mail[q] THEN 0 ELSE 1)
    BY <2>2, FS_Singleton
  <2>3. ASSUME NEW t \in Tasks, posted[t] = q
        PROVE  Cardinality(Places(q)) <= (IF mail[q] THEN 0 ELSE 1)
    <3>1. Places(q) = {<<"posted", t>>}
      BY <2>3 DEF Places
    <3>2. QED
      BY <2>2, <2>3, <3>1
  <2>4. ASSUME NEW t \in Tasks, pending[t] = q
        PROVE  Cardinality(Places(q)) <= (IF mail[q] THEN 0 ELSE 1)
    <3>1. Places(q) = {<<"pending", t>>}
      BY <2>4 DEF Places
    <3>2. QED
      BY <2>2, <2>4, <3>1
  <2>5. ASSUME NEW c \in Callers, hand[c] = q
        PROVE  Cardinality(Places(q)) <= (IF mail[q] THEN 0 ELSE 1)
    <3>1. Places(q) = {<<"hand", c>>}
      BY <2>5 DEF Places
    <3>2. QED
      BY <2>2, <2>5, <3>1
  <2>6. QED
    BY <2>1, <2>3, <2>4, <2>5
<1>2. QED
  BY <1>1, QuestionsInOnePlace, PTL

-----------------------------------------------------------------------------
(* Time only cancels: a step that touches no question keeps the rest.      *)
LEMMA AskFrame ==
  ASSUME TypeOK, AskInv, UNCHANGED <<askFrame, inCall>>,
         \A t \in Tasks : ctxDone[t] => ctxDone'[t]
  PROVE  AskInv'
<1>1. \A q \in Questions : Nowhere(q)' <=> Nowhere(q)
  BY DEF Nowhere, askFrame
<1>2. QED
  BY <1>1 DEF AskInv, OneAsk, AskerIsIn, NotLost, askFrame, TypeOK

(* No context is ever uncancelled.                                         *)
LEMMA CancelsOnly ==
  ASSUME TypeOK, Plan \/ Stopping \/ \E t \in Tasks : Goroutine(t)
  PROVE  \A t \in Tasks : ctxDone[t] => ctxDone'[t]
BY DEF TypeOK, Plan, Goroutine, TakeSlot, JoinLine, TurnAway, BeginRun, Work, DeferredCancel,
       CloseDone, Release, Stopping, Stop, StopAll, StopQueued, StopRun, Doom, MarkStopped,
       Cancel, taskVars

(* The steps of a question's goroutine; only a cancelled one gives up.     *)
LEMMA AskKeepsAskInv ==
  ASSUME ~SlowAnswers, TypeOK, OnePlace, AskInv, NEW t \in Tasks, NEW q \in Questions,
         Asking(t, q)
  PROVE  AskInv'
<1> USE DelegationsAssumption DEF TypeOK, AskStages, OnePlace, PostedOnce, PendingOnce, HeldOnce,
      FreshIsNowhere, HandsAreFull, AskInv, OneAsk, AskerIsIn, NotLost, Nowhere,
      taskVars, registerVars, callerVars, OwnAsk, AskCancelled
<1>1. CASE AskMain(t, q)
  BY <1>1 DEF AskMain
<1>2. CASE LookIn(t, q)
  BY <1>2 DEF LookIn
<1>3. CASE Post(t, q)
  BY <1>3 DEF Post
<1>4. CASE PostCancelled(t, q)
  BY <1>4 DEF PostCancelled
<1>5. CASE HearAnswer(t, q)
  BY <1>5 DEF HearAnswer
<1>6. CASE VoidAsk(t, q)
  BY <1>6 DEF VoidAsk
<1>7. CASE LeaveAsk(t, q)
  BY <1>7 DEF LeaveAsk
<1>8. QED
  BY <1>1, <1>2, <1>3, <1>4, <1>5, <1>6, <1>7 DEF Asking

(* A caller's steps: what setAsk overwrites was given up by its asker, or  *)
(* the delegate would be in two questions.                                 *)
LEMMA CallKeepsAskInv ==
  ASSUME TypeOK, OnePlace, AskInv, NEW c \in Callers,
         \/ CallStep(c)
         \/ CollectCancelled(c)
         \/ \E t \in Tasks : Collect(c, t) \/ Answer(c, t)
  PROVE  AskInv'
<1> USE DelegationsAssumption DEF TypeOK, AskStages, OnePlace, PostedOnce, PendingOnce, HeldOnce,
      FreshIsNowhere, HandsAreFull, AskInv, OneAsk, AskerIsIn, NotLost, Nowhere,
      taskVars, registerVars, askVars, Goto
<1>1. ASSUME UNCHANGED <<asking, asker, mail, posted, pending, hand, inCall, ctxDone>>
      PROVE  AskInv'
  BY <1>1
<1>2. ASSUME NEW t \in Tasks, Collect(c, t) \/ Answer(c, t)
      PROVE  AskInv'
  BY <1>1, <1>2 DEF Collect, Answer, Call
<1>3. CASE \/ CheckOver(c) \/ PeekPending(c) \/ Redeem(c) \/ AnswerPeek(c)
           \/ NothingToDrain(c) \/ RefuseAnswer(c) \/ CollectCancelled(c)
  BY <1>1, <1>3 DEF CheckOver, PeekPending, Redeem, AnswerPeek, NothingToDrain, RefuseAnswer,
                    CollectCancelled
<1>4. CASE ReceiveQuestion(c) \/ DrainQuestion(c)
  <2>1. /\ posted[on[c]] \in Questions /\ on[c] \in Tasks /\ hand[c] = NoQuestion
        /\ hand' = [hand EXCEPT ![c] = posted[on[c]]]
        /\ posted' = [posted EXCEPT ![on[c]] = NoQuestion]
        /\ UNCHANGED <<asking, asker, mail, pending, inCall, ctxDone>>
    BY <1>4 DEF ReceiveQuestion, DrainQuestion, Receive
  <2>2. \A q \in Questions : Nowhere(q)' <=> Nowhere(q)
    BY <2>1
  <2>3. OneAsk'
    BY <2>1
  <2>4. AskerIsIn' /\ NotLost'
    BY <2>1, <2>2 DEF Nowhere
  <2>5. QED
    BY <2>3, <2>4
<1>5. CASE HandOutQuestion(c) \/ SetDrained(c)
  <2> DEFINE t == on[c]
             q == hand[c]
  <2>1. /\ q \in Questions /\ t \in Tasks
        /\ pending' = [pending EXCEPT ![t] = q]
        /\ hand' = [hand EXCEPT ![c] = NoQuestion]
        /\ UNCHANGED <<asking, asker, mail, posted, inCall, ctxDone>>
    BY <1>5 DEF HandOutQuestion, SetDrained, SetAsk
  <2>2. asker[q] = t /\ (asking[q] = "asking" \/ ctxDone[t])
    BY <2>1
  <2>3. ASSUME NEW p \in Questions, pending[t] = p, ~ctxDone[t]
        PROVE  asking[p] # "asking"
    <3>1. p # q /\ asker[p] = t
      BY <2>1, <2>3
    <3>2. asking[p] = "asking" => inCall[t] = p
      BY <2>3, <3>1
    <3>3. inCall[t] = q
      BY <2>1, <2>2, <2>3
    <3>4. QED
      BY <3>1, <3>2, <3>3
  <2>4. OneAsk'
    BY <2>1
  <2>5. AskerIsIn'
    <3>1. \A p \in Questions : Nowhere(p)' \/ ~Nowhere(p)
      BY <2>1
    <3>2. QED
      BY <2>1, <3>1
  <2>6. NotLost'
    <3>1. SUFFICES ASSUME NEW p \in Questions, asking[p] = "asking", ~mail[p],
                          ~ctxDone[asker[p]]
                   PROVE  ~Nowhere(p)'
      BY <2>1
    <3>2. CASE p = q
      BY <2>1, <3>2
    <3>3. CASE p # q
      <4>1. \A u \in Tasks : pending[u] = p => u # t
        BY <2>3, <3>1
      <4>2. QED
        BY <2>1, <3>1, <3>3, <4>1
    <3>4. QED
      BY <3>2, <3>3
  <2>7. QED
    BY <2>4, <2>5, <2>6
<1>6. CASE AcceptAnswer(c)
  BY <1>6 DEF AcceptAnswer
<1>7. QED
  BY <1>2, <1>3, <1>4, <1>5, <1>6 DEF CallStep

(* A delegate that was not cancelled is in one question, and a question    *)
(* that can be found has its asker waiting (ask, takeAsk).                 *)
THEOREM QuestionsAreAsked == ASSUME ~SlowAnswers PROVE Spec => []AskInv
<1>1. Init => AskInv
  BY DelegationsAssumption DEF Init, AskInv, OneAsk, AskerIsIn, NotLost, Nowhere
<1>2. TypeOK /\ OnePlace /\ AskInv /\ [Next]_vars => AskInv'
  <2> SUFFICES ASSUME TypeOK, OnePlace, AskInv, [Next]_vars
               PROVE  AskInv'
    OBVIOUS
  <2>1. ASSUME NEW t \in Tasks, NEW r \in 0..MaxRuns, Start(t, r)
        PROVE  AskInv'
    BY <2>1, StartElsewhere, AskFrame
  <2>2. CASE Plan \/ Stopping \/ \E t \in Tasks : Goroutine(t)
    BY <2>2, Elsewhere, CancelsOnly, AskFrame
  <2>3. ASSUME NEW t \in Tasks, CallOutrunsDeadline(t) \/ CallReturns(t) \/ CallCancelled(t)
        PROVE  AskInv'
    BY <2>3, DelegationsAssumption DEF CallOutrunsDeadline, CallReturns, CallCancelled, Step,
       TypeOK, taskVars, callerVars, AskInv, OneAsk, AskerIsIn, NotLost, Nowhere
  <2>4. CASE UNCHANGED vars
    BY <2>4, AskFrame DEF vars, askFrame, taskVars, askVars, callerVars
  <2>5. QED
    BY <2>1, <2>2, <2>3, <2>4, AskKeepsAskInv, CallKeepsAskInv DEF Next
<1>3. QED
  BY <1>1, <1>2, Typing, QuestionsInOnePlace, PTL DEF Spec

(* While its delegate waits inside ask() and nobody stopped it, a question *)
(* without an answer can still be collected or answered, whichever calls   *)
(* of the parent race for it (collect, answer, setAsk).                    *)
THEOREM NoQuestionIsLost == ASSUME ~SlowAnswers PROVE Spec => []NoStrandedQuestion
<1>1. AskInv => NoStrandedQuestion
  <2>1. \A q \in Questions : Places(q) # {} <=> ~Nowhere(q)
    BY DEF Places, Nowhere
  <2>2. QED
    BY <2>1 DEF AskInv, NotLost, NoStrandedQuestion
<1>2. QED
  BY <1>1, QuestionsAreAsked, PTL

(* An answer that is accepted finds its asker still in ask(), unless the   *)
(* delegation was cancelled (answer, takeAsk).                             *)
THEOREM AnswersAreHeard == ASSUME ~SlowAnswers PROVE Spec => AcceptedAnswerIsHeard
<1> DEFINE Heard == \A q \in Questions : mail'[q] # mail[q] =>
                      asking[q] = "asking" \/ ctxDone[asker[q]]
<1>1. TypeOK /\ AskInv /\ [Next]_vars => [Heard]_vars
  <2> SUFFICES ASSUME TypeOK, AskInv, Next, NEW q \in Questions, mail'[q] # mail[q]
               PROVE  asking[q] = "asking" \/ ctxDone[asker[q]]
    OBVIOUS
  <2>1. PICK c \in Callers : AcceptAnswer(c)
    <3>1. ~(Plan \/ Stopping \/ \E t \in Tasks : Goroutine(t))
      BY Elsewhere DEF askFrame
    <3>2. QED
      BY <3>1 DEF Next, Start, Asking, AskMain, LookIn, Post, PostCancelled, HearAnswer, VoidAsk,
        LeaveAsk, CallOutrunsDeadline, CallReturns, CallCancelled, Collect, Answer, Call,
        CallStep, CheckOver, PeekPending, Redeem, ReceiveQuestion, HandOutQuestion, AnswerPeek,
        DrainQuestion, SetDrained, NothingToDrain, RefuseAnswer, CollectCancelled, Receive,
        SetAsk, askVars
  <2>2. q = pending[on[c]] /\ on[c] \in Tasks
    BY <2>1 DEF AcceptAnswer, Goto, TypeOK
  <2>3. QED
    BY <2>2 DEF AskInv, AskerIsIn, Nowhere
<1>2. QED
  BY <1>1, Typing, QuestionsAreAsked, PTL DEF Spec, AcceptedAnswerIsHeard
=============================================================================
