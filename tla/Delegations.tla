---------------------------- MODULE Delegations ----------------------------
(***************************************************************************)
(* The register of background delegations of one conversation, type        *)
(* Delegations of src/internal/subagent/runner.go, with the goroutine of   *)
(* every delegate, the ask_main call a delegate parks in (ask.go), the     *)
(* collect and answer calls of the main agent, and the four Stop doors.    *)
(*                                                                         *)
(* The Go runtime is modelled as far as the code leans on it: a send on a  *)
(* full channel queues in arrival order, a receive hands the slot to the   *)
(* first queued sender, closing a context's channel wakes a select that is *)
(* blocked on it at once, and a select with several ready cases takes any. *)
(***************************************************************************)
EXTENDS Naturals, FiniteSets

CONSTANTS
  Tasks,          (* delegations that may be started                        *)
  Questions,      (* ask_main calls that may be made, each used once        *)
  Callers,        (* goroutines that collect and answer                     *)
  MaxConcurrent,  (* maxConcurrent: the slots                               *)
  MaxRuns,        (* bound: how many runs may be declared                   *)
  SlowAnswers,    (* TRUE: a question may outlive the executor's deadline   *)
  NoTask, NoQuestion

ASSUME DelegationsAssumption ==
  /\ IsFiniteSet(Tasks)
  /\ MaxConcurrent \in Nat \ {0}
  /\ MaxRuns \in Nat
  /\ SlowAnswers \in BOOLEAN
  /\ NoTask \notin Tasks
  /\ NoQuestion \notin Questions

VARIABLES
  (* one delegation, type runningTask                                      *)
  stage,      (* how far its goroutine has come                            *)
  queued,     (* runningTask.queued                                        *)
  stopped,    (* runningTask.stopped                                       *)
  ctxDone,    (* its context has been cancelled                            *)
  output,     (* runningTask.output, written once                          *)
  collected,  (* runningTask.collected                                     *)
  runOf,      (* runningTask.run, 0 for a loose delegate                   *)
  (* the register                                                          *)
  slots,      (* tokens in the slots channel                               *)
  ahead,      (* senders that were queued on slots before this one         *)
  openRun,    (* the run a new delegation joins, 0 for none                *)
  doomed,     (* what running Stop calls have listed and not yet stopped   *)
  marked,     (* marked stopped, cancel not yet called                     *)
  (* questions                                                             *)
  asking,     (* how far the goroutine inside ask() has come               *)
  asker,      (* the delegation a question belongs to                      *)
  older,      (* the calls of that delegation that were under way before   *)
  mail,       (* its answer channel holds an answer                        *)
  posted,     (* what the asks channel of a task holds                     *)
  pending,    (* runningTask.pending                                       *)
  parked,     (* runningTask.parked                                        *)
  inCall,     (* the ask_main call a delegate's tool loop is waiting for   *)
  (* callers                                                               *)
  pc, on, hand

taskVars     == <<stage, queued, stopped, ctxDone, output, collected, runOf>>
registerVars == <<slots, ahead, openRun, doomed, marked>>
askVars      == <<asking, asker, older, mail, posted, pending, parked, inCall>>
callerVars   == <<pc, on, hand>>
vars         == <<taskVars, registerVars, askVars, callerVars>>

Stages == {"none", "spawned", "queued", "admitted", "working",
           "unwinding", "returned", "cancelled", "closed", "gone"}
AskStages == {"unasked", "posting", "asking", "leaving", "left"}
CallerStages == {"idle", "check", "peek", "select", "await", "hold",
                 "answerPeek", "answerDrain", "answerHold", "answerTake"}

TypeOK ==
  /\ stage \in [Tasks -> Stages]
  /\ queued \in [Tasks -> BOOLEAN]
  /\ stopped \in [Tasks -> BOOLEAN]
  /\ ctxDone \in [Tasks -> BOOLEAN]
  /\ output \in [Tasks -> {"none", "ok", "failed", "stopped"}]
  /\ collected \in [Tasks -> BOOLEAN]
  /\ runOf \in [Tasks -> 0..MaxRuns]
  /\ slots \in 0..MaxConcurrent
  /\ ahead \in [Tasks -> SUBSET Tasks]
  /\ openRun \in 0..MaxRuns
  /\ doomed \in SUBSET (Tasks \X {"any", "queued"})
  /\ marked \in SUBSET Tasks
  /\ asking \in [Questions -> AskStages]
  /\ asker \in [Questions -> Tasks \cup {NoTask}]
  /\ older \in [Questions -> SUBSET Questions]
  /\ mail \in [Questions -> BOOLEAN]
  /\ posted \in [Tasks -> Questions \cup {NoQuestion}]
  /\ pending \in [Tasks -> Questions \cup {NoQuestion}]
  /\ parked \in [Tasks -> Questions \cup {NoQuestion}]
  /\ inCall \in [Tasks -> Questions \cup {NoQuestion}]
  /\ pc \in [Callers -> CallerStages]
  /\ on \in [Callers -> Tasks \cup {NoTask}]
  /\ hand \in [Callers -> Questions \cup {NoQuestion}]
  /\ \A c \in Callers : pc[c] # "idle" => on[c] \in Tasks

Init ==
  /\ stage = [t \in Tasks |-> "none"]
  /\ queued = [t \in Tasks |-> FALSE]
  /\ stopped = [t \in Tasks |-> FALSE]
  /\ ctxDone = [t \in Tasks |-> FALSE]
  /\ output = [t \in Tasks |-> "none"]
  /\ collected = [t \in Tasks |-> FALSE]
  /\ runOf = [t \in Tasks |-> 0]
  /\ slots = 0
  /\ ahead = [t \in Tasks |-> {}]
  /\ openRun = 0
  /\ doomed = {}
  /\ marked = {}
  /\ asking = [q \in Questions |-> "unasked"]
  /\ asker = [q \in Questions |-> NoTask]
  /\ older = [q \in Questions |-> {}]
  /\ mail = [q \in Questions |-> FALSE]
  /\ posted = [t \in Tasks |-> NoQuestion]
  /\ pending = [t \in Tasks |-> NoQuestion]
  /\ parked = [t \in Tasks |-> NoQuestion]
  /\ inCall = [t \in Tasks |-> NoQuestion]
  /\ pc = [c \in Callers |-> "idle"]
  /\ on = [c \in Callers |-> NoTask]
  /\ hand = [c \in Callers |-> NoQuestion]

-----------------------------------------------------------------------------
(* finished(): the done channel is closed.                                 *)
Finished(t) == stage[t] \in {"closed", "gone"}
Registered(t) == stage[t] # "none"

(* Blocked on `r.slots <-`: cancelling the context takes it out at once.   *)
InLine == {t \in Tasks : stage[t] = "queued" /\ ~ctxDone[t]}

(* The delegations that hold one of the slots.                             *)
Holders == {t \in Tasks :
              \/ stage[t] \in {"admitted", "working", "unwinding"}
              \/ stage[t] \in {"returned", "cancelled", "closed"} /\ ~queued[t]}

Step(t, from, to) ==
  /\ stage[t] = from
  /\ stage' = [stage EXCEPT ![t] = to]

-----------------------------------------------------------------------------
(* Declaring a run and starting delegations.                               *)

Plan ==
  /\ openRun < MaxRuns
  /\ openRun' = openRun + 1
  /\ UNCHANGED <<taskVars, slots, ahead, doomed, marked, askVars, callerVars>>

(* start(): registered and queued before its goroutine has run at all.     *)
Start(t, r) ==
  /\ Step(t, "none", "spawned")
  /\ r \in {0, openRun}
  /\ queued' = [queued EXCEPT ![t] = TRUE]
  /\ runOf' = [runOf EXCEPT ![t] = r]
  /\ UNCHANGED <<stopped, ctxDone, output, collected>>
  /\ UNCHANGED <<registerVars, askVars, callerVars>>

-----------------------------------------------------------------------------
(* The goroutine of one delegation.                                        *)

(* `case r.slots <- struct{}{}` with room in the channel. A cancelled      *)
(* context makes the other case ready too, and the select takes either.    *)
TakeSlot(t) ==
  /\ slots < MaxConcurrent
  /\ Step(t, "spawned", "admitted")
  /\ slots' = slots + 1
  /\ UNCHANGED <<queued, stopped, ctxDone, output, collected, runOf>>
  /\ UNCHANGED <<ahead, openRun, doomed, marked, askVars, callerVars>>

JoinLine(t) ==
  /\ slots = MaxConcurrent
  /\ ~ctxDone[t]
  /\ Step(t, "spawned", "queued")
  /\ ahead' = [ahead EXCEPT ![t] = InLine]
  /\ UNCHANGED <<queued, stopped, ctxDone, output, collected, runOf>>
  /\ UNCHANGED <<slots, openRun, doomed, marked, askVars, callerVars>>

(* Mutant: refused because every slot is taken, as it used to be.          *)
TurnAwayWhenFull(t) ==
  /\ stage[t] \in {"spawned", "queued"}
  /\ stage' = [stage EXCEPT ![t] = "returned"]
  /\ output' = [output EXCEPT ![t] = "stopped"]
  /\ UNCHANGED <<queued, stopped, ctxDone, collected, runOf>>
  /\ UNCHANGED <<registerVars, askVars, callerVars>>

(* Mutant: the wait for a slot does not watch the context.                 *)
TurnAwayBeforeLine(t) ==
  /\ ctxDone[t]
  /\ Step(t, "spawned", "returned")
  /\ output' = [output EXCEPT ![t] = "stopped"]
  /\ UNCHANGED <<queued, stopped, ctxDone, collected, runOf>>
  /\ UNCHANGED <<registerVars, askVars, callerVars>>

(* `case <-childCtx.Done()`: it ends without having run.                   *)
TurnAway(t) ==
  /\ ctxDone[t]
  /\ stage[t] \in {"spawned", "queued"}
  /\ stage' = [stage EXCEPT ![t] = "returned"]
  /\ output' = [output EXCEPT ![t] = "stopped"]
  /\ UNCHANGED <<queued, stopped, ctxDone, collected, runOf>>
  /\ UNCHANGED <<registerVars, askVars, callerVars>>

BeginRun(t) ==
  /\ Step(t, "admitted", "working")
  /\ queued' = [queued EXCEPT ![t] = FALSE]
  /\ UNCHANGED <<stopped, ctxDone, output, collected, runOf>>
  /\ UNCHANGED <<registerVars, askVars, callerVars>>

(* The work returns: the turn is over and its context is read before its   *)
(* error. What the turn did, apart from ask_main, is left out.             *)
Work(t, result) ==
  /\ stage[t] \in {"working", "unwinding"}
  /\ stage' = [stage EXCEPT ![t] = "returned"]
  /\ inCall[t] = NoQuestion
  /\ output' = [output EXCEPT ![t] = IF ctxDone[t] THEN "stopped" ELSE result]
  /\ UNCHANGED <<queued, stopped, ctxDone, collected, runOf>>
  /\ UNCHANGED <<registerVars, askVars, callerVars>>

(* The deferred calls, last registered first: cancel, close(done), release. *)
DeferredCancel(t) ==
  /\ Step(t, "returned", "cancelled")
  /\ ctxDone' = [ctxDone EXCEPT ![t] = TRUE]
  /\ UNCHANGED <<queued, stopped, output, collected, runOf>>
  /\ UNCHANGED <<registerVars, askVars, callerVars>>

CloseDone(t) ==
  /\ Step(t, "cancelled", "closed")
  /\ UNCHANGED <<queued, stopped, ctxDone, output, collected, runOf>>
  /\ UNCHANGED <<registerVars, askVars, callerVars>>

FirstInLine(h) == h \in InLine /\ ahead[h] \cap InLine = {}

(* Mutant: a token is taken out whether or not one was put in.             *)
ReleaseUnchecked(t) ==
  /\ Step(t, "closed", "gone")
  /\ slots' = IF slots > 0 THEN slots - 1 ELSE 0
  /\ UNCHANGED <<queued, stopped, ctxDone, output, collected, runOf>>
  /\ UNCHANGED <<ahead, openRun, doomed, marked, askVars, callerVars>>

(* Mutant: nobody in line learns of the free slot.                         *)
ReleaseWithoutWakeup(t) ==
  /\ Step(t, "closed", "gone")
  /\ slots' = IF queued[t] THEN slots ELSE slots - 1
  /\ UNCHANGED <<queued, stopped, ctxDone, output, collected, runOf>>
  /\ UNCHANGED <<ahead, openRun, doomed, marked, askVars, callerVars>>

(* release(): nothing for a delegation that never held a slot. A receive   *)
(* from slots lets the first blocked sender put its own token in.          *)
Release(t) ==
  /\ stage[t] = "closed"
  /\ \/ /\ queued[t] \/ slots = 0
        /\ stage' = [stage EXCEPT ![t] = "gone"]
        /\ UNCHANGED slots
     \/ /\ ~queued[t] /\ slots > 0 /\ InLine = {}
        /\ stage' = [stage EXCEPT ![t] = "gone"]
        /\ slots' = slots - 1
     \/ /\ ~queued[t] /\ slots > 0
        /\ \E h \in Tasks :
             /\ FirstInLine(h)
             /\ stage' = [stage EXCEPT ![t] = "gone", ![h] = "admitted"]
        /\ UNCHANGED slots
  /\ UNCHANGED <<queued, stopped, ctxDone, output, collected, runOf>>
  /\ UNCHANGED <<ahead, openRun, doomed, marked, askVars, callerVars>>

-----------------------------------------------------------------------------
(* The Stop doors: each lists delegations under the register's lock and    *)
(* then stops them one by one without it. One that is marked already is    *)
(* not listed again: a second mark and a second cancel change nothing.     *)

Doom(S, why) ==
  /\ S # {}
  /\ doomed' = doomed \cup {<<t, why>> : t \in S}
  /\ UNCHANGED <<slots, ahead, openRun, marked>>
  /\ UNCHANGED <<taskVars, askVars, callerVars>>

Unfinished == {t \in Tasks : Registered(t) /\ ~Finished(t) /\ ~stopped[t]}

Stop(t)    == t \in Unfinished /\ Doom({t}, "any")
StopAll    == Doom(Unfinished, "any")
StopRun(r) == Doom({t \in Unfinished : runOf[t] = r}, "any")
StopQueued == Doom({t \in Unfinished : queued[t]}, "queued")

(* Mutant: cancelled before it is marked.                                  *)
CancelledBeforeMarked(t, why) ==
  /\ <<t, why>> \in doomed
  /\ IF ctxDone[t]
       THEN /\ doomed' = doomed \ {<<t, why>>}
            /\ stopped' = [stopped EXCEPT ![t] = TRUE]
            /\ UNCHANGED ctxDone
       ELSE /\ ctxDone' = [ctxDone EXCEPT ![t] = TRUE]
            /\ UNCHANGED <<doomed, stopped>>
  /\ UNCHANGED <<stage, queued, output, collected, runOf, marked>>
  /\ UNCHANGED <<slots, ahead, openRun, askVars, callerVars>>

(* stop(): markStopped, then cancel.                                       *)
MarkStopped(t, why) ==
  /\ <<t, why>> \in doomed
  /\ doomed' = doomed \ {<<t, why>>}
  /\ marked' = marked \cup {t}
  /\ stopped' = [stopped EXCEPT ![t] = TRUE]
  /\ UNCHANGED <<stage, queued, ctxDone, output, collected, runOf>>
  /\ UNCHANGED <<slots, ahead, openRun, askVars, callerVars>>

Cancel(t) ==
  /\ t \in marked
  /\ marked' = marked \ {t}
  /\ ctxDone' = [ctxDone EXCEPT ![t] = TRUE]
  /\ UNCHANGED <<stage, queued, stopped, output, collected, runOf>>
  /\ UNCHANGED <<slots, ahead, openRun, doomed, askVars, callerVars>>

-----------------------------------------------------------------------------
(* ask_main. The call runs in a goroutine of the executor's (beginCall),   *)
(* which the delegate's tool loop waits for up to a deadline: past it the  *)
(* loop goes on and the call stays behind, to be looked in on by the same  *)
(* call again, until its own context ends too.                             *)

OwnAsk(t, q) == asker[q] = t

InAsk(t) == {q \in Questions : OwnAsk(t, q) /\ asking[q] \in {"posting", "asking"}}

AskMain(t, q) ==
  /\ stage[t] = "working"
  /\ inCall[t] = NoQuestion
  /\ asking[q] = "unasked"
  /\ asking' = [asking EXCEPT ![q] = "posting"]
  /\ asker' = [asker EXCEPT ![q] = t]
  /\ older' = [older EXCEPT ![q] = InAsk(t)]
  /\ parked' = [parked EXCEPT ![t] = q]
  /\ inCall' = [inCall EXCEPT ![t] = q]
  /\ UNCHANGED <<mail, posted, pending>>
  /\ UNCHANGED <<taskVars, registerVars, callerVars>>

(* The deadline of the executor: "STILL RUNNING".                          *)
CallOutrunsDeadline(t) ==
  /\ SlowAnswers
  /\ inCall[t] # NoQuestion
  /\ inCall' = [inCall EXCEPT ![t] = NoQuestion]
  /\ UNCHANGED <<asking, asker, older, mail, posted, pending, parked>>
  /\ UNCHANGED <<taskVars, registerVars, callerVars>>

(* The same call again finds the one in flight.                            *)
LookIn(t, q) ==
  /\ stage[t] = "working"
  /\ inCall[t] = NoQuestion
  /\ OwnAsk(t, q) /\ asking[q] \in {"posting", "asking", "leaving"}
  /\ inCall' = [inCall EXCEPT ![t] = q]
  /\ UNCHANGED <<asking, asker, older, mail, posted, pending, parked>>
  /\ UNCHANGED <<taskVars, registerVars, callerVars>>

(* The tool call returns: ask() is over, heard or not.                     *)
CallReturns(t) ==
  /\ inCall[t] # NoQuestion
  /\ asking[inCall[t]] = "left"
  /\ inCall' = [inCall EXCEPT ![t] = NoQuestion]
  /\ UNCHANGED <<asking, asker, older, mail, posted, pending, parked>>
  /\ UNCHANGED <<taskVars, registerVars, callerVars>>

(* `case <-ctx.Done()` of the executor: the whole turn winds up, and what   *)
(* sits in ask() is left to notice by itself.                              *)
CallCancelled(t) ==
  /\ ctxDone[t]
  /\ inCall[t] # NoQuestion
  /\ Step(t, "working", "unwinding")
  /\ inCall' = [inCall EXCEPT ![t] = NoQuestion]
  /\ UNCHANGED <<queued, stopped, ctxDone, output, collected, runOf>>
  /\ UNCHANGED <<asking, asker, older, mail, posted, pending, parked>>
  /\ UNCHANGED <<registerVars, callerVars>>

(* ask(): `r.asks <- p`, a channel of one.                                 *)
Post(t, q) ==
  /\ OwnAsk(t, q) /\ asking[q] = "posting"
  /\ posted[t] = NoQuestion
  /\ asking' = [asking EXCEPT ![q] = "asking"]
  /\ posted' = [posted EXCEPT ![t] = q]
  /\ UNCHANGED <<asker, older, mail, pending, parked, inCall>>
  /\ UNCHANGED <<taskVars, registerVars, callerVars>>

(* Mutant: a question has a patience of its own.                           *)
AskImpatient(t, q) == TRUE

(* The context of the call: the delegate's, or the executor's own limit    *)
(* for one call, which the older call of two reaches first.                *)
AskCancelled(t, q) == ctxDone[t] \/ (SlowAnswers /\ older[q] \cap InAsk(t) = {})

(* With room in the channel the send is ready long before that limit.      *)
PostCancelled(t, q) ==
  /\ OwnAsk(t, q) /\ asking[q] = "posting"
  /\ AskCancelled(t, q)
  /\ posted[t] = NoQuestion => ctxDone[t]
  /\ asking' = [asking EXCEPT ![q] = "leaving"]
  /\ UNCHANGED <<asker, older, mail, posted, pending, parked, inCall>>
  /\ UNCHANGED <<taskVars, registerVars, callerVars>>

HearAnswer(t, q) ==
  /\ OwnAsk(t, q) /\ asking[q] = "asking"
  /\ mail[q]
  /\ asking' = [asking EXCEPT ![q] = "leaving"]
  /\ UNCHANGED <<asker, older, mail, posted, pending, parked, inCall>>
  /\ UNCHANGED <<taskVars, registerVars, callerVars>>

(* The asker is gone: takeAsk clears whatever question is pending.         *)
VoidAsk(t, q) ==
  /\ OwnAsk(t, q) /\ asking[q] = "asking"
  /\ AskCancelled(t, q)
  /\ asking' = [asking EXCEPT ![q] = "leaving"]
  /\ pending' = [pending EXCEPT ![t] = NoQuestion]
  /\ UNCHANGED <<asker, older, mail, posted, parked, inCall>>
  /\ UNCHANGED <<taskVars, registerVars, callerVars>>

(* The deferred setParked(nil).                                            *)
LeaveAsk(t, q) ==
  /\ OwnAsk(t, q) /\ asking[q] = "leaving"
  /\ asking' = [asking EXCEPT ![q] = "left"]
  /\ parked' = [parked EXCEPT ![t] = NoQuestion]
  /\ UNCHANGED <<asker, older, mail, posted, pending, inCall>>
  /\ UNCHANGED <<taskVars, registerVars, callerVars>>

-----------------------------------------------------------------------------
(* collect(): what it reads, it reads one lock at a time.                  *)

Goto(c, from, to) ==
  /\ pc[c] = from
  /\ pc' = [pc EXCEPT ![c] = to]

Call(c, t, entry) ==
  /\ Goto(c, "idle", entry)
  /\ Registered(t)
  /\ on' = [on EXCEPT ![c] = t]
  /\ UNCHANGED hand
  /\ UNCHANGED <<taskVars, registerVars, askVars>>

Collect(c, t) == Call(c, t, "check")
Answer(c, t)  == Call(c, t, "answerPeek")

(* A finished or cancelled delegation outranks its question.               *)
CheckOver(c) ==
  /\ Goto(c, "check", IF Finished(on[c]) \/ ctxDone[on[c]] THEN "await" ELSE "peek")
  /\ UNCHANGED <<on, hand, taskVars, registerVars, askVars>>

(* Mutant: a question already handed out is forgotten.                     *)
PeekNothing(c) ==
  /\ Goto(c, "peek", "select")
  /\ UNCHANGED <<on, hand, taskVars, registerVars, askVars>>

(* A question already handed out is handed out again.                      *)
PeekPending(c) ==
  /\ Goto(c, "peek", IF pending[on[c]] # NoQuestion THEN "idle" ELSE "select")
  /\ UNCHANGED <<on, hand, taskVars, registerVars, askVars>>

Redeem(c) ==
  /\ pc[c] \in {"await", "select"}
  /\ Finished(on[c])
  /\ pc' = [pc EXCEPT ![c] = "idle"]
  /\ collected' = [collected EXCEPT ![on[c]] = TRUE]
  /\ UNCHANGED <<stage, queued, stopped, ctxDone, output, runOf>>
  /\ UNCHANGED <<on, hand, registerVars, askVars>>

(* The collector's turn is stopped.                                        *)
CollectCancelled(c) ==
  /\ pc[c] \in {"await", "select"}
  /\ pc' = [pc EXCEPT ![c] = "idle"]
  /\ UNCHANGED <<on, hand, taskVars, registerVars, askVars>>

(* `p := <-task.asks`, by a collector or by an answer that drains it.      *)
Receive(c, from, to) ==
  /\ Goto(c, from, to)
  /\ posted[on[c]] # NoQuestion
  /\ hand' = [hand EXCEPT ![c] = posted[on[c]]]
  /\ posted' = [posted EXCEPT ![on[c]] = NoQuestion]
  /\ UNCHANGED <<asking, asker, older, mail, pending, parked, inCall>>
  /\ UNCHANGED <<on, taskVars, registerVars>>

(* Mutant: the question is handed out and not kept.                        *)
SetAskForgotten(c, from, to) ==
  /\ Goto(c, from, to)
  /\ hand' = [hand EXCEPT ![c] = NoQuestion]
  /\ UNCHANGED <<on, taskVars, registerVars, askVars>>

SetAsk(c, from, to) ==
  /\ Goto(c, from, to)
  /\ pending' = [pending EXCEPT ![on[c]] = hand[c]]
  /\ hand' = [hand EXCEPT ![c] = NoQuestion]
  /\ UNCHANGED <<asking, asker, older, mail, posted, parked, inCall>>
  /\ UNCHANGED <<on, taskVars, registerVars>>

ReceiveQuestion(c) == Receive(c, "select", "hold")
HandOutQuestion(c) == SetAsk(c, "hold", "idle")

(* answer(): drains a question nobody collected, then takes the pending    *)
(* one and sends into its buffered channel.                                *)
AnswerPeek(c) ==
  /\ Goto(c, "answerPeek", IF pending[on[c]] = NoQuestion THEN "answerDrain" ELSE "answerTake")
  /\ UNCHANGED <<on, hand, taskVars, registerVars, askVars>>

DrainQuestion(c) == Receive(c, "answerDrain", "answerHold")
SetDrained(c)    == SetAsk(c, "answerHold", "answerTake")

NothingToDrain(c) ==
  /\ Goto(c, "answerDrain", "answerTake")
  /\ posted[on[c]] = NoQuestion
  /\ UNCHANGED <<on, hand, taskVars, registerVars, askVars>>

(* Mutant: the question stays pending once it is answered.                 *)
AcceptAnswerKeepAsk(c) ==
  /\ Goto(c, "answerTake", "idle")
  /\ pending[on[c]] # NoQuestion
  /\ mail' = [mail EXCEPT ![pending[on[c]]] = TRUE]
  /\ UNCHANGED <<asking, asker, older, posted, pending, parked, inCall>>
  /\ UNCHANGED <<on, hand, taskVars, registerVars>>

AcceptAnswer(c) ==
  /\ Goto(c, "answerTake", "idle")
  /\ pending[on[c]] # NoQuestion
  /\ mail' = [mail EXCEPT ![pending[on[c]]] = TRUE]
  /\ pending' = [pending EXCEPT ![on[c]] = NoQuestion]
  /\ UNCHANGED <<asking, asker, older, posted, parked, inCall>>
  /\ UNCHANGED <<on, hand, taskVars, registerVars>>

RefuseAnswer(c) ==
  /\ Goto(c, "answerTake", "idle")
  /\ pending[on[c]] = NoQuestion
  /\ UNCHANGED <<on, hand, taskVars, registerVars, askVars>>

-----------------------------------------------------------------------------
Goroutine(t) ==
  \/ TakeSlot(t)
  \/ JoinLine(t)
  \/ TurnAway(t)
  \/ BeginRun(t)
  \/ Work(t, "ok")
  \/ Work(t, "failed")
  \/ DeferredCancel(t)
  \/ CloseDone(t)
  \/ Release(t)

Stopping ==
  \/ \E t \in Tasks : Stop(t)
  \/ StopAll
  \/ StopQueued
  \/ \E r \in 1..MaxRuns : StopRun(r)
  \/ \E t \in Tasks, why \in {"any", "queued"} : MarkStopped(t, why)
  \/ \E t \in Tasks : Cancel(t)

Asking(t, q) ==
  \/ AskMain(t, q)
  \/ LookIn(t, q)
  \/ Post(t, q)
  \/ PostCancelled(t, q)
  \/ HearAnswer(t, q)
  \/ VoidAsk(t, q)
  \/ LeaveAsk(t, q)

(* The steps of a call that is under way, all but its being cancelled.     *)
CallStep(c) ==
  \/ CheckOver(c)
  \/ PeekPending(c)
  \/ Redeem(c)
  \/ ReceiveQuestion(c)
  \/ HandOutQuestion(c)
  \/ AnswerPeek(c)
  \/ DrainQuestion(c)
  \/ SetDrained(c)
  \/ NothingToDrain(c)
  \/ AcceptAnswer(c)
  \/ RefuseAnswer(c)

Next ==
  \/ Plan
  \/ \E t \in Tasks, r \in 0..MaxRuns : Start(t, r)
  \/ \E t \in Tasks : Goroutine(t)
  \/ Stopping
  \/ \E t \in Tasks, q \in Questions : Asking(t, q)
  \/ \E t \in Tasks : CallOutrunsDeadline(t) \/ CallReturns(t) \/ CallCancelled(t)
  \/ \E c \in Callers, t \in Tasks : Collect(c, t) \/ Answer(c, t)
  \/ \E c \in Callers : CallStep(c) \/ CollectCancelled(c)

(* The scheduler runs every goroutine that can run. A turn has a cap on    *)
(* its tool calls, so one that keeps looking in on slow calls ends all the *)
(* same: Work is strongly fair. Nobody has to start, stop, ask, collect or *)
(* answer anything.                                                        *)
Fairness ==
  /\ \A t \in Tasks :
       /\ WF_vars(Goroutine(t))
       /\ SF_vars(Work(t, "ok") \/ Work(t, "failed"))
       /\ WF_vars(CallReturns(t) \/ CallCancelled(t))
       /\ WF_vars(Cancel(t))
       /\ \A why \in {"any", "queued"} : WF_vars(MarkStopped(t, why))
       /\ \A q \in Questions :
            /\ WF_vars(Post(t, q) \/ PostCancelled(t, q))
            /\ WF_vars(HearAnswer(t, q) \/ VoidAsk(t, q))
            /\ WF_vars(LeaveAsk(t, q))
  /\ \A c \in Callers : WF_vars(CallStep(c))

Spec == Init /\ [][Next]_vars

FairSpec == Spec /\ Fairness

-----------------------------------------------------------------------------
(* What the tray shows of a delegation: Snapshot and taskState.            *)

Report(t) ==
  IF stage[t] = "none" THEN "absent"
  ELSE IF stopped[t] THEN "stopped"
  ELSE IF Finished(t) THEN IF output[t] = "ok" THEN "done" ELSE "failed"
  ELSE IF parked[t] # NoQuestion THEN "waiting"
  ELSE IF queued[t] THEN "queued" ELSE "running"

(***************************************************************************)
(* The fields of a delegation agree with how far its goroutine has come,   *)
(* although the goroutine, the Stop doors and the tray touch them under    *)
(* the lock one at a time: queued until beginRun and never again, an       *)
(* output exactly once the work is over, stopped before any early end.     *)
(***************************************************************************)
FieldsAgree ==
  \A t \in Tasks :
    /\ stage[t] \in {"spawned", "queued", "admitted"} => queued[t]
    /\ stage[t] \in {"none", "working", "unwinding"} => ~queued[t]
    /\ (output[t] = "none") <=> (stage[t] \in
         {"none", "spawned", "queued", "admitted", "working", "unwinding"})
    /\ queued[t] /\ output[t] # "none" => output[t] = "stopped"
    /\ output[t] = "stopped" => stopped[t]
    /\ ctxDone[t] => stopped[t] \/ stage[t] \in {"cancelled", "closed", "gone"}
    /\ t \in marked => stopped[t]
    /\ stopped[t] \/ <<t, "any">> \in doomed \/ <<t, "queued">> \in doomed
         => stage[t] # "none"

(***************************************************************************)
(* The slots channel holds exactly one token for every delegation that     *)
(* took one and has not given it back: no token is leaked by a delegation  *)
(* that was stopped, and none is returned by one that never held it, which *)
(* would raise the limit for the rest of the session (release).            *)
(***************************************************************************)
SlotsAreHeld == slots = Cardinality(Holders)

(***************************************************************************)
(* What the tray and the model count as working, a delegation that has     *)
(* begun and whose done channel is still open, never exceeds               *)
(* maxConcurrent: a slot is handed back only after done is closed (start). *)
(***************************************************************************)
AtMostMaxWorking ==
  Cardinality({t \in Tasks : Registered(t) /\ ~queued[t] /\ ~Finished(t)}) <= MaxConcurrent

(***************************************************************************)
(* No delegation waits in line while a slot is free: stopping one that is  *)
(* queued or one that is working never loses the wakeup of the next.       *)
(***************************************************************************)
NoIdleSlot == InLine # {} => slots = MaxConcurrent

(***************************************************************************)
(* A delegation that came back as stopped is drawn as stopped from the     *)
(* moment its done channel closes, and never as one that broke: the mark   *)
(* is set before the cancel that the goroutine can notice (stop).          *)
(***************************************************************************)
StopShownAsStop == \A t \in Tasks : output[t] = "stopped" => Report(t) = "stopped"

(***************************************************************************)
(* A question is in one place at most, its asks channel, a caller's hand   *)
(* or the pending slot of its own delegation, and in none once it has been *)
(* answered: exactly one answer reaches it (takeAsk).                      *)
(***************************************************************************)
Places(q) == {<<"posted", t>> : t \in {t \in Tasks : posted[t] = q}}
        \cup {<<"pending", t>> : t \in {t \in Tasks : pending[t] = q}}
        \cup {<<"hand", c>> : c \in {c \in Callers : hand[c] = q}}

OneAnswerPerQuestion ==
  \A q \in Questions :
    /\ Cardinality(Places(q)) <= (IF mail[q] THEN 0 ELSE 1)
    /\ \A t \in Tasks : q \in {posted[t], pending[t]} => asker[q] = t
    /\ \A c \in Callers : hand[c] = q => asker[q] = on[c]

(***************************************************************************)
(* While its delegate sits in ask() and has not been stopped, a question   *)
(* nobody answered yet can still be collected or answered: it is in the    *)
(* channel, in the hand of a caller about to hand it out, or pending.      *)
(***************************************************************************)
NoStrandedQuestion ==
  \A q \in Questions : asking[q] = "asking" /\ ~mail[q] /\ ~ctxDone[asker[q]] => Places(q) # {}

(***************************************************************************)
(* An answer that is accepted finds its asker still in ask(), unless the   *)
(* delegation itself has been cancelled: "silently accepting it would      *)
(* strand the real one" (answer).                                          *)
(***************************************************************************)
AcceptedAnswerIsHeard ==
  [][\A q \in Questions : mail'[q] # mail[q] =>
       asking[q] = "asking" \/ ctxDone[asker[q]]]_vars

(***************************************************************************)
(* What Stop has cancelled ends, whatever it was blocked on: the line, a   *)
(* question nobody answered, or its work.                                  *)
(***************************************************************************)
StopEnds == \A t \in Tasks : (t \in marked) ~> stage[t] = "gone"

(***************************************************************************)
(* Nothing is refused and nothing is starved: a delegation waiting for a   *)
(* slot begins or is turned away, although delegates ahead of it may be    *)
(* parked on questions for as long as a call may last.                     *)
(***************************************************************************)
LineMoves == \A t \in Tasks : queued[t] ~> (~queued[t] \/ stopped[t])

(***************************************************************************)
(* A collect comes back, with the result or with the question the delegate *)
(* is stuck on: a parent never waits for a delegate that waits for it.     *)
(***************************************************************************)
CollectReturns == \A c \in Callers : pc[c] # "idle" ~> pc[c] = "idle"

-----------------------------------------------------------------------------
(***************************************************************************)
(* The register implements the pool: a delegation runs from beginRun to    *)
(* the close of done, and ends early only when it was marked stopped.      *)
(***************************************************************************)
JobState(t) ==
  IF stage[t] = "none" THEN "absent"
  ELSE IF Finished(t) THEN "over"
  ELSE IF queued[t] THEN "waiting" ELSE "running"

Pool == INSTANCE JobPool WITH
  Jobs <- Tasks,
  Capacity <- MaxConcurrent,
  job <- [t \in Tasks |-> JobState(t)],
  result <- [t \in Tasks |-> IF Finished(t) THEN output[t] ELSE "none"],
  told <- {t \in Tasks : stopped[t]}

ImplementsPool == Pool!PoolSpec
=============================================================================
