----------------------------- MODULE ConnProofs -----------------------------
(***************************************************************************)
(* Theorems about one end of the wire, for every set of calls and every    *)
(* length of the writer's queue.                                           *)
(***************************************************************************)
EXTENDS Conn, SequenceTheorems, TLAPS

(* The type invariant holds in every reachable state.                      *)
THEOREM ConnTyping == Spec => []TypeOK
<1>1. Init => TypeOK
  BY ConnAssumption DEF Init, TypeOK, CallStages, CloseStages
<1>2. TypeOK /\ [Next]_vars => TypeOK'
  <2> SUFFICES ASSUME TypeOK, [Next]_vars
               PROVE  TypeOK'
    OBVIOUS
  <2> USE DEF TypeOK, CallStages, CloseStages, peerVars, Goto
  <2>1. ASSUME NEW c \in Calls, Register(c) \/ CheckDone(c) \/ Refuse(c) \/ GiveUp(c)
        PROVE  TypeOK'
    BY <2>1 DEF Register, CheckDone, Refuse, GiveUp
  <2>2. ASSUME NEW c \in Calls, Enqueue(c)
        PROVE  TypeOK'
    <3>1. out' \in Seq(Calls) /\ Len(out') = Len(out) + 1
      BY <2>2 DEF Enqueue
    <3>2. QED
      BY <2>2, <3>1, ConnAssumption DEF Enqueue
  <2>3. ASSUME NEW c \in Calls, TakeReply(c) \/ SeeDone(c)
        PROVE  TypeOK'
    BY <2>3 DEF TakeReply, SeeDone
  <2>4. CASE WriteFrame
    <3>1. Head(out) \in Calls /\ Tail(out) \in Seq(Calls) /\ Len(Tail(out)) = Len(out) - 1
      BY <2>4 DEF WriteFrame
    <3>2. QED
      BY <2>4, <3>1, ConnAssumption DEF WriteFrame
  <2>5. ASSUME NEW c \in Calls, Serve(c) \/ AnswerRequest(c) \/ ReadAnswer(c)
        PROVE  TypeOK'
    BY <2>5 DEF Serve, AnswerRequest, ReadAnswer
  <2>6. CASE HandOver
    BY <2>6 DEF HandOver
  <2>7. CASE BeginClose \/ Closer
    BY <2>7 DEF BeginClose, Closer, ShutSocket, DrainPending, CloseDone, CloseStep
  <2>8. CASE UNCHANGED vars
    BY <2>8 DEF vars
  <2>9. QED
    BY <2>1, <2>2, <2>3, <2>4, <2>5, <2>6, <2>7, <2>8 DEF Next, Caller
<1>3. QED
  BY <1>1, <1>2, PTL DEF Spec

-----------------------------------------------------------------------------
(* Who owns a reply channel: the entry in pending while there is one, then *)
(* whoever took the entry out, the read loop or the close.                 *)
Owned ==
  \A c \in Calls :
    /\ c \in pending => /\ reply[c] = "empty"
                        /\ reading # c
                        /\ pc[c] \in {"registered", "checked", "waiting"}
    /\ reading = c => reply[c] = "empty" /\ pc[c] # "idle"
    /\ pc[c] = "idle" => reply[c] = "empty"
    /\ reply[c] = "closed" => closing \in {"drained", "done"}

OwnedInv == Owned /\ AnswerFindsCaller

(***************************************************************************)
(* Who owns a call's entry in pending, on every reachable state: the       *)
(* caller until it has come back, else a read loop that took it out to     *)
(* hand its answer over, else the close that drained it. It is what keeps  *)
(* the hand-over off a closed channel.                                     *)
(***************************************************************************)
THEOREM Ownership == Spec => []OwnedInv
<1>1. Init => OwnedInv
  BY ConnAssumption DEF Init, OwnedInv, Owned, AnswerFindsCaller
<1>2. TypeOK /\ OwnedInv /\ [Next]_vars => OwnedInv'
  <2> SUFFICES ASSUME TypeOK, OwnedInv, [Next]_vars
               PROVE  OwnedInv'
    OBVIOUS
  <2> USE DEF TypeOK, OwnedInv, Owned, AnswerFindsCaller, CallStages, CloseStages, peerVars, Goto
  <2>1. ASSUME NEW c \in Calls, Register(c)
        PROVE  OwnedInv'
    BY <2>1 DEF Register
  <2>2. ASSUME NEW c \in Calls, CheckDone(c) \/ Enqueue(c)
        PROVE  OwnedInv'
    BY <2>2 DEF CheckDone, Enqueue
  <2>3. ASSUME NEW c \in Calls, Refuse(c) \/ SeeDone(c)
        PROVE  OwnedInv'
    BY <2>3 DEF Refuse, SeeDone
  <2>4. ASSUME NEW c \in Calls, GiveUp(c)
        PROVE  OwnedInv'
    BY <2>4 DEF GiveUp
  <2>5. ASSUME NEW c \in Calls, TakeReply(c)
        PROVE  OwnedInv'
    BY <2>5 DEF TakeReply
  <2>6. ASSUME NEW c \in Calls, Serve(c) \/ AnswerRequest(c)
        PROVE  OwnedInv'
    BY <2>6 DEF Serve, AnswerRequest
  <2>7. ASSUME NEW c \in Calls, ReadAnswer(c)
        PROVE  OwnedInv'
    BY <2>7, ConnAssumption DEF ReadAnswer
  <2>8. CASE HandOver
    BY <2>8, ConnAssumption DEF HandOver
  <2>9. CASE BeginClose \/ ShutSocket \/ CloseDone
    BY <2>9 DEF BeginClose, ShutSocket, CloseDone, CloseStep
  <2>10. CASE DrainPending
    BY <2>10 DEF DrainPending, CloseStep
  <2>11. CASE WriteFrame \/ UNCHANGED vars
    BY <2>11 DEF WriteFrame, vars
  <2>12. QED
    BY <2>1, <2>2, <2>3, <2>4, <2>5, <2>6, <2>7, <2>8, <2>9, <2>10, <2>11
       DEF Next, Caller, Closer
<1>3. QED
  BY <1>1, <1>2, ConnTyping, PTL DEF Spec

(* The read loop's send finds an open, empty channel (readLoop, closeWith). *)
THEOREM HandOverSafe == Spec => []HandOverIsSafe
<1>1. TypeOK /\ OwnedInv => HandOverIsSafe
  BY DEF TypeOK, OwnedInv, Owned, HandOverIsSafe
<1>2. QED
  BY <1>1, ConnTyping, Ownership, PTL

(* A call that has come back left nothing in pending (Call, forget).       *)
THEOREM NothingLeft == Spec => []NoEntryLeft
<1>1. OwnedInv => NoEntryLeft
  BY DEF OwnedInv, Owned, NoEntryLeft, Returned
<1>2. QED
  BY <1>1, Ownership, PTL

(* While the connection is up every waiting call can be answered.          *)
THEOREM CallerIsFound == Spec => []AnswerFindsCaller
BY Ownership, PTL DEF OwnedInv

-----------------------------------------------------------------------------
(* A request is in one place on its way, and an answer was earned.         *)
Queued(c) == \E i \in 1..Len(out) : out[i] = c

OnePlace ==
  /\ \A i, j \in 1..Len(out) : out[i] = out[j] => i = j
  /\ \A c \in Calls :
       /\ pc[c] \in {"idle", "registered", "checked"} =>
            ~Queued(c) /\ c \notin wire \cup serving \cup served
       /\ Queued(c) => c \notin wire \cup serving \cup served
       /\ c \in wire => c \notin serving \cup served
       /\ c \in serving => c \notin served
       /\ c \in answers \/ reading = c \/ reply[c] = "full" => c \in served

(* What the two steps that move the queue do to it.                        *)
LEMMA EnqueueQueues ==
  ASSUME TypeOK, NEW c \in Calls, Enqueue(c)
  PROVE  /\ Len(out') = Len(out) + 1
         /\ \A i \in 1..Len(out) : out'[i] = out[i]
         /\ out'[Len(out) + 1] = c
         /\ \A d \in Calls : Queued(d)' <=> Queued(d) \/ d = c
<1>1. out \in Seq(Calls) /\ out' = Append(out, c)
  BY DEF Enqueue, TypeOK
<1>2. /\ Len(out') = Len(out) + 1
      /\ \A i \in 1..Len(out) : out'[i] = out[i]
      /\ out'[Len(out) + 1] = c
  BY <1>1
<1>3. ASSUME NEW d \in Calls PROVE Queued(d)' <=> Queued(d) \/ d = c
  <2>1. Queued(d)' => Queued(d) \/ d = c
    BY <1>1, <1>2 DEF Queued
  <2>2. Queued(d) => Queued(d)'
    BY <1>1, <1>2 DEF Queued
  <2>3. Len(out) + 1 \in 1..Len(out')
    BY <1>1, <1>2
  <2>4. d = c => Queued(d)'
    BY <2>3, <1>2 DEF Queued
  <2>5. QED
    BY <2>1, <2>2, <2>4
<1>4. QED
  BY <1>2, <1>3

(* The write loop takes the first frame: its call is in the queue no more  *)
(* and no other call joins it.                                             *)
LEMMA WriteUnqueues ==
  ASSUME TypeOK, OnePlace, WriteFrame, NEW h \in Calls, h = Head(out)
  PROVE  /\ Queued(h) /\ ~Queued(h)'
         /\ \A i, j \in 1..Len(out') : out'[i] = out'[j] => i = j
         /\ \A d \in Calls : Queued(d)' => Queued(d)
<1>1. out \in Seq(Calls) /\ out # <<>> /\ out' = Tail(out)
  BY DEF WriteFrame, TypeOK
<1>2. /\ Len(out) \in Nat \ {0} /\ Len(out') = Len(out) - 1
      /\ \A i \in 1..Len(out') : i + 1 \in 1..Len(out) /\ out'[i] = out[i + 1]
      /\ h = out[1]
  BY <1>1
<1>3. Queued(h)
  BY <1>2 DEF Queued
<1>4. \A i, j \in 1..Len(out') : out'[i] = out'[j] => i = j
  BY <1>2 DEF OnePlace
<1>5. ~Queued(h)'
  <2>1. SUFFICES ASSUME NEW i \in 1..Len(out'), out'[i] = h PROVE FALSE
    BY DEF Queued
  <2>2. i + 1 \in 1..Len(out) /\ 1 \in 1..Len(out) /\ out[i + 1] = out[1]
    BY <2>1, <1>2
  <2>3. i + 1 = 1
    BY <2>2 DEF OnePlace
  <2>4. QED
    BY <2>3
<1>6. \A d \in Calls : Queued(d)' => Queued(d)
  BY <1>1, <1>2 DEF Queued
<1>7. QED
  BY <1>3, <1>4, <1>5, <1>6

(***************************************************************************)
(* A call's frame is in one place of the queue at most, and only while     *)
(* nobody has seen it: it is sent once, so that its handler runs once.     *)
(***************************************************************************)
THEOREM SentOnce == Spec => []OnePlace
<1>1. Init => OnePlace
  BY ConnAssumption DEF Init, OnePlace, Queued
<1>2. TypeOK /\ OwnedInv /\ OnePlace /\ [Next]_vars => OnePlace'
  <2> SUFFICES ASSUME TypeOK, OwnedInv, OnePlace, [Next]_vars
               PROVE  OnePlace'
    OBVIOUS
  <2> USE DEF TypeOK, CallStages, peerVars, Goto
  <2>0. ASSUME UNCHANGED out
        PROVE  \A d : Queued(d)' <=> Queued(d)
    BY <2>0 DEF Queued
  <2>1. ASSUME NEW c \in Calls, Register(c) \/ CheckDone(c) \/ Refuse(c)
        PROVE  OnePlace'
    BY <2>1, <2>0 DEF Register, CheckDone, Refuse, OnePlace
  <2>2. ASSUME NEW c \in Calls, Enqueue(c)
        PROVE  OnePlace'
    <3>1. \A i, j \in 1..Len(out') : out'[i] = out'[j] => i = j
      <4>1. ~Queued(c)
        BY <2>2 DEF Enqueue, OnePlace
      <4>2. \A i \in 1..Len(out) : out[i] # c
        BY <4>1 DEF Queued
      <4>3. Len(out) \in Nat
        OBVIOUS
      <4>4. QED
        BY <2>2, <4>2, <4>3, EnqueueQueues DEF OnePlace
    <3>2. \A d \in Calls : Queued(d)' <=> Queued(d) \/ d = c
      BY <2>2, EnqueueQueues
    <3>3. QED
      BY <2>2, <3>1, <3>2 DEF Enqueue, OnePlace
  <2>3. ASSUME NEW c \in Calls, TakeReply(c) \/ SeeDone(c) \/ GiveUp(c)
        PROVE  OnePlace'
    BY <2>3, <2>0 DEF TakeReply, SeeDone, GiveUp, OnePlace
  <2>4. CASE WriteFrame
    <3>1. PICK h \in Calls : h = Head(out)
      BY <2>4 DEF WriteFrame
    <3>2. wire' = wire \cup {h}
      BY <2>4, <3>1 DEF WriteFrame
    <3>3. Queued(h) /\ ~Queued(h)' /\ \A d \in Calls : Queued(d)' => Queued(d)
      BY <2>4, <3>1, WriteUnqueues
    <3>4. \A i, j \in 1..Len(out') : out'[i] = out'[j] => i = j
      BY <2>4, <3>1, WriteUnqueues
    <3>5. QED
      BY <2>4, <3>2, <3>3, <3>4 DEF WriteFrame, OnePlace
  <2>5. ASSUME NEW c \in Calls, Serve(c) \/ AnswerRequest(c)
        PROVE  OnePlace'
    BY <2>5, <2>0 DEF Serve, AnswerRequest, OnePlace
  <2>6. ASSUME NEW c \in Calls, ReadAnswer(c)
        PROVE  OnePlace'
    BY <2>6, <2>0, ConnAssumption DEF ReadAnswer, OnePlace
  <2>7. CASE HandOver
    BY <2>7, <2>0, ConnAssumption DEF HandOver, OnePlace
  <2>8. CASE BeginClose \/ Closer
    BY <2>8, <2>0 DEF BeginClose, Closer, ShutSocket, DrainPending, CloseDone, CloseStep, OnePlace
  <2>9. CASE UNCHANGED vars
    BY <2>9, <2>0 DEF vars, OnePlace
  <2>10. QED
    BY <2>1, <2>2, <2>3, <2>4, <2>5, <2>6, <2>7, <2>8, <2>9 DEF Next, Caller
<1>3. QED
  BY <1>1, <1>2, ConnTyping, Ownership, PTL DEF Spec

(* Every call comes back at most once, answered only by a handler that has *)
(* run, and a handler runs at most once for a call (Call, serve).          *)
THEOREM ConnImplementsRemoteCall == Spec => ImplementsRemoteCall
<1>1. Init => Remote!RemoteInit
  BY DEF Init, Remote!RemoteInit, Outcome, Returned
<1>2. TypeOK /\ OnePlace /\ [Next]_vars => [Remote!RemoteNext]_(Remote!remoteVars)
  <2> SUFFICES ASSUME TypeOK, OnePlace, [Next]_vars
               PROVE  Remote!RemoteNext \/ UNCHANGED Remote!remoteVars
    OBVIOUS
  <2> USE DEF peerVars, Goto, Outcome, Returned
  <2>0. ASSUME UNCHANGED served, \A c \in Calls : Outcome(c)' = Outcome(c)
        PROVE  UNCHANGED Remote!remoteVars
    BY <2>0 DEF Remote!remoteVars
  <2>1. ASSUME NEW c \in Calls, Register(c)
        PROVE  Remote!RemoteNext
    <3>1. Remote!Ask(c)
      BY <2>1 DEF Register, Remote!Ask, TypeOK
    <3>2. QED
      BY <3>1 DEF Remote!RemoteNext
  <2>2. ASSUME NEW c \in Calls, CheckDone(c) \/ Enqueue(c)
        PROVE  UNCHANGED Remote!remoteVars
    BY <2>2, <2>0 DEF CheckDone, Enqueue, TypeOK
  <2>3. ASSUME NEW c \in Calls, Refuse(c) \/ SeeDone(c) \/ GiveUp(c)
        PROVE  Remote!RemoteNext
    <3>1. Remote!Fail(c)
      BY <2>3 DEF Refuse, SeeDone, GiveUp, Remote!Fail, TypeOK
    <3>2. QED
      BY <3>1 DEF Remote!RemoteNext
  <2>4. ASSUME NEW c \in Calls, TakeReply(c)
        PROVE  Remote!RemoteNext
    <3>1. Remote!Return(c) \/ Remote!Fail(c)
      BY <2>4 DEF TakeReply, Remote!Return, Remote!Fail, TypeOK, OnePlace
    <3>2. QED
      BY <3>1 DEF Remote!RemoteNext
  <2>5. ASSUME NEW c \in Calls, AnswerRequest(c)
        PROVE  Remote!RemoteNext
    <3>1. Remote!Do(c)
      BY <2>5 DEF AnswerRequest, Remote!Do, TypeOK, OnePlace
    <3>2. QED
      BY <3>1 DEF Remote!RemoteNext
  <2>6. ASSUME NEW c \in Calls, Serve(c) \/ ReadAnswer(c)
        PROVE  UNCHANGED Remote!remoteVars
    BY <2>6, <2>0 DEF Serve, ReadAnswer
  <2>7. CASE WriteFrame \/ HandOver
    BY <2>7, <2>0 DEF WriteFrame, HandOver
  <2>8. CASE BeginClose \/ Closer
    BY <2>8, <2>0 DEF BeginClose, Closer, ShutSocket, DrainPending, CloseDone, CloseStep
  <2>9. CASE UNCHANGED vars
    BY <2>9, <2>0 DEF vars
  <2>10. QED
    BY <2>1, <2>2, <2>3, <2>4, <2>5, <2>6, <2>7, <2>8, <2>9 DEF Next, Caller
<1>3. QED
  BY <1>1, <1>2, ConnTyping, SentOnce, PTL DEF Spec, ImplementsRemoteCall, Remote!RemoteSpec
=============================================================================
