-------------------------------- MODULE Conn --------------------------------
(***************************************************************************)
(* One end of the wire between the screen and the engine, type Conn of     *)
(* src/internal/engine/rpc/conn.go: the calls made on it, the writer's     *)
(* queue, the read loop, and the close that any of its loops, the peer or  *)
(* Close may start at any moment. The other end appears as what it does    *)
(* with a request: serves each on a goroutine of its own (serve).          *)
(*                                                                         *)
(* The model follows a call step by step because every step is on another  *)
(* goroutine than the close: the entry in pending, the check of done, the  *)
(* send to the writer, and the wait for one of three things.               *)
(***************************************************************************)
EXTENDS Naturals, Sequences, FiniteSets

CONSTANTS
  Calls,      (* the calls that may be made on this end                    *)
  OutQueue,   (* outQueue: frames that may wait for the writer             *)
  NoCall

ASSUME ConnAssumption == OutQueue \in Nat \ {0} /\ NoCall \notin Calls

VARIABLES
  pc,         (* how far each call has come                                *)
  pending,    (* the calls with an entry in Conn.pending                   *)
  reply,      (* the reply channel of each call, a buffer of one           *)
  out,        (* Conn.out                                                  *)
  wire,       (* requests the socket has taken and the peer has not read   *)
  serving,    (* requests whose handler the peer is running                *)
  served,     (* requests whose handler has run                            *)
  answers,    (* answers the peer has sent and this end has not read       *)
  reading,    (* the call whose answer the read loop holds                 *)
  closing     (* how far closeWith has come                                *)

peerVars == <<wire, serving, served, answers>>
vars == <<pc, pending, reply, out, peerVars, reading, closing>>

CallStages == {"idle", "registered", "checked", "waiting", "answered", "failed"}
CloseStages == {"open", "cancelled", "shut", "drained", "done"}

TypeOK ==
  /\ pc \in [Calls -> CallStages]
  /\ pending \in SUBSET Calls
  /\ reply \in [Calls -> {"empty", "full", "closed"}]
  /\ out \in Seq(Calls) /\ Len(out) <= OutQueue
  /\ wire \in SUBSET Calls
  /\ serving \in SUBSET Calls
  /\ served \in SUBSET Calls
  /\ answers \in SUBSET Calls
  /\ reading \in Calls \cup {NoCall}
  /\ closing \in CloseStages

Init ==
  /\ pc = [c \in Calls |-> "idle"]
  /\ pending = {}
  /\ reply = [c \in Calls |-> "empty"]
  /\ out = <<>>
  /\ wire = {}
  /\ serving = {}
  /\ served = {}
  /\ answers = {}
  /\ reading = NoCall
  /\ closing = "open"

(* The socket still carries frames: closeWith cancels before it closes it. *)
SocketOpen == closing \in {"open", "cancelled"}

Goto(c, from, to) ==
  /\ pc[c] = from
  /\ pc' = [pc EXCEPT ![c] = to]

-----------------------------------------------------------------------------
(* Call.                                                                   *)

(* Mutant: the entry is made once the request is on its way.               *)
RegisterLate(c) ==
  /\ Goto(c, "idle", "registered")
  /\ UNCHANGED <<pending, reply, out, peerVars, reading, closing>>

(* Registered before sending; the connection may be over already.          *)
Register(c) ==
  /\ Goto(c, "idle", "registered")
  /\ pending' = pending \cup {c}
  /\ UNCHANGED <<reply, out, peerVars, reading, closing>>

(* enqueue: done is looked at once, then again while waiting for room.     *)
CheckDone(c) ==
  /\ closing # "done"
  /\ Goto(c, "registered", "checked")
  /\ UNCHANGED <<pending, reply, out, peerVars, reading, closing>>

Refuse(c) ==
  /\ closing = "done"
  /\ \E from \in {"registered", "checked"} : Goto(c, from, "failed")
  /\ pending' = pending \ {c}
  /\ UNCHANGED <<reply, out, peerVars, reading, closing>>

Enqueue(c) ==
  /\ Len(out) < OutQueue
  /\ Goto(c, "checked", "waiting")
  /\ out' = Append(out, c)
  /\ UNCHANGED <<pending, reply, peerVars, reading, closing>>

(* Mutant: the close of the channel is taken for an answer.                *)
TakeReplyUnread(c) ==
  /\ reply[c] # "empty"
  /\ Goto(c, "waiting", "answered")
  /\ UNCHANGED <<pending, reply, out, peerVars, reading, closing>>

(* `case m, ok := <-reply`                                                 *)
TakeReply(c) ==
  /\ reply[c] # "empty"
  /\ Goto(c, "waiting", IF reply[c] = "full" THEN "answered" ELSE "failed")
  /\ UNCHANGED <<pending, reply, out, peerVars, reading, closing>>

(* Mutant: waits for its answer or its context, not for the connection.    *)
SeeDoneIgnored(c) ==
  /\ closing = "done"
  /\ pc[c] = "waiting"
  /\ UNCHANGED vars

(* `case <-c.done`                                                         *)
SeeDone(c) ==
  /\ closing = "done"
  /\ Goto(c, "waiting", "failed")
  /\ pending' = pending \ {c}
  /\ UNCHANGED <<reply, out, peerVars, reading, closing>>

(* `case <-ctx.Done()`: forgotten here, not withdrawn there.               *)
GiveUp(c) ==
  /\ Goto(c, "waiting", "failed")
  /\ pending' = pending \ {c}
  /\ UNCHANGED <<reply, out, peerVars, reading, closing>>

-----------------------------------------------------------------------------
(* The writer, the peer and the read loop.                                 *)

WriteFrame ==
  /\ SocketOpen
  /\ out # <<>>
  /\ wire' = wire \cup {Head(out)}
  /\ out' = Tail(out)
  /\ UNCHANGED <<pc, pending, reply, serving, served, answers, reading, closing>>

(* The peer reads a request and serves it on a goroutine of its own.       *)
Serve(c) ==
  /\ c \in wire
  /\ wire' = wire \ {c}
  /\ serving' = serving \cup {c}
  /\ UNCHANGED <<pc, pending, reply, out, served, answers, reading, closing>>

(* The handler has run, or panicked: one answer is queued either way.      *)
AnswerRequest(c) ==
  /\ c \in serving
  /\ serving' = serving \ {c}
  /\ served' = served \cup {c}
  /\ answers' = answers \cup {c}
  /\ UNCHANGED <<pc, pending, reply, out, wire, reading, closing>>

(* Mutant: the read loop leaves the entry for the close to find.           *)
ReadAnswerKeepEntry(c) ==
  /\ reading = NoCall
  /\ c \in answers
  /\ answers' = answers \ {c}
  /\ reading' = IF c \in pending THEN c ELSE NoCall
  /\ UNCHANGED <<pc, pending, reply, out, wire, serving, served, closing>>

(* The entry is claimed under the lock, the send comes after it. A frame   *)
(* read off the socket before it was closed may get here after the close.  *)
ReadAnswer(c) ==
  /\ reading = NoCall
  /\ c \in answers
  /\ answers' = answers \ {c}
  /\ pending' = pending \ {c}
  /\ reading' = IF c \in pending THEN c ELSE NoCall
  /\ UNCHANGED <<pc, reply, out, wire, serving, served, closing>>

(* `ch <- &m`, outside the lock.                                           *)
HandOver ==
  /\ reading # NoCall
  /\ reply' = [reply EXCEPT ![reading] = "full"]
  /\ reading' = NoCall
  /\ UNCHANGED <<pc, pending, out, peerVars, closing>>

-----------------------------------------------------------------------------
(* closeWith, once: a read or a write that failed, a ping that was not     *)
(* answered, the peer gone, or Close.                                      *)

CloseStep(from, to) ==
  /\ closing = from
  /\ closing' = to
  /\ UNCHANGED <<pc, out, peerVars, reading>>

BeginClose == CloseStep("open", "cancelled") /\ UNCHANGED <<pending, reply>>
ShutSocket == CloseStep("cancelled", "shut") /\ UNCHANGED <<pending, reply>>
CloseDone  == CloseStep("drained", "done") /\ UNCHANGED <<pending, reply>>

DrainPending ==
  /\ CloseStep("shut", "drained")
  /\ pending' = {}
  /\ reply' = [c \in Calls |-> IF c \in pending THEN "closed" ELSE reply[c]]

-----------------------------------------------------------------------------
Caller(c) ==
  \/ CheckDone(c)
  \/ Refuse(c)
  \/ Enqueue(c)
  \/ TakeReply(c)
  \/ SeeDone(c)

Closer == ShutSocket \/ DrainPending \/ CloseDone

Next ==
  \/ \E c \in Calls : Register(c) \/ Caller(c) \/ GiveUp(c)
  \/ WriteFrame
  \/ \E c \in Calls : Serve(c) \/ AnswerRequest(c) \/ ReadAnswer(c)
  \/ HandOver
  \/ BeginClose
  \/ Closer

(* Every loop runs while it can; a handler need never return, a connection *)
(* need never close, and a caller need never give up.                      *)
Fairness ==
  /\ \A c \in Calls : WF_vars(Caller(c)) /\ WF_vars(Serve(c))
  /\ \A c \in Calls : WF_vars(SocketOpen /\ ReadAnswer(c))
  /\ WF_vars(WriteFrame)
  /\ WF_vars(HandOver)
  /\ WF_vars(Closer)

Spec == Init /\ [][Next]_vars

FairSpec == Spec /\ Fairness

-----------------------------------------------------------------------------
Returned(c) == pc[c] \in {"answered", "failed"}

(***************************************************************************)
(* The read loop's send never blocks and never finds a closed channel: of  *)
(* the read loop and the close, whichever claims the entry in pending owns *)
(* the channel. A send on a closed one would take the process down.        *)
(***************************************************************************)
HandOverIsSafe == reading # NoCall => reply[reading] = "empty"

(***************************************************************************)
(* A call that has come back leaves nothing in pending, however it ended,  *)
(* and also when it was made on a connection that was just being closed.   *)
(***************************************************************************)
NoEntryLeft == \A c \in Calls : Returned(c) => c \notin pending

(***************************************************************************)
(* Nobody's answer is dropped: whatever the peer has answered a call that  *)
(* still waits can be handed to it, for as long as the connection is up    *)
(* ("Registered before sending, never after").                             *)
(***************************************************************************)
AnswerFindsCaller ==
  \A c \in Calls :
    closing = "open" /\ pc[c] \in {"registered", "checked", "waiting"} =>
      c \in pending \/ reading = c \/ reply[c] = "full"

(***************************************************************************)
(* The end of a connection ends every call on it, also one that was only   *)
(* just being registered, and one whose request nobody will ever read.     *)
(***************************************************************************)
CloseEndsCalls ==
  \A c \in Calls : (closing # "open" /\ pc[c] # "idle") ~> Returned(c)

-----------------------------------------------------------------------------
(* A connection implements the calls made on it.                           *)
Outcome(c) ==
  IF pc[c] = "idle" THEN "none"
  ELSE IF Returned(c) THEN pc[c] ELSE "open"

Remote == INSTANCE RemoteCall WITH
  outcome <- [c \in Calls |-> Outcome(c)],
  done <- served

(***************************************************************************)
(* Every call comes back at most once, answered only by a handler that has *)
(* run, which runs at most once (Call, serve).                             *)
(***************************************************************************)
ImplementsRemoteCall == Remote!RemoteSpec
=============================================================================
