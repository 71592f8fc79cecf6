------------------------------ MODULE TurnGate ------------------------------
(***************************************************************************)
(* The engine's turns, conversations and dials: beginTurn, armTurnCancel,  *)
(* endTurn, CancelTurn, applyConfig and the doors that call it, in         *)
(* src/internal/engine/app.go, with the conversations of conversation.go   *)
(* and LoadSession of sessions.go.                                         *)
(*                                                                         *)
(* A chat is a session id; a conversation is the object the process holds  *)
(* an engine in, and one chat may have had several of them. A turn (Sends) *)
(* is one call of SendMessage, a door (Doors) one call of the window that  *)
(* rebuilds an engine, and the loader the call that opens a chat. What a   *)
(* call does between two locks is a step of its own.                       *)
(*                                                                         *)
(* The one thing endTurn does that is not here is reloadWorkspace: it is   *)
(* the press "reload" of a door, made by the turn.                         *)
(***************************************************************************)
EXTENDS Naturals, FiniteSets

CONSTANTS
  Chats,      (* session ids                                               *)
  Convs,      (* conversation objects; one nobody refers to is used again  *)
  Sends,      (* calls of SendMessage                                      *)
  Doors,      (* calls of the window's other bindings                      *)
  Loader,     (* the call that opens a chat                                *)
  Models,     (* what the model dial can name                              *)
  Levels,     (* what the thinking dial can name                           *)
  Presses,    (* which doors the window uses, and whether a key or a model *)
              (* may be missing ("keyless")                                *)
  Serial,     (* whoever uses the window waits for one call of it to come  *)
              (* back before making the next                               *)
  None

Kinds ==
  {"dial", "level", "refresh", "reload", "cancel", "narrow", "load", "new", "stop", "close", "keyless"}

Config == [model : Models, level : Levels]
Procs == Sends \cup Doors \cup {Loader}

ASSUME GateAssumption ==
  /\ Presses \subseteq Kinds /\ Serial \in BOOLEAN
  /\ None \notin Chats \cup Convs \cup Sends \cup Config
  /\ Sends \cap Doors = {} /\ Loader \notin Sends \cup Doors
  /\ \E c \in Chats : TRUE /\ \E v \in Convs : TRUE
  /\ \E m \in Models : TRUE /\ \E l \in Levels : TRUE

VARIABLES
  open,       (* conversations.open: the conversation on screen            *)
  byID,       (* conversations.byID                                        *)
  chatOf,     (* each conversation's id                                    *)
  turns,      (* Engine.turns: whose turn is in flight in a chat           *)
  armed,      (* turns whose cancel function is installed                  *)
  stopEarly,  (* turns that carry a Stop nothing could be done with yet    *)
  cancelled,  (* turns whose context is over                               *)
  cfg,        (* conversation.cfg                                          *)
  pending,    (* conversation.pendingCfg                                   *)
  restance,   (* conversations with stanceRebuild set                      *)
  engine,     (* each conversation's engine                                *)
  template,   (* Engine.cfg: what a new chat is born with                  *)
  row,        (* the dials on each session's row                           *)
  pc,         (* how far each call has come                                *)
  target,     (* the conversation a call works on                          *)
  carry,      (* the configuration it brings                               *)
  pressed,    (* history: turns Stop was pressed on                        *)
  chosen,     (* history: what each chat's dials were last put at; a chat  *)
              (* that comes back starts from its row                       *)
  picked,     (* history: the models ever chosen in a chat                 *)
  crossed,    (* history: chats in which two configurations were in hand   *)
              (* at once, or one was made beside a queued one it does not  *)
              (* start from                                                *)
  dropped     (* history: chats let go of by the late ending of a turn     *)
              (* that was on screen or at work, or while a turn landed     *)
              (* its configuration                                         *)

desk == <<open, byID, chatOf>>
flight == <<turns, armed, stopEarly, cancelled, pressed>>
dials == <<cfg, pending, restance, engine, template>>
calls == <<pc, target, carry>>
past == <<chosen, picked, crossed, dropped>>
vars == <<desk, flight, dials, row, calls, past>>

TurnStages == {"captured", "begun", "opened", "running", "answered", "ended"}
EndStages == {"apply", "swap", "leaving", "letting"}
Stages == {"idle", "same", "found", "shown"} \cup TurnStages \cup EndStages

(* A conversation somebody refers to.                                      *)
InUse(v) ==
  \/ v = open \/ \E c \in Chats : byID[c] = v
  \/ \E p \in Procs : target[p] = v

TypeOK ==
  /\ open \in Convs
  /\ byID \in [Chats -> Convs \cup {None}]
  /\ chatOf \in [Convs -> Chats \cup {None}]
  /\ turns \in [Chats -> Sends \cup {None}]
  /\ armed \subseteq Sends /\ stopEarly \subseteq Sends
  /\ cancelled \subseteq Sends /\ pressed \subseteq Sends
  /\ cfg \in [Convs -> Config]
  /\ pending \in [Convs -> Config \cup {None}]
  /\ restance \subseteq Convs
  /\ engine \in [Convs -> {"none", "built", "stale"}]
  /\ template \in Config
  /\ row \in [Chats -> Config \cup {None}]
  /\ pc \in [Procs -> Stages]
  /\ target \in [Procs -> Convs \cup {None}]
  /\ carry \in [Procs -> Config \cup {None}]
  /\ chosen \in [Chats -> Config]
  /\ picked \in [Chats -> SUBSET Models]
  /\ crossed \subseteq Chats /\ dropped \subseteq Chats
  /\ \A p \in Procs : pc[p] \in {"same", "apply", "swap"} => carry[p] \in Config
  /\ \A p \in Procs : pc[p] # "idle" /\ ~(p \in Doors /\ pc[p] = "apply") => target[p] \in Convs
  /\ \A v \in Convs : InUse(v) => chatOf[v] \in Chats

(* What a bootstrap leaves: with no key or no model there is no engine.    *)
Booted == {"built"} \cup IF "keyless" \in Presses THEN {"none"} ELSE {}

(* The launched app: one chat on screen with nothing said in it.           *)
Init ==
  \E c0 \in Chats, v0 \in Convs, f0 \in Config, e0 \in Booted :
    /\ open = v0
    /\ byID = [c \in Chats |-> IF c = c0 THEN v0 ELSE None]
    /\ chatOf = [v \in Convs |-> IF v = v0 THEN c0 ELSE None]
    /\ turns = [c \in Chats |-> None]
    /\ armed = {} /\ stopEarly = {} /\ cancelled = {} /\ pressed = {}
    /\ cfg = [v \in Convs |-> f0]
    /\ pending = [v \in Convs |-> None]
    /\ restance = {}
    /\ engine = [v \in Convs |-> IF v = v0 THEN e0 ELSE "none"]
    /\ template = f0
    /\ row = [c \in Chats |-> None]
    /\ pc = [p \in Procs |-> "idle"]
    /\ target = [p \in Procs |-> None]
    /\ carry = [p \in Procs |-> None]
    /\ chosen = [c \in Chats |-> f0]
    /\ picked = [c \in Chats |-> IF c = c0 THEN {f0.model} ELSE {}]
    /\ crossed = {} /\ dropped = {}

-----------------------------------------------------------------------------
Goto(p, from, to) ==
  /\ pc[p] = from
  /\ pc' = [pc EXCEPT ![p] = to]

(* A call of the window that is waited for: a message up to its mark, a    *)
(* door and the opening of a chat up to their end. A turn is no such call, *)
(* at work or ending: its goroutine asks nobody.                           *)
Awaited(p) == pc[p] # "idle" /\ (p \in Sends => pc[p] = "captured")

Calm == Serial => \A p \in Procs : ~Awaited(p)

OnScreen == chatOf[open]

(* The conversation a call that brings a configuration brings it to: the   *)
(* dials but one read it off the screen when they come to applyConfig.     *)
Brings(p) == pc[p] \in {"same", "apply", "swap"}

For(p) == IF p \in Doors /\ target[p] = None THEN open ELSE target[p]

(* One more configuration is taken in hand for v.                          *)
Crossing(v) ==
  crossed' = IF \E p \in Procs : Brings(p) /\ For(p) = v
               THEN crossed \cup {chatOf[v]} ELSE crossed

(* One that starts from what v runs on, or from the template, is.          *)
CrossingParked(v) ==
  IF pending[v] # None THEN crossed' = crossed \cup {chatOf[v]} ELSE Crossing(v)

Running(c) == turns[c] # None

(* A call that has come back holds nothing any more.                       *)
Holding(p, v, f, to) ==
  /\ target' = [target EXCEPT ![p] = IF to = "idle" THEN None ELSE v]
  /\ carry' = [carry EXCEPT ![p] = f]

-----------------------------------------------------------------------------
(* applyConfig: the section under turnMu, and the rebuild after it.        *)

Apply(p, v, done) ==
  IF Running(chatOf[v])
    THEN /\ pending' = [pending EXCEPT ![v] = carry[p]]
         /\ pc' = [pc EXCEPT ![p] = done]
         /\ Holding(p, v, None, done)
    ELSE /\ pending' = [pending EXCEPT ![v] = None]
         /\ pc' = [pc EXCEPT ![p] = "swap"]
         /\ Holding(p, v, carry[p], "swap")

Swap(p, done) ==
  /\ Goto(p, "swap", done)
  /\ cfg' = [cfg EXCEPT ![target[p]] = carry[p]]
  /\ template' = carry[p]
  /\ \E e \in Booted : engine' = [engine EXCEPT ![target[p]] = e]
  /\ Holding(p, target[p], None, done)
  /\ UNCHANGED <<desk, flight, pending, restance, row, past>>

-----------------------------------------------------------------------------
(* The doors.                                                              *)

(* Mutant: a dial starts from what the chat runs on now.                   *)
LiveBase(v) == cfg[v]

DialBase(v) == IF pending[v] # None THEN pending[v] ELSE cfg[v]

(* SwitchModel, SwitchProvider, SetProviderWireFormat.                     *)
PressDial(d, m) ==
  /\ "dial" \in Presses /\ Calm
  /\ Goto(d, "idle", "apply")
  /\ carry' = [carry EXCEPT ![d] = [DialBase(open) EXCEPT !.model = m]]
  /\ chosen' = [chosen EXCEPT ![OnScreen].model = m]
  /\ picked' = [picked EXCEPT ![OnScreen] = @ \cup {m}]
  /\ Crossing(open)
  /\ UNCHANGED <<desk, flight, dials, row, target, dropped>>

(* SwitchThinkLevel holds the conversation.                                *)
PressLevel(d, l) ==
  /\ "level" \in Presses /\ Calm
  /\ Goto(d, "idle", "same")
  /\ target' = [target EXCEPT ![d] = open]
  /\ carry' = [carry EXCEPT ![d] = [DialBase(open) EXCEPT !.level = l]]
  /\ chosen' = [chosen EXCEPT ![OnScreen].level = l]
  /\ Crossing(open)
  /\ UNCHANGED <<desk, flight, dials, row, picked, dropped>>

(* A level of a queued model waits with it, and one of a chat without an   *)
(* engine has one built; any other is live at once.                        *)
LevelWaits(d) ==
  /\ Goto(d, "same", "apply")
  /\ engine[target[d]] = "none" \/ carry[d].model # cfg[target[d]].model
  /\ UNCHANGED <<desk, flight, dials, row, target, carry, past>>

LevelLive(d) ==
  LET v == target[d]
      l == carry[d].level
  IN /\ Goto(d, "same", "idle")
     /\ engine[v] # "none" /\ carry[d].model = cfg[v].model
     /\ cfg' = [cfg EXCEPT ![v].level = l]
     /\ pending' = IF pending[v] # None THEN [pending EXCEPT ![v].level = l] ELSE pending
     /\ template' = [template EXCEPT !.level = l]
     /\ Holding(d, None, None, "idle")
     /\ UNCHANGED <<desk, flight, restance, engine, row, past>>

(* ProviderCredentialChanged, SetUserName, SetProviderBaseURL: rebuilt     *)
(* from what the chat runs on.                                             *)
PressRefresh(d) ==
  /\ "refresh" \in Presses /\ Calm
  /\ Goto(d, "idle", "apply")
  /\ carry' = [carry EXCEPT ![d] = cfg[open]]
  /\ CrossingParked(open)
  /\ UNCHANGED <<desk, flight, dials, row, target, chosen, picked, dropped>>

(* rebuildMCP, the connections, SetStance: rebuilt from Engine.cfg.        *)
PressReload(d) ==
  /\ "reload" \in Presses /\ Calm
  /\ Goto(d, "idle", "apply")
  /\ carry' = [carry EXCEPT ![d] = template]
  /\ CrossingParked(open)
  /\ UNCHANGED <<desk, flight, dials, row, target, chosen, picked, dropped>>

(* The chat is read again when it comes to applyConfig, except by the      *)
(* door that holds its conversation.                                       *)
DoorApply(d) ==
  /\ pc[d] = "apply"
  /\ Apply(d, IF target[d] # None THEN target[d] ELSE open, "idle")
  /\ UNCHANGED <<desk, flight, cfg, restance, engine, template, row, past>>

(* CancelPendingModel. The choice is un-made.                              *)
CancelPending ==
  /\ "cancel" \in Presses /\ Calm
  /\ pending' = [pending EXCEPT ![open] = None]
  /\ chosen' = [chosen EXCEPT ![OnScreen] = cfg[open]]
  /\ Crossing(open)
  /\ UNCHANGED <<desk, flight, cfg, restance, engine, template, row, calls, picked, dropped>>

DoorStep(d) ==
  \/ LevelWaits(d) \/ LevelLive(d) \/ DoorApply(d) \/ Swap(d, "idle")

Press(d) ==
  \/ \E m \in Models : PressDial(d, m)
  \/ \E l \in Levels : PressLevel(d, l)
  \/ PressRefresh(d) \/ PressReload(d)

-----------------------------------------------------------------------------
(* Stop.                                                                   *)

(* Mutant: a Stop that finds no cancel function is lost.                   *)
HaltArmed(halted) ==
  /\ cancelled' = cancelled \cup (halted \cap armed)
  /\ pressed' = pressed \cup halted
  /\ UNCHANGED <<turns, armed, stopEarly>>

Halt(halted) ==
  /\ cancelled' = cancelled \cup (halted \cap armed)
  /\ stopEarly' = stopEarly \cup (halted \ armed)
  /\ pressed' = pressed \cup halted
  /\ UNCHANGED <<turns, armed>>

(* CancelTurn: the turn of the chat on screen, and no other.               *)
CancelTurn ==
  /\ "stop" \in Presses /\ Running(OnScreen)
  /\ Halt({turns[OnScreen]})
  /\ UNCHANGED <<desk, dials, row, calls, past>>

(* stopEverything: the app is about to close.                              *)
StopEverything ==
  /\ "close" \in Presses
  /\ Halt({turns[c] : c \in Chats} \ {None})
  /\ UNCHANGED <<desk, dials, row, calls, past>>

-----------------------------------------------------------------------------
(* SendMessage and runTurn.                                                *)

(* The conversation is captured once.                                      *)
Capture(s) ==
  /\ Calm
  /\ Goto(s, "idle", "captured")
  /\ target' = [target EXCEPT ![s] = open]
  /\ UNCHANGED <<desk, flight, dials, row, carry, past>>

(* Mutant: beginTurn marks the turn without looking.                       *)
BeginUnasked(s) ==
  /\ Goto(s, "captured", "begun")
  /\ turns' = [turns EXCEPT ![chatOf[target[s]]] = s]
  /\ UNCHANGED <<desk, armed, stopEarly, cancelled, pressed, dials, row, target, carry, past>>

Begin(s) ==
  /\ Goto(s, "captured", "begun")
  /\ ~Running(chatOf[target[s]])
  /\ turns' = [turns EXCEPT ![chatOf[target[s]]] = s]
  /\ UNCHANGED <<desk, armed, stopEarly, cancelled, pressed, dials, row, target, carry, past>>

TurnBusy(s) ==
  /\ pc[s] = "captured" /\ Running(chatOf[target[s]])
  /\ Goto(s, "captured", "idle")
  /\ Holding(s, None, None, "idle")
  /\ UNCHANGED <<desk, flight, dials, row, past>>

RecordDials(s) == row' = [row EXCEPT ![chatOf[target[s]]] = cfg[target[s]]]

OpenTurn(s) ==
  /\ Goto(s, "begun", "opened")
  /\ RecordDials(s)
  /\ UNCHANGED <<desk, flight, dials, target, carry, past>>

(* A conversation with no engine: the turn fails before it is armed.       *)
NotReady(s) ==
  /\ Goto(s, "opened", "ended")
  /\ engine[target[s]] = "none"
  /\ UNCHANGED <<desk, flight, dials, row, target, carry, past>>

(* armTurnCancel, and the cancel() it asks for. A turn that is not in the  *)
(* map any more is cancelled as well.                                      *)
Arm(s) ==
  LET marked == turns[chatOf[target[s]]] = s
  IN /\ Goto(s, "opened", "running")
     /\ engine[target[s]] # "none"
     /\ armed' = IF marked THEN armed \cup {s} ELSE armed
     /\ cancelled' = IF marked /\ s \notin stopEarly THEN cancelled ELSE cancelled \cup {s}
     /\ stopEarly' = stopEarly \ {s}
     /\ UNCHANGED <<desk, turns, pressed, dials, row, target, carry, past>>

(* stanceNarrowedByAgent: the turn turns its own dial down.                *)
Narrow(s) ==
  /\ "narrow" \in Presses /\ pc[s] = "running"
  /\ restance' = restance \cup {target[s]}
  /\ engine' = [engine EXCEPT ![target[s]] = IF @ = "none" THEN @ ELSE "stale"]
  /\ UNCHANGED <<desk, flight, cfg, pending, template, row, calls, past>>

(* The turn returns, and its cancel function is dropped.                   *)
Return(s) ==
  /\ pc[s] = "running"
  /\ \E to \in IF s \in cancelled THEN {"ended"} ELSE {"answered", "ended"} : Goto(s, "running", to)
  /\ armed' = armed \ {s}
  /\ UNCHANGED <<desk, turns, stopEarly, cancelled, pressed, dials, row, target, carry, past>>

-----------------------------------------------------------------------------
(* appendTurn: an answer records the dials again. A failure does not.      *)
AppendTurn(s) ==
  /\ Goto(s, "answered", "ended")
  /\ RecordDials(s)
  /\ UNCHANGED <<desk, flight, dials, target, carry, past>>

-----------------------------------------------------------------------------
(* endTurn.                                                                *)

(* Mutant: what is parked waits for the next turn's end.                   *)
EndTurnKeepsPark(s) ==
  LET c == chatOf[target[s]]
      v == byID[c]
  IN /\ pc[s] = "ended"
     /\ turns' = [turns EXCEPT ![c] = None]
     /\ stopEarly' = stopEarly \ {s} /\ cancelled' = cancelled \ {s} /\ pressed' = pressed \ {s}
     /\ restance' = restance \ {v}
     /\ IF v \in restance
          THEN /\ pc' = [pc EXCEPT ![s] = "apply"]
               /\ target' = [target EXCEPT ![s] = v]
               /\ carry' = [carry EXCEPT ![s] = cfg[v]]
               /\ Crossing(v)
          ELSE /\ pc' = [pc EXCEPT ![s] = "leaving"]
               /\ UNCHANGED <<target, carry, crossed>>
     /\ UNCHANGED <<desk, armed, cfg, pending, engine, template, row, chosen, picked, dropped>>

(* Mutant: only a parked configuration has the engine rebuilt.             *)
EndTurnKeepsStance(s) ==
  LET c == chatOf[target[s]]
      v == byID[c]
  IN /\ pc[s] = "ended"
     /\ turns' = [turns EXCEPT ![c] = None]
     /\ stopEarly' = stopEarly \ {s} /\ cancelled' = cancelled \ {s} /\ pressed' = pressed \ {s}
     /\ pending' = IF v # None THEN [pending EXCEPT ![v] = None] ELSE pending
     /\ restance' = restance \ {v}
     /\ IF v # None /\ pending[v] # None
          THEN /\ pc' = [pc EXCEPT ![s] = "apply"]
               /\ target' = [target EXCEPT ![s] = v]
               /\ carry' = [carry EXCEPT ![s] = pending[v]]
               /\ Crossing(v)
          ELSE /\ pc' = [pc EXCEPT ![s] = "leaving"]
               /\ UNCHANGED <<target, carry, crossed>>
     /\ UNCHANGED <<desk, armed, cfg, engine, template, row, chosen, picked, dropped>>

(* A configuration that was parked lands; else an engine that narrowed its *)
(* own stance is rebuilt from what it has.                                 *)
EndTurn(s) ==
  LET c == chatOf[target[s]]
      v == byID[c]
  IN /\ pc[s] = "ended"
     /\ turns' = [turns EXCEPT ![c] = None]
     /\ stopEarly' = stopEarly \ {s} /\ cancelled' = cancelled \ {s} /\ pressed' = pressed \ {s}
     /\ pending' = IF v # None THEN [pending EXCEPT ![v] = None] ELSE pending
     /\ restance' = restance \ {v}
     /\ IF v # None /\ (pending[v] # None \/ v \in restance)
          THEN /\ pc' = [pc EXCEPT ![s] = "apply"]
               /\ target' = [target EXCEPT ![s] = v]
               /\ carry' = [carry EXCEPT ![s] = DialBase(v)]
               /\ Crossing(v)
          ELSE /\ pc' = [pc EXCEPT ![s] = "leaving"]
               /\ UNCHANGED <<target, carry, crossed>>
     /\ UNCHANGED <<desk, armed, cfg, engine, template, row, chosen, picked, dropped>>

(* The turn's own applyConfig: a turn begun meanwhile parks it again.      *)
Land(s) ==
  /\ pc[s] = "apply"
  /\ Apply(s, target[s], "leaving")
  /\ UNCHANGED <<desk, flight, cfg, restance, engine, template, row, past>>

(* A chat that is not on screen any more is let go of.                     *)
Leave(s) ==
  LET c == chatOf[target[s]]
      go == c # OnScreen /\ byID[c] # None
  IN /\ pc[s] = "leaving"
     /\ pc' = [pc EXCEPT ![s] = IF go THEN "letting" ELSE "idle"]
     /\ Holding(s, byID[c], None, pc'[s])
     /\ UNCHANGED <<desk, flight, dials, row, past>>

(* letGoOf. Nobody asks again whether the chat is on screen or at work, or *)
(* whether a turn that has ended is still landing its configuration.       *)
LetGo(p) ==
  LET c == chatOf[target[p]]
      late == p \in Sends /\ (c = OnScreen \/ Running(c))
      landing == \E s \in Sends : Brings(s) /\ chatOf[target[s]] = c
  IN /\ Goto(p, "letting", "idle")
     /\ byID' = [byID EXCEPT ![c] = None]
     /\ Holding(p, None, None, "idle")
     /\ dropped' = IF late \/ landing THEN dropped \cup {c} ELSE dropped
     /\ UNCHANGED <<open, chatOf, flight, dials, row, chosen, picked, crossed>>

-----------------------------------------------------------------------------
(* LoadSession, startNewSession and showConversation.                      *)

(* A conversation this process holds is attached to.                       *)
Attach(c) ==
  /\ "load" \in Presses /\ Calm
  /\ row[c] # None /\ byID[c] # None
  /\ Goto(Loader, "idle", "found")
  /\ target' = [target EXCEPT ![Loader] = byID[c]]
  /\ UNCHANGED <<desk, flight, dials, row, carry, past>>

(* A conversation object for c, with no engine yet.                        *)
Born(v, c, f) ==
  /\ ~InUse(v)
  /\ chatOf' = [chatOf EXCEPT ![v] = c]
  /\ cfg' = [cfg EXCEPT ![v] = f]
  /\ pending' = [pending EXCEPT ![v] = None]
  /\ restance' = restance \ {v}
  /\ engine' = [engine EXCEPT ![v] = "none"]
  /\ Goto(Loader, "idle", "apply")
  /\ target' = [target EXCEPT ![Loader] = v]
  /\ carry' = [carry EXCEPT ![Loader] = f]
  /\ UNCHANGED <<open, byID, flight, template, row, crossed, dropped>>

(* Mutant: a chat comes back on the model last chosen anywhere.            *)
ReopenFromTemplate(c, v) ==
  /\ "load" \in Presses /\ Calm
  /\ row[c] # None /\ byID[c] = None
  /\ Born(v, c, template)
  /\ chosen' = [chosen EXCEPT ![c] = row[c]]
  /\ UNCHANGED picked

(* One it does not hold is built anew, from its row's dials.               *)
Reopen(c, v) ==
  /\ "load" \in Presses /\ Calm
  /\ row[c] # None /\ byID[c] = None
  /\ Born(v, c, row[c])
  /\ chosen' = [chosen EXCEPT ![c] = row[c]]
  /\ UNCHANGED picked

(* startNewSession: from the template.                                     *)
NewChat(c, v) ==
  /\ "new" \in Presses /\ Calm
  /\ row[c] = None /\ \A u \in Convs : chatOf[u] = c => ~InUse(u)
  /\ Born(v, c, template)
  /\ chosen' = [chosen EXCEPT ![c] = template]
  /\ picked' = [picked EXCEPT ![c] = {template.model}]

LoaderApply ==
  /\ pc[Loader] = "apply"
  /\ Apply(Loader, target[Loader], "found")
  /\ UNCHANGED <<desk, flight, cfg, restance, engine, template, row, past>>

(* showConversation: the cursor moves, and the chat that was there is      *)
(* looked at after it.                                                     *)
Show ==
  LET v == target[Loader]
  IN /\ pc[Loader] = "found"
     /\ open' = v
     /\ byID' = [byID EXCEPT ![chatOf[v]] = v]
     /\ pc' = [pc EXCEPT ![Loader] = IF open = v THEN "idle" ELSE "shown"]
     /\ Holding(Loader, open, None, pc'[Loader])
     /\ UNCHANGED <<chatOf, flight, dials, row, past>>

(* Mutant: whatever leaves the screen is let go of.                        *)
OutgoingAnyway ==
  /\ Goto(Loader, "shown", "letting")
  /\ UNCHANGED <<desk, flight, dials, row, target, carry, past>>

Outgoing ==
  /\ pc[Loader] = "shown"
  /\ IF Running(chatOf[target[Loader]])
       THEN Goto(Loader, "shown", "idle") /\ Holding(Loader, None, None, "idle")
       ELSE Goto(Loader, "shown", "letting") /\ UNCHANGED <<target, carry>>
  /\ UNCHANGED <<desk, flight, dials, row, past>>

LoaderStep ==
  \/ LoaderApply \/ Swap(Loader, "found") \/ Show \/ Outgoing \/ LetGo(Loader)

Load == \E c \in Chats : Attach(c) \/ \E v \in Convs : Reopen(c, v) \/ NewChat(c, v)

-----------------------------------------------------------------------------
(* Everything a turn does by itself; its work, Return, ends in its time.   *)
TurnStep(s) ==
  \/ Begin(s) \/ TurnBusy(s) \/ OpenTurn(s) \/ NotReady(s) \/ Arm(s)
  \/ AppendTurn(s) \/ EndTurn(s) \/ Land(s) \/ Swap(s, "leaving") \/ Leave(s) \/ LetGo(s)

Next ==
  \/ \E s \in Sends : Capture(s) \/ Narrow(s) \/ Return(s) \/ TurnStep(s)
  \/ \E d \in Doors : Press(d) \/ DoorStep(d)
  \/ CancelPending \/ CancelTurn \/ StopEverything
  \/ Load \/ LoaderStep

Spec == Init /\ [][Next]_vars

(* Calls run on their goroutines; a turn whose context is over returns.    *)
Fairness ==
  /\ \A s \in Sends : WF_vars(TurnStep(s)) /\ WF_vars(s \in cancelled /\ Return(s))
  /\ \A d \in Doors : WF_vars(DoorStep(d))
  /\ WF_vars(LoaderStep)

FairSpec == Spec /\ Fairness

-----------------------------------------------------------------------------
InFlight(s) == pc[s] \in {"begun", "opened", "running", "answered", "ended"}

(***************************************************************************)
(* beginTurn: of the turns of a chat one at most is in flight, and it is   *)
(* the one the map names, whichever of the calls that share the map end    *)
(* meanwhile.                                                              *)
(***************************************************************************)
OneTurn ==
  \A s \in Sends, c \in Chats : turns[c] = s <=> InFlight(s) /\ c = chatOf[target[s]]

(***************************************************************************)
(* A Stop reaches the turn it was pressed on, also in the gap where the    *)
(* turn is marked and has nothing to cancel yet: a turn that was stopped   *)
(* and has been armed works under a context that is over.                  *)
(***************************************************************************)
StopReaches == \A s \in Sends : s \in pressed /\ pc[s] = "running" => s \in cancelled

(***************************************************************************)
(* applyConfig checks and parks under one lock, "so a turn cannot end      *)
(* between the check and the write and strand the config": what is parked  *)
(* waits for a turn that will land it.                                     *)
(***************************************************************************)
NothingStranded ==
  \A v \in Convs : pending[v] # None => Running(chatOf[v]) /\ byID[chatOf[v]] = v

(***************************************************************************)
(* The same where chats are opened and left while turns end: only a chat   *)
(* that was let go of under the ending of one of its turns may hold what   *)
(* nobody will land.                                                       *)
(***************************************************************************)
StrandedWasDropped ==
  \A v \in Convs : pending[v] # None =>
    chatOf[v] \in dropped \/ (Running(chatOf[v]) /\ byID[chatOf[v]] = v)

(***************************************************************************)
(* An engine that still carries the prompt of the stance it left is        *)
(* rebuilt at the boundary: between turns there is none on screen.         *)
(***************************************************************************)
StanceIsRebuilt ==
  engine[open] = "stale" =>
    Running(OnScreen) \/ \E p \in Procs : target[p] = open /\ pc[p] \in {"apply", "swap"}

(* Nothing is under way in the chat on screen.                             *)
AtRest ==
  /\ ~Running(OnScreen)
  /\ \A p \in Procs : pc[p] # "idle" => target[p] # None /\ chatOf[target[p]] # OnScreen

(***************************************************************************)
(* dialBase: "Two dials moved during one turn are two decisions, and both  *)
(* have to arrive". When nothing is under way in the chat on screen, its   *)
(* dials are where they were last put. The code does not keep this: a dial *)
(* put while an ending turn lands one starts from what is being replaced.  *)
(***************************************************************************)
DialsArrive == AtRest => cfg[open] = chosen[OnScreen]

(***************************************************************************)
(* What of it the code keeps: every dial arrives in a chat in which no two *)
(* configurations were ever in hand at once, no key or name was put while  *)
(* a switch was queued, and that was not let go of while one landed: with  *)
(* however many dials, levels and cancels in one turn's slot.              *)
(***************************************************************************)
DialsArriveUncrossed == AtRest /\ OnScreen \notin crossed \cup dropped => cfg[open] = chosen[OnScreen]

(***************************************************************************)
(* "Born from the template, then corrected by whatever the row recorded":  *)
(* a chat runs on no model that was chosen in another one.                 *)
(***************************************************************************)
OwnDials ==
  \A c \in Chats : byID[c] # None => cfg[byID[c]].model \in picked[c]

(***************************************************************************)
(* conversations: "A conversation stays here while its turn runs, whether  *)
(* or not the window is showing it". The map holds the conversation of     *)
(* every turn. The code does not keep this: endTurn looks whether its chat *)
(* is on screen and lets go of it later.                                   *)
(***************************************************************************)
HeldWhileRunning == \A s \in Sends : InFlight(s) => byID[chatOf[target[s]]] = target[s]

(***************************************************************************)
(* What of it the code keeps: only a late letting go takes a working       *)
(* conversation out of the map, one by the ending of another turn, or one  *)
(* while a turn landed its configuration in the chat. Opening, leaving and *)
(* opening again a chat at work never does.                                *)
(***************************************************************************)
HeldUnlessDropped ==
  \A s \in Sends : InFlight(s) => chatOf[target[s]] \in dropped \/ byID[chatOf[target[s]]] = target[s]

(***************************************************************************)
(* applyConfig: "Never under a turn in flight". No engine is replaced      *)
(* under the turn that works on it. The code does not keep this: a turn    *)
(* can begin between applyConfig's look and the rebuild.                   *)
(***************************************************************************)
NoSwapUnderTurn ==
  [][\A p \in Procs, s \in Sends :
       pc[p] = "swap" /\ pc'[p] # "swap" /\ InFlight(s) => target[s] # target[p]]_vars

(***************************************************************************)
(* A turn that was stopped ends.                                           *)
(***************************************************************************)
StoppedEnds == \A s \in Sends : s \in pressed ~> s \notin pressed
=============================================================================
