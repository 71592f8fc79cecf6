--------------------------- MODULE TurnGateProofs ---------------------------
(***************************************************************************)
(* What is proved of TurnGate for any number of chats, turns and doors:    *)
(* its types, that a chat has one turn in flight at most, and that a Stop  *)
(* reaches the turn it was pressed on; where the window waits for one call *)
(* before it makes the next (Serial) and turns end whenever they do, that  *)
(* a chat at work stays in the map and nothing parked is stranded, except  *)
(* in a chat that was let go of late (dropped), that a chat's model is its *)
(* own, and that every dial arrives where no two configurations met        *)
(* (crossed); and, at the end, what holds when calls overlap as they like, *)
(* in a window of one chat.                                                *)
(***************************************************************************)
EXTENDS TurnGate, TLAPS

(* A dial that is put to a value makes a configuration of a configuration. *)
LEMMA DialedConfig ==
  ASSUME NEW f \in Config
  PROVE  /\ f.model \in Models /\ f.level \in Levels
         /\ \A m \in Models : [f EXCEPT !.model = m] \in Config
         /\ \A l \in Levels : [f EXCEPT !.level = l] \in Config
  BY DEF Config

(* The chat on screen is one.                                              *)
LEMMA OnScreenIsChat == TypeOK => OnScreen \in Chats
  BY DEF TypeOK, OnScreen, InUse

(* A call that is about to do something holds what it does it with.        *)
LEMMA CallHolds ==
  ASSUME TypeOK, NEW p \in Procs, pc[p] # "idle", ~(p \in Doors /\ pc[p] = "apply")
  PROVE  target[p] \in Convs /\ chatOf[target[p]] \in Chats
  BY DEF TypeOK, InUse

(* Only chats are crossed.                                                 *)
LEMMA CrossedAreChats ==
  ASSUME TypeOK, NEW v \in Convs, chatOf[v] \in Chats, Crossing(v)
  PROVE  crossed' \subseteq Chats
  BY DEF Crossing, TypeOK

(* What applyConfig's section under the lock leaves: the call has parked   *)
(* what it brought and gone on, or it holds it and goes to rebuild.        *)
LEMMA ApplyTypes ==
  ASSUME TypeOK, NEW p \in Procs, NEW v \in Convs, NEW done \in {"idle", "leaving", "found"},
         pc[p] = "apply", Apply(p, v, done)
  PROVE  /\ pending' \in [Convs -> Config \cup {None}]
         /\ pc' \in [Procs -> Stages]
         /\ target' \in [Procs -> Convs \cup {None}]
         /\ carry' \in [Procs -> Config \cup {None}]
         /\ \A q \in Procs \ {p} : pc'[q] = pc[q] /\ target'[q] = target[q] /\ carry'[q] = carry[q]
         /\ pc'[p] \in {done, "swap"}
         /\ pc'[p] # "idle" => target'[p] = v
         /\ pc'[p] = "idle" => target'[p] = None
         /\ pc'[p] = "swap" => carry'[p] = carry[p]
<1>1. carry[p] \in Config
  BY DEF TypeOK
<1>2. pc' \in [Procs -> Stages]
  BY DEF Apply, TypeOK, Stages, EndStages, TurnStages
<1>3. QED
  BY <1>1, <1>2 DEF Apply, TypeOK, Holding

(***************************************************************************)
(* Every call works on a conversation some chat owns, and brings a         *)
(* configuration whenever applyConfig is going to use one: the calls of    *)
(* app.go never come to the rebuild with nothing in hand.                  *)
(***************************************************************************)
THEOREM GateTyping == Spec => []TypeOK
<1>1. Init => TypeOK
  <2> SUFFICES ASSUME Init PROVE TypeOK
    OBVIOUS
  <2>1. PICK c0 \in Chats, v0 \in Convs, f0 \in Config, e0 \in Booted :
          /\ open = v0
          /\ byID = [c \in Chats |-> IF c = c0 THEN v0 ELSE None]
          /\ chatOf = [v \in Convs |-> IF v = v0 THEN c0 ELSE None]
          /\ turns = [c \in Chats |-> None]
          /\ armed = {} /\ stopEarly = {} /\ cancelled = {} /\ pressed = {}
          /\ cfg = [v \in Convs |-> f0]
          /\ pending = [v \in Convs |-> None]
          /\ restance = {}
          /\ engine = [v \in Convs |-> IF v = v0 THEN e0 ELSE "none"]
          /\ template = f0
          /\ row = [c \in Chats |-> None]
          /\ pc = [p \in Procs |-> "idle"]
          /\ target = [p \in Procs |-> None]
          /\ carry = [p \in Procs |-> None]
          /\ chosen = [c \in Chats |-> f0]
          /\ picked = [c \in Chats |-> IF c = c0 THEN {f0.model} ELSE {}]
          /\ crossed = {} /\ dropped = {}
    BY DEF Init
  <2>2. f0.model \in Models
    BY DialedConfig
  <2>3. None \notin Convs
    BY GateAssumption
  <2>4. QED
    BY <2>1, <2>2, <2>3 DEF TypeOK, InUse, Stages, Booted
<1>2. TypeOK /\ [Next]_vars => TypeOK'
  <2> SUFFICES ASSUME TypeOK, [Next]_vars PROVE TypeOK'
    OBVIOUS
  <2>0. Sends \subseteq Procs /\ Doors \subseteq Procs /\ Loader \in Procs /\ None \notin Convs
        /\ Loader \notin Doors /\ Sends \cap Doors = {}
    BY GateAssumption DEF Procs
  <2>a. OnScreen \in Chats
    BY OnScreenIsChat
  <2>1. ASSUME NEW s \in Sends, Capture(s) PROVE TypeOK'
    BY <2>1, <2>0 DEF Capture, Goto, TypeOK, InUse, Stages, TurnStages, desk, flight, dials, past
  <2>2. ASSUME NEW s \in Sends, Begin(s) \/ OpenTurn(s) \/ NotReady(s) \/ AppendTurn(s) PROVE TypeOK'
    <3>1. target[s] \in Convs /\ chatOf[target[s]] \in Chats
      BY <2>2, <2>0, CallHolds DEF Begin, OpenTurn, NotReady, AppendTurn, Goto
    <3>2. CASE Begin(s)
      BY <3>1, <3>2, <2>0 DEF Begin, Goto, TypeOK, InUse, Stages, TurnStages, desk, dials, past
    <3>3. CASE OpenTurn(s)
      BY <3>1, <3>3, <2>0 DEF OpenTurn, RecordDials, Goto, TypeOK, InUse, Stages, TurnStages, desk, flight, dials, past
    <3>4. CASE NotReady(s)
      BY <3>1, <3>4, <2>0 DEF NotReady, Goto, TypeOK, InUse, Stages, TurnStages, desk, flight, dials, past
    <3>5. CASE AppendTurn(s)
      BY <3>1, <3>5, <2>0 DEF AppendTurn, RecordDials, Goto, TypeOK, InUse, Stages, TurnStages, desk, flight, dials, past
    <3>6. QED
      BY <2>2, <3>2, <3>3, <3>4, <3>5
  <2>3. ASSUME NEW s \in Sends, TurnBusy(s) PROVE TypeOK'
    BY <2>3, <2>0 DEF TurnBusy, Holding, Goto, TypeOK, InUse, Stages, desk, flight, dials, past
  <2>4. ASSUME NEW s \in Sends, Arm(s) PROVE TypeOK'
    <3>1. pc' \in [Procs -> Stages] /\ armed' \subseteq Sends /\ cancelled' \subseteq Sends
          /\ stopEarly' \subseteq Sends
      BY <2>4, <2>0 DEF Arm, Goto, TypeOK, Stages, TurnStages
    <3>2. QED
      BY <2>4, <2>0, <3>1 DEF Arm, Goto, TypeOK, InUse, desk, dials, past
  <2>5. ASSUME NEW s \in Sends, Narrow(s) PROVE TypeOK'
    <3>1. engine' \in [Convs -> {"none", "built", "stale"}]
      BY <2>5 DEF Narrow, TypeOK
    <3>2. QED
      BY <2>5, <2>0, <3>1 DEF Narrow, TypeOK, InUse, desk, flight, calls, past
  <2>6. ASSUME NEW s \in Sends, Return(s) PROVE TypeOK'
    <3>1. PICK to \in {"answered", "ended"} : Goto(s, "running", to)
      BY <2>6 DEF Return
    <3>2. pc' \in [Procs -> Stages]
      BY <3>1, <2>0 DEF Goto, TypeOK, Stages, TurnStages
    <3>3. QED
      BY <2>6, <2>0, <3>1, <3>2 DEF Return, Goto, TypeOK, InUse, desk, dials, past
  <2>7. ASSUME NEW s \in Sends, EndTurn(s) PROVE TypeOK'
    <3> DEFINE c == chatOf[target[s]]
    <3> DEFINE v == byID[c]
    <3>1. c \in Chats /\ v \in Convs \cup {None}
      BY <2>7, <2>0, CallHolds DEF EndTurn, TypeOK
    <3>2. v # None => v \in Convs /\ DialBase(v) \in Config /\ chatOf[v] \in Chats
      BY <3>1 DEF TypeOK, InUse, DialBase
    <3>3. pc' \in [Procs -> Stages] /\ pc' = [pc EXCEPT ![s] = pc'[s]] /\ pc'[s] \in {"apply", "leaving"}
      BY <2>7, <2>0 DEF EndTurn, TypeOK, Stages, EndStages
    <3>4. /\ turns' \in [Chats -> Sends \cup {None}]
          /\ stopEarly' \subseteq Sends /\ cancelled' \subseteq Sends /\ pressed' \subseteq Sends
          /\ pending' \in [Convs -> Config \cup {None}] /\ restance' \subseteq Convs
      BY <2>7, <3>1 DEF EndTurn, TypeOK
    <3>5. /\ target' \in [Procs -> Convs \cup {None}] /\ carry' \in [Procs -> Config \cup {None}]
          /\ target'[s] \in Convs /\ (pc'[s] = "apply" => carry'[s] \in Config)
          /\ chatOf[target'[s]] \in Chats
          /\ \A q \in Procs \ {s} : target'[q] = target[q] /\ carry'[q] = carry[q]
      BY <2>7, <2>0, <3>1, <3>2, CallHolds DEF EndTurn, TypeOK
    <3>6. UNCHANGED <<open, byID, chatOf, armed, cfg, engine, template, row, chosen, picked, dropped>>
      BY <2>7 DEF EndTurn, desk
    <3>7. crossed' \subseteq Chats
      <4>1. crossed' = crossed \/ (v # None /\ Crossing(v))
        BY <2>7 DEF EndTurn
      <4>2. QED
        BY <4>1, <3>1, <3>2, CrossedAreChats DEF TypeOK
    <3>8. QED
      BY <2>0, <3>3, <3>4, <3>5, <3>6, <3>7 DEF TypeOK, InUse
  <2>8. ASSUME NEW p \in Procs, NEW v \in Convs, NEW done \in {"idle", "leaving", "found"},
               pc[p] = "apply", Apply(p, v, done), chatOf[v] \in Chats,
               p \in Doors \/ done # "idle",
               UNCHANGED <<desk, flight, cfg, restance, engine, template, row, past>>
        PROVE  TypeOK'
    <3>1. /\ pending' \in [Convs -> Config \cup {None}]
          /\ pc' \in [Procs -> Stages]
          /\ target' \in [Procs -> Convs \cup {None}]
          /\ carry' \in [Procs -> Config \cup {None}]
          /\ \A q \in Procs \ {p} : pc'[q] = pc[q] /\ target'[q] = target[q] /\ carry'[q] = carry[q]
          /\ pc'[p] \in {done, "swap"}
          /\ pc'[p] # "idle" => target'[p] = v
          /\ pc'[p] = "idle" => target'[p] = None
          /\ pc'[p] = "swap" => carry'[p] = carry[p]
      BY <2>8, ApplyTypes
    <3>2. carry[p] \in Config
      BY <2>8 DEF TypeOK
    <3>3. QED
      BY <2>8, <2>0, <3>1, <3>2 DEF TypeOK, InUse, desk, flight, past
  <2>9. ASSUME NEW s \in Sends, Land(s) PROVE TypeOK'
    <3>1. s \in Procs /\ target[s] \in Convs /\ chatOf[target[s]] \in Chats
      BY <2>9, <2>0, CallHolds DEF Land
    <3>2. QED
      BY <2>9, <3>1, <2>8 DEF Land
  <2>10. ASSUME LoaderApply PROVE TypeOK'
    <3>1. target[Loader] \in Convs /\ chatOf[target[Loader]] \in Chats
      BY <2>10, <2>0, CallHolds DEF LoaderApply
    <3>2. QED
      BY <2>10, <2>0, <3>1, <2>8 DEF LoaderApply
  <2>11. ASSUME NEW d \in Doors, DoorApply(d) PROVE TypeOK'
    <3> DEFINE v == IF target[d] # None THEN target[d] ELSE open
    <3>1. v \in Convs /\ chatOf[v] \in Chats
      BY <2>0 DEF TypeOK, InUse
    <3>2. QED
      BY <2>11, <2>0, <3>1, <2>8 DEF DoorApply
  <2>12. ASSUME NEW p \in Procs, NEW done \in {"idle", "leaving", "found"}, Swap(p, done) PROVE TypeOK'
    <3>1. target[p] \in Convs /\ carry[p] \in Config
      BY <2>12 DEF Swap, Goto, TypeOK
    <3>2. pc' \in [Procs -> Stages] /\ engine' \in [Convs -> {"none", "built", "stale"}]
      BY <2>12, <3>1 DEF Swap, Goto, TypeOK, Stages, EndStages, Booted
    <3>3. QED
      BY <2>12, <2>0, <3>1, <3>2 DEF Swap, Goto, Holding, TypeOK, InUse, desk, flight, past
  <2>13. ASSUME NEW s \in Sends, Leave(s) PROVE TypeOK'
    <3>1. target[s] \in Convs /\ chatOf[target[s]] \in Chats
      BY <2>13, <2>0, CallHolds DEF Leave
    <3>2. byID[chatOf[target[s]]] \in Convs \cup {None}
      BY <3>1 DEF TypeOK
    <3>3. pc' \in [Procs -> Stages] /\ pc'[s] \in {"letting", "idle"}
          /\ pc' = [pc EXCEPT ![s] = pc'[s]]
          /\ (pc'[s] = "letting" => byID[chatOf[target[s]]] \in Convs)
      BY <2>13, <2>0, <3>2 DEF Leave, TypeOK, Stages, EndStages
    <3>4. QED
      BY <2>13, <2>0, <3>1, <3>2, <3>3 DEF Leave, Holding, TypeOK, InUse, desk, flight, dials, past
  <2>14. ASSUME NEW p \in Procs, LetGo(p) PROVE TypeOK'
    <3>1. pc' \in [Procs -> Stages]
      BY <2>14 DEF LetGo, Goto, TypeOK, Stages
    <3>2. chatOf[target[p]] \in Chats
      BY <2>14, <2>0, CallHolds DEF LetGo, Goto
    <3>3. dropped' \in {dropped, dropped \cup {chatOf[target[p]]}}
      BY <2>14 DEF LetGo
    <3>4. QED
      BY <2>14, <2>0, <3>1, <3>2, <3>3 DEF LetGo, Goto, Holding, TypeOK, InUse, flight, dials
  <2>15. ASSUME NEW d \in Doors, Press(d) PROVE TypeOK'
    <3>1. DialBase(open) \in Config /\ open \in Convs /\ chatOf[open] \in Chats
      BY DEF DialBase, TypeOK, InUse
    <3>a. Crossing(open) \/ CrossingParked(open) => crossed' \subseteq Chats
      BY <3>1, CrossedAreChats DEF CrossingParked, TypeOK
    <3>2. ASSUME NEW m \in Models, PressDial(d, m) PROVE TypeOK'
      <4>1. [DialBase(open) EXCEPT !.model = m] \in Config /\ [chosen[OnScreen] EXCEPT !.model = m] \in Config
        BY <3>1, <2>a, DialedConfig DEF TypeOK
      <4>2. chosen' \in [Chats -> Config] /\ picked' \in [Chats -> SUBSET Models]
        BY <3>2, <4>1, <2>a DEF PressDial, TypeOK
      <4>3. pc' \in [Procs -> Stages] /\ carry' \in [Procs -> Config \cup {None}]
        BY <3>2, <4>1 DEF PressDial, Goto, TypeOK, Stages, EndStages
      <4>4. QED
        BY <3>2, <3>a, <2>0, <4>1, <4>2, <4>3 DEF PressDial, Goto, TypeOK, InUse, desk, flight, dials
    <3>3. ASSUME NEW l \in Levels, PressLevel(d, l) PROVE TypeOK'
      <4>1. [DialBase(open) EXCEPT !.level = l] \in Config /\ [chosen[OnScreen] EXCEPT !.level = l] \in Config
        BY <3>1, <2>a, DialedConfig DEF TypeOK
      <4>2. chosen' \in [Chats -> Config]
        BY <3>3, <4>1, <2>a DEF PressLevel, TypeOK
      <4>3. pc' \in [Procs -> Stages] /\ carry' \in [Procs -> Config \cup {None}]
            /\ target' \in [Procs -> Convs \cup {None}]
        BY <3>3, <4>1 DEF PressLevel, Goto, TypeOK, Stages, EndStages
      <4>4. QED
        BY <3>3, <3>a, <2>0, <4>1, <4>2, <4>3 DEF PressLevel, Goto, TypeOK, InUse, desk, flight, dials
    <3>4. ASSUME PressRefresh(d) \/ PressReload(d) PROVE TypeOK'
      <4>1. pc' \in [Procs -> Stages]
        BY <3>4 DEF PressRefresh, PressReload, Goto, TypeOK, Stages, EndStages
      <4>2. QED
        BY <3>4, <3>a, <4>1, <2>0 DEF PressRefresh, PressReload, Goto, TypeOK, InUse, desk, flight, dials
    <3>5. QED
      BY <2>15, <3>2, <3>3, <3>4 DEF Press
  <2>16. ASSUME NEW d \in Doors, LevelWaits(d) \/ LevelLive(d) PROVE TypeOK'
    <3>1. target[d] \in Convs /\ carry[d] \in Config
      BY <2>16, <2>0 DEF LevelWaits, LevelLive, Goto, TypeOK
    <3>2. pc' \in [Procs -> Stages]
      BY <2>16 DEF LevelWaits, LevelLive, Goto, TypeOK, Stages, EndStages
    <3>3. CASE LevelWaits(d)
      BY <3>1, <3>2, <3>3, <2>0 DEF LevelWaits, Goto, TypeOK, InUse, desk, flight, dials, past
    <3>4. CASE LevelLive(d)
      <4>1. cfg[target[d]] \in Config /\ carry[d].level \in Levels /\ template \in Config
        BY <3>1, DialedConfig DEF TypeOK
      <4>2. /\ [cfg[target[d]] EXCEPT !.level = carry[d].level] \in Config
            /\ [template EXCEPT !.level = carry[d].level] \in Config
        BY <4>1, DialedConfig
      <4>3. pending[target[d]] # None => [pending[target[d]] EXCEPT !.level = carry[d].level] \in Config
        <5>1. pending[target[d]] # None => pending[target[d]] \in Config
          BY <3>1 DEF TypeOK
        <5>2. QED
          BY <5>1, <4>1, DialedConfig
      <4>4. cfg' \in [Convs -> Config] /\ pending' \in [Convs -> Config \cup {None}] /\ template' \in Config
        BY <3>4, <3>1, <4>2, <4>3 DEF LevelLive, TypeOK
      <4>5. QED
        BY <3>4, <3>2, <4>4, <2>0 DEF LevelLive, Goto, Holding, TypeOK, InUse, desk, flight, past
    <3>5. QED
      BY <2>16, <3>3, <3>4
  <2>17. ASSUME CancelPending PROVE TypeOK'
    <3>1. open \in Convs /\ chatOf[open] \in Chats
      BY DEF TypeOK, InUse
    <3>2. crossed' \subseteq Chats
      BY <2>17, <3>1, CrossedAreChats DEF CancelPending
    <3>3. QED
      BY <2>17, <2>a, <3>2 DEF CancelPending, TypeOK, InUse, desk, flight, calls
  <2>18. ASSUME CancelTurn \/ StopEverything PROVE TypeOK'
    <3>1. PICK h \in SUBSET Sends : Halt(h)
      <4>1. CASE CancelTurn
        BY <4>1, <2>a DEF CancelTurn, Running, TypeOK
      <4>2. CASE StopEverything
        BY <4>2 DEF StopEverything, TypeOK
      <4>3. QED
        BY <2>18, <4>1, <4>2
    <3>2. QED
      BY <2>18, <3>1 DEF CancelTurn, StopEverything, Halt, TypeOK, InUse, desk, dials, calls, past
  <2>19. ASSUME NEW c \in Chats, Attach(c) PROVE TypeOK'
    <3>1. pc' \in [Procs -> Stages] /\ byID[c] \in Convs
      BY <2>19 DEF Attach, Goto, TypeOK, Stages
    <3>2. QED
      BY <2>19, <2>0, <3>1 DEF Attach, Goto, TypeOK, InUse, desk, flight, dials, past
  <2>20. ASSUME NEW c \in Chats, NEW v \in Convs, NEW f \in Config, Born(v, c, f),
                chosen' \in [Chats -> Config], picked' \in [Chats -> SUBSET Models]
         PROVE  TypeOK'
    <3>1. pc' \in [Procs -> Stages] /\ pc' = [pc EXCEPT ![Loader] = "apply"] /\ ~InUse(v)
      BY <2>20 DEF Born, Goto, TypeOK, Stages, EndStages
    <3>2. /\ chatOf' \in [Convs -> Chats \cup {None}] /\ cfg' \in [Convs -> Config]
          /\ pending' \in [Convs -> Config \cup {None}] /\ restance' \subseteq Convs
          /\ engine' \in [Convs -> {"none", "built", "stale"}]
          /\ target' = [target EXCEPT ![Loader] = v] /\ carry' = [carry EXCEPT ![Loader] = f]
      BY <2>20 DEF Born, TypeOK
    <3>3. \A u \in Convs : InUse(u)' => chatOf'[u] \in Chats
      BY <2>20, <2>0, <3>2 DEF Born, TypeOK, InUse
    <3>4. UNCHANGED <<open, byID, turns, armed, stopEarly, cancelled, pressed, template, row, crossed,
                   dropped>>
      BY <2>20 DEF Born, flight
    <3>5. QED
      BY <2>0, <2>20, <3>1, <3>2, <3>3, <3>4 DEF TypeOK
  <2>21. ASSUME NEW c \in Chats, NEW v \in Convs, Reopen(c, v) PROVE TypeOK'
    <3>1. row[c] \in Config
      BY <2>21 DEF Reopen, TypeOK
    <3>2. QED
      BY <2>21, <3>1, <2>20 DEF Reopen, TypeOK
  <2>22. ASSUME NEW c \in Chats, NEW v \in Convs, NewChat(c, v) PROVE TypeOK'
    <3>1. template \in Config /\ template.model \in Models
      BY DialedConfig DEF TypeOK
    <3>2. chosen' \in [Chats -> Config] /\ picked' \in [Chats -> SUBSET Models]
      BY <2>22, <3>1 DEF NewChat, TypeOK
    <3>3. QED
      BY <2>22, <3>1, <3>2, <2>20 DEF NewChat
  <2>23. ASSUME Show PROVE TypeOK'
    <3>1. target[Loader] \in Convs /\ chatOf[target[Loader]] \in Chats
      BY <2>23, <2>0, CallHolds DEF Show
    <3>2. pc' \in [Procs -> Stages] /\ pc'[Loader] \in {"idle", "shown"} /\ pc' = [pc EXCEPT ![Loader] = pc'[Loader]]
      BY <2>23, <2>0 DEF Show, TypeOK, Stages
    <3>3. QED
      BY <2>23, <2>0, <3>1, <3>2 DEF Show, Holding, TypeOK, InUse, flight, dials, past
  <2>24. ASSUME Outgoing PROVE TypeOK'
    <3>1. pc' \in [Procs -> Stages]
      BY <2>24 DEF Outgoing, Goto, TypeOK, Stages, EndStages
    <3>2. QED
      BY <2>24, <2>0, <3>1 DEF Outgoing, Goto, Holding, TypeOK, InUse, desk, flight, dials, past
  <2>25. CASE UNCHANGED vars
    BY <2>25 DEF vars, desk, flight, dials, calls, past, TypeOK, InUse
  <2>26. QED
    BY <2>0, <2>1, <2>2, <2>3, <2>4, <2>5, <2>6, <2>7, <2>9, <2>10, <2>11, <2>12, <2>13, <2>14, <2>15,
       <2>16, <2>17, <2>18, <2>19, <2>21, <2>22, <2>23, <2>24, <2>25
       DEF Next, TurnStep, DoorStep, LoaderStep, Load
<1>3. QED
  BY <1>1, <1>2, PTL DEF Spec

-----------------------------------------------------------------------------
(* The steps that are no part of the time a turn is in flight.             *)
Aside ==
  \/ \E s \in Sends : Capture(s) \/ Narrow(s) \/ TurnBusy(s) \/ Land(s) \/ Leave(s)
  \/ \E p \in Procs, done \in {"idle", "leaving", "found"} : Swap(p, done)
  \/ \E p \in Procs : LetGo(p)
  \/ \E d \in Doors : Press(d) \/ LevelWaits(d) \/ LevelLive(d) \/ DoorApply(d)
  \/ CancelPending \/ Load \/ LoaderApply \/ Show \/ Outgoing
  \/ UNCHANGED vars

(* The turns that are in flight stay where they are.                       *)
Undisturbed ==
  /\ UNCHANGED flight
  /\ \A s \in Sends : InFlight(s)' <=> InFlight(s)
  /\ \A s \in Sends : InFlight(s) =>
       pc'[s] = pc[s] /\ target'[s] = target[s] /\ chatOf'[target[s]] = chatOf[target[s]]

(* Those steps disturb no turn in flight: a call that loads a chat uses an *)
(* object no turn refers to.                                               *)
LEMMA AsideIsAside == ASSUME TypeOK, TypeOK', Aside PROVE Undisturbed
<1>0. Sends \subseteq Procs /\ Doors \subseteq Procs /\ Loader \in Procs
      /\ Loader \notin Sends /\ Sends \cap Doors = {}
  BY GateAssumption DEF Procs
<1>1. CASE \E s \in Sends : Capture(s) \/ Narrow(s) \/ TurnBusy(s) \/ Leave(s)
  <2>1. PICK s \in Sends : Capture(s) \/ Narrow(s) \/ TurnBusy(s) \/ Leave(s)
    BY <1>1
  <2>2. CASE Capture(s)
    BY <1>0, <2>2 DEF Capture, Goto, Undisturbed, InFlight, TypeOK, desk, flight
  <2>3. CASE Narrow(s)
    BY <1>0, <2>3 DEF Narrow, Undisturbed, InFlight, desk, flight, calls
  <2>4. CASE TurnBusy(s)
    BY <1>0, <2>4 DEF TurnBusy, Goto, Holding, Undisturbed, InFlight, TypeOK, desk, flight
  <2>5. CASE Leave(s)
    BY <1>0, <2>5 DEF Leave, Holding, Undisturbed, InFlight, TypeOK, desk, flight
  <2>6. QED
    BY <2>1, <2>2, <2>3, <2>4, <2>5
<1>2. ASSUME NEW p \in Procs, NEW v \in Convs, NEW done \in {"idle", "leaving", "found"},
             pc[p] = "apply", Apply(p, v, done), UNCHANGED <<desk, flight>>
      PROVE  Undisturbed
  <2>1. /\ \A q \in Procs \ {p} : pc'[q] = pc[q] /\ target'[q] = target[q]
        /\ pc'[p] \in {done, "swap"}
    BY <1>2, ApplyTypes
  <2>2. QED
    BY <1>0, <1>2, <2>1 DEF Undisturbed, InFlight, desk, flight
<1>3. CASE \E s \in Sends : Land(s)
  <2>1. PICK s \in Sends : Land(s)
    BY <1>3
  <2>2. s \in Procs /\ target[s] \in Convs
    BY <2>1, <1>0, CallHolds DEF Land
  <2>3. QED
    BY <2>1, <2>2, <1>2 DEF Land
<1>4. CASE LoaderApply
  <2>1. target[Loader] \in Convs
    BY <1>4, <1>0, CallHolds, GateAssumption DEF LoaderApply
  <2>2. QED
    BY <1>4, <1>0, <2>1, <1>2 DEF LoaderApply
<1>5. CASE \E d \in Doors : DoorApply(d)
  <2>1. PICK d \in Doors : DoorApply(d)
    BY <1>5
  <2>2. (IF target[d] # None THEN target[d] ELSE open) \in Convs
    BY <1>0 DEF TypeOK
  <2>3. QED
    BY <2>1, <2>2, <1>0, <1>2 DEF DoorApply
<1>6. CASE \E p \in Procs, done \in {"idle", "leaving", "found"} : Swap(p, done)
  BY <1>0, <1>6 DEF Swap, Goto, Holding, Undisturbed, InFlight, TypeOK, desk, flight
<1>7. CASE \E p \in Procs : LetGo(p)
  BY <1>0, <1>7 DEF LetGo, Goto, Holding, Undisturbed, InFlight, TypeOK, flight
<1>8. CASE \E d \in Doors : Press(d)
  BY <1>0, <1>8 DEF Press, PressDial, PressLevel, PressRefresh, PressReload, Goto,
                    Undisturbed, InFlight, TypeOK, desk, flight
<1>9. CASE \E d \in Doors : LevelWaits(d) \/ LevelLive(d)
  BY <1>0, <1>9 DEF LevelWaits, LevelLive, Goto, Holding, Undisturbed, InFlight, TypeOK, desk, flight
<1>10. CASE CancelPending
  BY <1>10 DEF CancelPending, Undisturbed, InFlight, desk, flight, calls
<1>11. CASE Load
  <2>1. CASE \E c \in Chats : Attach(c)
    BY <1>0, <2>1 DEF Attach, Goto, Undisturbed, InFlight, TypeOK, desk, flight
  <2>2. ASSUME NEW c \in Chats, NEW v \in Convs, NEW f, Born(v, c, f) PROVE Undisturbed
    <3>1. \A s \in Sends : target[s] # v
      BY <1>0, <2>2 DEF Born, InUse
    <3>2. \A s \in Sends : pc'[s] = pc[s] /\ target'[s] = target[s]
      BY <1>0, <2>2 DEF Born, Goto, TypeOK
    <3>3. \A s \in Sends : InFlight(s) => target[s] \in Convs
      BY <1>0 DEF InFlight, TypeOK
    <3>4. QED
      BY <2>2, <3>1, <3>2, <3>3 DEF Born, Undisturbed, InFlight, TypeOK, flight
  <2>3. QED
    BY <1>11, <2>1, <2>2 DEF Load, Reopen, NewChat
<1>12. CASE Show
  BY <1>0, <1>12 DEF Show, Holding, Undisturbed, InFlight, TypeOK, flight
<1>13. CASE Outgoing
  BY <1>0, <1>13 DEF Outgoing, Goto, Holding, Undisturbed, InFlight, TypeOK, desk, flight
<1>14. CASE UNCHANGED vars
  BY <1>14 DEF vars, Undisturbed, InFlight, desk, flight, calls
<1>15. QED
  BY <1>1, <1>3, <1>4, <1>5, <1>6, <1>7, <1>8, <1>9, <1>10, <1>11, <1>12, <1>13, <1>14 DEF Aside

(* A turn in flight moves on, or it begins or ends, or Stop is pressed; or *)
(* the step is aside.                                                      *)
LEMMA StepsOfATurn ==
  ASSUME [Next]_vars
  PROVE  \/ Aside
         \/ \E s \in Sends : \/ Begin(s) \/ OpenTurn(s) \/ NotReady(s) \/ Arm(s) \/ Return(s)
                            \/ AppendTurn(s) \/ EndTurn(s)
         \/ CancelTurn \/ StopEverything
  <1>0. Sends \subseteq Procs /\ Doors \subseteq Procs /\ Loader \in Procs
    BY DEF Procs
  <1>1. QED
    BY <1>0 DEF Next, TurnStep, DoorStep, LoaderStep, Aside

(* The two things the rest of this module proves, made inductive. A turn   *)
(* that is not in flight has left no trace of itself; one that is not      *)
(* armed yet carries its Stop in stopEarly; one that works has a cancel    *)
(* function that a Stop finds.                                             *)
StopInv ==
  \A s \in Sends :
    /\ ~InFlight(s) => s \notin pressed \cup stopEarly \cup armed \cup cancelled
    /\ pc[s] \in {"begun", "opened"} => s \notin armed /\ (s \in pressed => s \in stopEarly)
    /\ pc[s] = "running" => s \in armed /\ (s \in pressed => s \in cancelled)
    /\ pc[s] \in {"answered", "ended"} => s \notin armed

LEMMA UndisturbedKeeps ==
  ASSUME TypeOK, TypeOK', OneTurn, StopInv, Undisturbed PROVE OneTurn' /\ StopInv'
<1>1. OneTurn'
  BY DEF OneTurn, Undisturbed, flight
<1>2. StopInv'
  BY DEF StopInv, Undisturbed, InFlight, flight
<1>3. QED
  BY <1>1, <1>2
(***************************************************************************)
(* beginTurn, endTurn and the map of turns: of the turns of a chat one at  *)
(* most is in flight, for any number of calls, chats and doors. Inductive  *)
(* with the types, which give each call in flight a chat of its own.       *)
(* Stop, in the gap too: StopInv carries it.                               *)
(***************************************************************************)
THEOREM GateInvariants == Spec => [](OneTurn /\ StopInv)
<1>1. Init => OneTurn /\ StopInv
  BY GateAssumption DEF Init, OneTurn, StopInv, InFlight, Procs
<1>2. TypeOK /\ TypeOK' /\ OneTurn /\ StopInv /\ [Next]_vars => (OneTurn /\ StopInv)'
  <2> SUFFICES ASSUME TypeOK, TypeOK', OneTurn, StopInv, [Next]_vars PROVE OneTurn' /\ StopInv'
    OBVIOUS
  <2>0. Sends \subseteq Procs /\ None \notin Sends /\ (None \notin Convs)
    BY GateAssumption DEF Procs
  <2>1. CASE Aside
    BY <2>1, AsideIsAside, UndisturbedKeeps
  <2>2. ASSUME NEW s \in Sends,
               \/ Begin(s) \/ OpenTurn(s) \/ NotReady(s) \/ Arm(s) \/ Return(s) \/ AppendTurn(s)
        PROVE  OneTurn' /\ StopInv'
    <3>1. /\ target' = target /\ chatOf' = chatOf
          /\ \A q \in Sends \ {s} : pc'[q] = pc[q]
      BY <2>0, <2>2 DEF Begin, OpenTurn, NotReady, Arm, Return, AppendTurn, Goto, TypeOK,
                        desk, flight, calls
    <3>2. target[s] \in Convs /\ chatOf[target[s]] \in Chats
      BY <2>0, <2>2, CallHolds DEF Begin, OpenTurn, NotReady, Arm, Return, AppendTurn, Goto
    <3>3. CASE Begin(s)
      BY <2>0, <3>1, <3>2, <3>3 DEF Begin, Goto, Running, OneTurn, StopInv, InFlight, TypeOK
    <3>4. CASE OpenTurn(s) \/ NotReady(s) \/ AppendTurn(s)
      BY <2>0, <3>1, <3>2, <3>4 DEF OpenTurn, NotReady, AppendTurn, Goto, OneTurn, StopInv, InFlight,
                                    TypeOK, flight
    <3>5. CASE Arm(s)
      BY <2>0, <3>1, <3>2, <3>5 DEF Arm, Goto, OneTurn, StopInv, InFlight, TypeOK
    <3>6. CASE Return(s)
      BY <2>0, <3>1, <3>2, <3>6 DEF Return, Goto, OneTurn, StopInv, InFlight, TypeOK
    <3>7. QED
      BY <2>2, <3>3, <3>4, <3>5, <3>6
  <2>3. ASSUME NEW s \in Sends, EndTurn(s) PROVE OneTurn' /\ StopInv'
    <3>1. target[s] \in Convs /\ chatOf[target[s]] \in Chats
      BY <2>0, <2>3, CallHolds DEF EndTurn
    <3>2. /\ \A q \in Sends \ {s} : pc'[q] = pc[q] /\ target'[q] = target[q]
          /\ pc'[s] \in {"apply", "leaving"} /\ chatOf' = chatOf
          /\ turns' = [turns EXCEPT ![chatOf[target[s]]] = None]
          /\ stopEarly' = stopEarly \ {s} /\ cancelled' = cancelled \ {s} /\ pressed' = pressed \ {s}
          /\ armed' = armed /\ pc[s] = "ended"
      BY <2>0, <2>3 DEF EndTurn, TypeOK, desk
    <3>3. OneTurn'
      BY <2>0, <3>1, <3>2 DEF OneTurn, InFlight, TypeOK
    <3>4. StopInv'
      BY <2>0, <3>2 DEF StopInv, InFlight
    <3>5. QED
      BY <3>3, <3>4
  <2>4. CASE CancelTurn \/ StopEverything
    <3>1. PICK h : Halt(h) /\ h \subseteq {turns[c] : c \in Chats} \ {None}
      BY <2>4, OnScreenIsChat DEF CancelTurn, StopEverything, Running
    <3>2. UNCHANGED <<pc, target, chatOf, turns, armed>>
      BY <2>4, <3>1 DEF CancelTurn, StopEverything, Halt, desk, calls
    <3>3. \A s \in Sends : s \in h => InFlight(s)
      BY <3>1 DEF OneTurn
    <3>4. OneTurn'
      BY <3>2 DEF OneTurn, InFlight
    <3>5. StopInv'
      BY <3>1, <3>2, <3>3 DEF Halt, StopInv, InFlight
    <3>6. QED
      BY <3>4, <3>5
  <2>5. QED
    BY <2>1, <2>2, <2>3, <2>4, StepsOfATurn
<1>3. QED
  BY <1>1, <1>2, GateTyping, PTL DEF Spec

(***************************************************************************)
(* A chat has one turn in flight at most, the one Engine.turns names.      *)
(***************************************************************************)
THEOREM GateOneTurn == Spec => []OneTurn
  BY GateInvariants, PTL

(***************************************************************************)
(* CancelTurn and armTurnCancel: whenever Stop is pressed, before the turn *)
(* has a cancel function or after, the turn works under an ended context.  *)
(***************************************************************************)
THEOREM GateStopReaches == Spec => []StopReaches
<1>1. StopInv => StopReaches
  BY DEF StopInv, StopReaches
<1>2. QED
  BY <1>1, GateInvariants, PTL

-----------------------------------------------------------------------------
(* The steps inside a turn in flight.                                      *)
InTurn(s) ==
  \/ OpenTurn(s) \/ NotReady(s) \/ Arm(s) \/ Return(s) \/ AppendTurn(s)

(* The calls are of three kinds, and None is none of what there is.        *)
LEMMA SerialKinds ==
  /\ Sends \subseteq Procs /\ Doors \subseteq Procs /\ Loader \in Procs
  /\ Loader \notin Sends /\ Loader \notin Doors /\ Sends \cap Doors = {}
  /\ None \notin Convs /\ None \notin Sends /\ None \notin Chats /\ None \notin Config
BY GateAssumption DEF Procs

-----------------------------------------------------------------------------
(* From here on the window waits for each of its calls (Serial); a turn's  *)
(* ending waits for nobody, and what it lets go of, lands or rebuilds      *)
(* falls between any two steps of a call. What is kept then:               *)

(* One call of the window is under way at most.                            *)
OneAwaited == \A p, q \in Procs : Awaited(p) /\ Awaited(q) => p = q

(* The map names conversations under their own chat.                       *)
Named == \A c \in Chats : byID[c] # None => chatOf[byID[c]] = c

(* A message on its way in, and a door, are in the chat on screen.         *)
OnDesk ==
  /\ \A s \in Sends : pc[s] = "captured" => target[s] = open
  /\ \A d \in Doors : target[d] \in {open, None} /\ (pc[d] = "idle" => target[d] = None)

(* The conversation on screen, and those turns work in or land in, are in  *)
(* the map, except in a dropped chat.                                      *)
InMap(v) == chatOf[v] \in dropped \/ byID[chatOf[v]] = v

Kept ==
  /\ InMap(open)
  /\ \A s \in Sends : InFlight(s) \/ pc[s] \in {"apply", "swap"} => InMap(target[s])

(* The chat that is opened is held by the object in hand or by none; the   *)
(* one that is let go of is not the one on screen, and nothing runs in it. *)
Opening ==
  /\ pc[Loader] \in {"apply", "swap", "found"} =>
       byID[chatOf[target[Loader]]] \in {None, target[Loader]}
  /\ pc[Loader] \in {"shown", "letting"} =>
       chatOf[target[Loader]] # OnScreen \/ OnScreen \in dropped
  /\ pc[Loader] = "letting" => ~Running(chatOf[target[Loader]])

(* What is parked is some chat's, and waits for a turn of it.              *)
Parked ==
  \A v \in Convs : pending[v] # None =>
    /\ chatOf[v] \in Chats
    /\ chatOf[v] \in dropped \/ (Running(chatOf[v]) /\ byID[chatOf[v]] = v)

SerialInv == OneAwaited /\ Named /\ OnDesk /\ Kept /\ Opening /\ Parked

(* A chat that was crossed or dropped stays so.                            *)
Longer == crossed \subseteq crossed' /\ dropped \subseteq dropped'

LEMMA HistoryGrows == ASSUME TypeOK, [Next]_vars PROVE Longer
<1>1. ASSUME NEW v, Crossing(v) \/ CrossingParked(v) PROVE crossed \subseteq crossed'
  BY <1>1 DEF Crossing, CrossingParked
<1>2. ASSUME NEW p, LetGo(p) PROVE Longer
  BY <1>2 DEF Longer, LetGo
<1>3. ASSUME NEW s \in Sends, EndTurn(s) PROVE Longer
  BY <1>1, <1>3 DEF Longer, EndTurn
<1>4. ASSUME NEW d \in Doors, Press(d) PROVE Longer
  BY <1>1, <1>4 DEF Longer, Press, PressDial, PressLevel, PressRefresh, PressReload
<1>5. CASE CancelPending
  BY <1>1, <1>5 DEF Longer, CancelPending
<1>6. CASE Load \/ LoaderStep
  BY <1>2, <1>6 DEF Longer, Load, Attach, Reopen, NewChat, Born, LoaderStep, LoaderApply, Swap, Show, Outgoing, past
<1>7. ASSUME NEW d \in Doors, DoorStep(d) PROVE Longer
  BY <1>7 DEF Longer, DoorStep, LevelWaits, LevelLive, DoorApply, Swap, past
<1>8. ASSUME NEW s \in Sends, Capture(s) \/ Narrow(s) \/ Return(s) \/ TurnStep(s)
      PROVE  Longer
  BY <1>2, <1>3, <1>8 DEF Longer, Capture, Narrow, Return, TurnStep, Begin, TurnBusy, OpenTurn, NotReady, Arm,
     AppendTurn, Land, Swap, Leave, past
<1>9. CASE CancelTurn \/ StopEverything \/ UNCHANGED vars
  BY <1>9 DEF Longer, CancelTurn, StopEverything, vars, past
<1>10. QED
  BY <1>4, <1>5, <1>6, <1>7, <1>8, <1>9 DEF Next

(* A turn in flight is the one its chat's entry names, and its             *)
(* conversation is the chat's.                                             *)
LEMMA TurnOfChat ==
  ASSUME TypeOK, OneTurn, NEW c \in Chats
  PROVE  /\ Running(c) => \E s \in Sends : InFlight(s) /\ chatOf[target[s]] = c
         /\ \A s \in Sends : InFlight(s) /\ chatOf[target[s]] = c => Running(c)
  BY SerialKinds DEF OneTurn, Running, TypeOK

(* Steps that leave the map, the turns and what is parked as they are, and *)
(* move no call but p.                                                     *)
LEMMA OneMoves ==
  ASSUME Serial, TypeOK, SerialInv, NEW p \in Procs,
         UNCHANGED <<open, byID, chatOf, turns>>, dropped \subseteq dropped',
         \A q \in Procs \ {p} : pc'[q] = pc[q] /\ target'[q] = target[q],
         \A v \in Convs : pending'[v] # None => pending[v] # None,
         Awaited(p)' => Awaited(p) \/ \A q \in Procs : ~Awaited(q),
         p \in Sends /\ pc'[p] = "captured" => target'[p] = open,
         p \in Doors => target'[p] \in {open, None} /\ (pc'[p] = "idle" => target'[p] = None),
         p \in Sends /\ (InFlight(p)' \/ pc'[p] \in {"apply", "swap"}) => InMap(target'[p]),
         p = Loader =>
           /\ pc'[p] \in {"apply", "swap", "found"} => byID[chatOf[target'[p]]] \in {None, target'[p]}
           /\ pc'[p] \in {"shown", "letting"} => chatOf[target'[p]] # OnScreen \/ OnScreen \in dropped
           /\ pc'[p] = "letting" => ~Running(chatOf[target'[p]])
  PROVE  SerialInv'
<1> USE SerialKinds DEF SerialInv
<1>1. OneAwaited'
  <2>1. \A q \in Procs \ {p} : Awaited(q)' = Awaited(q)
    BY DEF Awaited
  <2>2. QED
    BY <2>1 DEF OneAwaited
<1>2. Named' /\ Parked'
  BY DEF Named, Parked, Running
<1>3. OnDesk'
  BY DEF OnDesk
<1>4. Kept'
  BY DEF Kept, InMap, InFlight
<1>5. Opening'
  BY DEF Opening, OnScreen, Running
<1>6. QED
  BY <1>1, <1>2, <1>3, <1>4, <1>5

(* SendMessage: the turn works in the chat it was sent from.               *)
LEMMA TurnsKeepSerial ==
  ASSUME Serial, TypeOK, OneTurn, SerialInv, NEW s \in Sends, dropped \subseteq dropped',
         Capture(s) \/ Begin(s) \/ TurnBusy(s) \/ InTurn(s) \/ Narrow(s)
  PROVE  SerialInv'
<1> USE SerialKinds
<1>1. CASE Capture(s)
  <2>1. /\ \A q \in Procs : ~Awaited(q)
        /\ pc' = [pc EXCEPT ![s] = "captured"] /\ target' = [target EXCEPT ![s] = open]
        /\ UNCHANGED <<open, byID, chatOf, turns, pending>>
    BY <1>1 DEF Capture, Calm, Goto, desk, flight, dials
  <2>2. pc'[s] = "captured" /\ target'[s] = open /\ s # Loader /\ s \notin Doors
        /\ \A q \in Procs \ {s} : pc'[q] = pc[q] /\ target'[q] = target[q]
    BY <2>1 DEF TypeOK
  <2>3. QED
    BY <2>1, <2>2, OneMoves DEF InFlight
<1>2. CASE Begin(s)
  <2>1. target[s] = open /\ pc[s] = "captured" /\ Awaited(s)
    BY <1>2 DEF Begin, Goto, SerialInv, OnDesk, Awaited
  <2>2. /\ pc' = [pc EXCEPT ![s] = "begun"] /\ turns' = [turns EXCEPT ![OnScreen] = s]
        /\ UNCHANGED <<open, byID, chatOf, pending, target>>
    BY <1>2, <2>1 DEF Begin, Goto, desk, dials, OnScreen
  <2>3. \A p \in Procs \ {s} : ~Awaited(p)
    BY <2>1 DEF SerialInv, OneAwaited
  <2>4. OnScreen \in Chats /\ pc[Loader] = "idle"
    BY <2>3, OnScreenIsChat DEF Awaited
  <2>5. OneAwaited' /\ Named' /\ OnDesk'
    BY <2>2, <2>3 DEF SerialInv, OneAwaited, Awaited, Named, OnDesk, TypeOK
  <2>6. Kept' /\ Opening'
    BY <2>1, <2>2, <2>4 DEF SerialInv, Kept, InMap, InFlight, Opening, TypeOK
  <2>7. Parked'
    BY <2>2, <2>4 DEF SerialInv, Parked, Running, TypeOK
  <2>8. QED
    BY <2>5, <2>6, <2>7 DEF SerialInv
<1>3. CASE TurnBusy(s)
  <2>1. /\ pc' = [pc EXCEPT ![s] = "idle"] /\ target' = [target EXCEPT ![s] = None]
        /\ UNCHANGED <<open, byID, chatOf, turns, pending>>
    BY <1>3 DEF TurnBusy, Goto, Holding, desk, flight, dials
  <2>2. pc'[s] = "idle" /\ s # Loader /\ s \notin Doors
        /\ \A q \in Procs \ {s} : pc'[q] = pc[q] /\ target'[q] = target[q]
    BY <2>1 DEF TypeOK
  <2>3. QED
    BY <2>1, <2>2, OneMoves DEF InFlight, Awaited
<1>4. CASE InTurn(s)
  <2>1. /\ InFlight(s) /\ InFlight(s)' /\ pc'[s] # "captured" /\ s # Loader /\ s \notin Doors
        /\ \A p \in Procs \ {s} : pc'[p] = pc[p]
        /\ UNCHANGED <<open, byID, chatOf, turns, pending, target>>
    BY <1>4 DEF InTurn, OpenTurn, NotReady, Arm, Return, AppendTurn, Goto, TypeOK, InFlight,
                desk, flight, dials, calls
  <2>2. InMap(target[s]) /\ ~Awaited(s)'
    BY <2>1 DEF SerialInv, Kept, Awaited, InFlight
  <2>3. QED
    BY <2>1, <2>2, OneMoves DEF InFlight
<1>5. CASE Narrow(s)
  <2>1. UNCHANGED <<open, byID, chatOf, turns, pending, pc, target>>
    BY <1>5 DEF Narrow, desk, flight, calls
  <2>2. QED
    BY <2>1 DEF SerialInv, OneAwaited, Awaited, Named, OnDesk, Kept, InMap, InFlight, Opening, Parked,
       OnScreen, Running
<1>6. QED
  BY <1>1, <1>2, <1>3, <1>4, <1>5

(* endTurn: what was parked in the chat goes with the turn that ends.      *)
LEMMA EndKeepsSerial ==
  ASSUME Serial, TypeOK, OneTurn, SerialInv, NEW s \in Sends, EndTurn(s), dropped \subseteq dropped'
  PROVE  SerialInv'
<1> DEFINE c == chatOf[target[s]]
           v == byID[c]
<1> USE SerialKinds
<1>1. target[s] \in Convs /\ c \in Chats /\ v \in Convs \cup {None} /\ pc[s] = "ended"
  BY CallHolds DEF EndTurn, TypeOK
<1>2. v # None => chatOf[v] = c
  BY <1>1 DEF SerialInv, Named
<1>3. /\ turns' = [turns EXCEPT ![c] = None]
      /\ pending' = IF v # None THEN [pending EXCEPT ![v] = None] ELSE pending
      /\ pc'[s] \in {"apply", "leaving"}
      /\ pc'[s] = "apply" => v # None /\ target'[s] = v
      /\ \A p \in Procs \ {s} : pc'[p] = pc[p] /\ target'[p] = target[p]
      /\ UNCHANGED <<open, byID, chatOf>>
  BY <1>1 DEF EndTurn, TypeOK, desk
<1> HIDE DEF c, v
<1>4. OneAwaited' /\ OnDesk' /\ Named'
  BY <1>1, <1>3 DEF SerialInv, OneAwaited, OnDesk, Named, Awaited
<1>5. Kept'
  BY <1>1, <1>2, <1>3 DEF SerialInv, Kept, InMap, InFlight, v
<1>6. Opening'
  <2>1. pc[Loader] = "letting" => chatOf[target[Loader]] \in Chats
    BY CallHolds
  <2>2. QED
    BY <1>1, <1>3, <2>1 DEF SerialInv, Opening, Running, OnScreen, TypeOK
<1>7. Parked'
  <2>1. SUFFICES ASSUME NEW u \in Convs, pending'[u] # None
                 PROVE  /\ chatOf[u] \in Chats
                        /\ chatOf[u] \in dropped \/ (turns'[chatOf[u]] # None /\ byID[chatOf[u]] = u)
    BY <1>3 DEF Parked, Running
  <2>2. pending[u] # None /\ u # v
    BY <1>1, <1>3, <2>1 DEF TypeOK
  <2>3. chatOf[u] \in Chats /\ (chatOf[u] \in dropped \/ (turns[chatOf[u]] # None /\ byID[chatOf[u]] = u))
    BY <2>2 DEF SerialInv, Parked, Running
  <2>4. chatOf[u] = c => chatOf[u] \in dropped
    BY <2>2, <2>3 DEF v
  <2>5. QED
    BY <1>1, <1>3, <2>3, <2>4 DEF TypeOK
<1>8. QED
  BY <1>4, <1>5, <1>6, <1>7 DEF SerialInv

(* applyConfig parks only where a turn works and the map holds the         *)
(* conversation, and else claims it for the rebuild.                       *)
LEMMA ApplyKeepsSerial ==
  ASSUME Serial, TypeOK, OneTurn, SerialInv, NEW p \in Procs, NEW v \in Convs,
         NEW done \in {"idle", "leaving", "found"}, dropped' = dropped,
         pc[p] = "apply", Apply(p, v, done), UNCHANGED <<open, byID, chatOf, turns>>,
         p \in Doors => v = open /\ done = "idle",
         p \in Sends => v = target[p] /\ done = "leaving",
         p = Loader => v = target[p] /\ done = "found"
  PROVE  SerialInv'
<1> USE SerialKinds
<1>0. p \in Doors \/ p \in Sends \/ p = Loader
  BY DEF Procs
<1>1. chatOf[v] \in Chats /\ v # None
  BY <1>0, CallHolds DEF TypeOK, InUse
<1>2. /\ \A q \in Procs \ {p} : pc'[q] = pc[q] /\ target'[q] = target[q]
      /\ pc'[p] \in {done, "swap"} /\ (pc'[p] # "idle" => target'[p] = v)
      /\ pc'[p] = "idle" => target'[p] = None
  BY ApplyTypes
<1>3. \A q \in Procs : Awaited(q)' => Awaited(q)
  BY <1>0, <1>2 DEF Awaited
<1>4. OneAwaited' /\ Named'
  BY <1>3 DEF SerialInv, OneAwaited, Named
<1>5. OnDesk'
  BY <1>0, <1>2 DEF SerialInv, OnDesk
<1>6. Kept'
  BY <1>0, <1>2 DEF SerialInv, Kept, InMap, InFlight
<1>7. Opening'
  BY <1>0, <1>2 DEF SerialInv, Opening, OnScreen, Running
<1>8. InMap(v) \/ ~Running(chatOf[v])
  <2>1. CASE p \in Doors \/ p \in Sends
    BY <2>1 DEF SerialInv, Kept
  <2>2. CASE p = Loader
    <3>1. byID[chatOf[v]] \in {None, v}
      BY <2>2 DEF SerialInv, Opening
    <3>2. ASSUME Running(chatOf[v]) PROVE InMap(v)
      <4>1. PICK s \in Sends : InFlight(s) /\ chatOf[target[s]] = chatOf[v]
        BY <1>1, <3>2, TurnOfChat
      <4>2. InMap(target[s]) /\ target[s] \in Convs
        BY <4>1, CallHolds DEF SerialInv, Kept, InFlight
      <4>3. QED
        BY <3>1, <4>1, <4>2 DEF InMap
    <3>3. QED
      BY <3>2
  <2>3. QED
    BY <1>0, <2>1, <2>2
<1>9. Parked'
  <2>1. CASE Running(chatOf[v])
    <3>1. pending' = [pending EXCEPT ![v] = carry[p]]
      BY <2>1 DEF Apply
    <3>2. QED
      BY <1>1, <1>8, <2>1, <3>1 DEF SerialInv, Parked, InMap, Running, TypeOK
  <2>2. CASE ~Running(chatOf[v])
    <3>1. pending' = [pending EXCEPT ![v] = None]
      BY <2>2 DEF Apply
    <3>2. QED
      BY <3>1 DEF SerialInv, Parked, Running, TypeOK
  <2>3. QED
    BY <2>1, <2>2
<1>10. QED
  BY <1>4, <1>5, <1>6, <1>7, <1>9 DEF SerialInv

(* letGoOf. What it takes out of the map is dropped, if anybody works in   *)
(* it, lands in it or looks at it: a turn's ending asks for none of these  *)
(* again, and the opening of a chat has nobody begin a turn under it.      *)
LEMMA LetGoKeepsSerial ==
  ASSUME Serial, TypeOK, OneTurn, SerialInv, NEW p \in Sends \cup {Loader}, LetGo(p),
         dropped \subseteq dropped'
  PROVE  SerialInv'
<1> DEFINE c == chatOf[target[p]]
<1> USE SerialKinds
<1>1. p \in Procs /\ c \in Chats /\ pc[p] = "letting"
  BY CallHolds DEF LetGo, Goto
<1>2. /\ pc' = [pc EXCEPT ![p] = "idle"] /\ target' = [target EXCEPT ![p] = None]
      /\ byID' = [byID EXCEPT ![c] = None]
      /\ UNCHANGED <<open, chatOf, turns, pending>>
  BY DEF LetGo, Goto, Holding, flight, dials
<1>3. Running(c) \/ c = OnScreen => c \in dropped'
  <2>1. CASE p \in Sends
    BY <2>1 DEF LetGo
  <2>2. CASE p = Loader
    BY <1>1, <2>2 DEF SerialInv, Opening
  <2>3. QED
    BY <2>1, <2>2
<1>4. ASSUME NEW s \in Sends, InFlight(s) \/ pc[s] \in {"apply", "swap"}, chatOf[target[s]] = c
      PROVE  c \in dropped'
  <2>1. CASE InFlight(s)
    BY <1>1, <1>3, <1>4, <2>1, TurnOfChat
  <2>2. CASE pc[s] \in {"apply", "swap"}
    BY <1>4, <2>2 DEF LetGo, Brings
  <2>3. QED
    BY <1>4, <2>1, <2>2
<1> HIDE DEF c
<1>5. /\ pc'[p] = "idle" /\ target'[p] = None
      /\ \A q \in Procs \ {p} : pc'[q] = pc[q] /\ target'[q] = target[q]
      /\ \A b \in Chats : byID'[b] = IF b = c THEN None ELSE byID[b]
  BY <1>1, <1>2 DEF TypeOK
<1>6. OneAwaited' /\ OnDesk'
  BY <1>1, <1>2, <1>5 DEF SerialInv, OneAwaited, Awaited, OnDesk
<1>7. Named'
  BY <1>2, <1>5 DEF SerialInv, Named
<1>8. Kept'
  <2>1. InMap(open)'
    <3>1. chatOf[open] \in Chats
      BY OnScreenIsChat DEF OnScreen
    <3>2. QED
      BY <1>2, <1>3, <1>5, <3>1 DEF SerialInv, Kept, InMap, OnScreen
  <2>2. ASSUME NEW s \in Sends, (InFlight(s) \/ pc[s] \in {"apply", "swap"})'
        PROVE  InMap(target[s])'
    <3>1. s # p /\ pc'[s] = pc[s] /\ target'[s] = target[s]
      BY <1>1, <1>5, <2>2 DEF InFlight
    <3>2. InFlight(s) \/ pc[s] \in {"apply", "swap"}
      BY <2>2, <3>1 DEF InFlight
    <3>3. chatOf[target[s]] \in Chats /\ InMap(target[s])
      BY <3>2, CallHolds DEF SerialInv, Kept, InFlight
    <3>4. CASE chatOf[target[s]] = c
      BY <1>2, <1>4, <3>1, <3>2, <3>4 DEF InMap
    <3>5. CASE chatOf[target[s]] # c
      BY <1>2, <1>5, <3>1, <3>3, <3>5 DEF InMap
    <3>6. QED
      BY <3>4, <3>5
  <2>3. QED
    BY <2>1, <2>2 DEF Kept
<1>9. Opening'
  <2>1. pc[Loader] # "idle" => chatOf[target[Loader]] \in Chats
    BY CallHolds
  <2>2. QED
    BY <1>2, <1>5, <2>1 DEF SerialInv, Opening, OnScreen, Running
<1>10. Parked'
  BY <1>1, <1>2, <1>3, <1>5 DEF SerialInv, Parked, Running
<1>11. QED
  BY <1>6, <1>7, <1>8, <1>9, <1>10 DEF SerialInv

(* The rest of a call: the rebuild, and the end of a turn or of a load.    *)
LEMMA RestKeepsSerial ==
  ASSUME Serial, TypeOK, OneTurn, SerialInv, NEW p \in Procs, dropped \subseteq dropped',
         \/ p \in Sends /\ (Swap(p, "leaving") \/ Leave(p))
         \/ p \in Doors /\ (Swap(p, "idle") \/ LevelWaits(p) \/ LevelLive(p))
         \/ p = Loader /\ (Swap(p, "found") \/ Outgoing)
  PROVE  SerialInv'
<1> USE SerialKinds
<1>1. ASSUME NEW done \in {"leaving", "idle", "found"}, Swap(p, done),
             \/ p \in Sends /\ done = "leaving"
             \/ p \in Doors /\ done = "idle"
             \/ p = Loader /\ done = "found"
      PROVE  SerialInv'
  <2>1. /\ pc[p] = "swap" /\ pc'[p] = done /\ target'[p] \in {target[p], None}
        /\ done = "idle" => target'[p] = None
        /\ done = "found" => target'[p] = target[p]
        /\ \A q \in Procs \ {p} : pc'[q] = pc[q] /\ target'[q] = target[q]
        /\ UNCHANGED <<open, byID, chatOf, turns, pending>>
    BY <1>1 DEF Swap, Goto, Holding, TypeOK, desk, flight
  <2>2. Awaited(p)' => Awaited(p)
    BY <1>1, <2>1 DEF Awaited
  <2>3. p = Loader => byID[chatOf[target[p]]] \in {None, target[p]}
    BY <2>1 DEF SerialInv, Opening
  <2>4. p \in Doors => target[p] \in {open, None}
    BY DEF SerialInv, OnDesk
  <2>5. QED
    BY <1>1, <2>1, <2>2, <2>3, <2>4, OneMoves DEF InFlight
<1>2. CASE p \in Sends /\ Leave(p)
  <2>1. /\ pc[p] = "leaving" /\ pc'[p] \in {"letting", "idle"} /\ p # Loader /\ p \notin Doors
        /\ \A q \in Procs \ {p} : pc'[q] = pc[q] /\ target'[q] = target[q]
        /\ UNCHANGED <<open, byID, chatOf, turns, pending>>
    BY <1>2 DEF Leave, Holding, TypeOK, desk, flight, dials
  <2>2. ~Awaited(p)'
    BY <1>2, <2>1 DEF Awaited
  <2>3. QED
    BY <2>1, <2>2, OneMoves DEF InFlight
<1>3. CASE p \in Doors /\ LevelWaits(p)
  <2>1. /\ pc[p] = "same" /\ pc'[p] = "apply" /\ p # Loader /\ p \notin Sends
        /\ \A q \in Procs \ {p} : pc'[q] = pc[q]
        /\ UNCHANGED <<open, byID, chatOf, turns, pending, target>>
    BY <1>3 DEF LevelWaits, Goto, TypeOK, desk, flight, dials
  <2>2. Awaited(p) /\ target[p] \in {open, None}
    BY <2>1 DEF Awaited, SerialInv, OnDesk
  <2>3. QED
    BY <2>1, <2>2, OneMoves
<1>4. CASE p \in Doors /\ LevelLive(p)
  <2>0. pc[p] = "same" /\ target[p] \in Convs
    BY <1>4 DEF LevelLive, Goto, TypeOK
  <2>1. /\ pc'[p] = "idle" /\ target'[p] = None /\ p # Loader /\ p \notin Sends
        /\ \A q \in Procs \ {p} : pc'[q] = pc[q] /\ target'[q] = target[q]
        /\ \A v \in Convs : pending'[v] # None => pending[v] # None
        /\ UNCHANGED <<open, byID, chatOf, turns>>
    BY <1>4, <2>0 DEF LevelLive, Goto, Holding, TypeOK, desk, flight
  <2>2. ~Awaited(p)'
    BY <2>1 DEF Awaited
  <2>3. QED
    BY <2>1, <2>2, OneMoves
<1>5. CASE p = Loader /\ Outgoing
  <2>1. /\ pc[p] = "shown" /\ pc'[p] \in {"idle", "letting"}
        /\ pc'[p] = "letting" => target'[p] = target[p] /\ ~Running(chatOf[target[p]])
        /\ \A q \in Procs \ {p} : pc'[q] = pc[q] /\ target'[q] = target[q]
        /\ UNCHANGED <<open, byID, chatOf, turns, pending>>
    BY <1>5 DEF Outgoing, Goto, Holding, TypeOK, desk, flight, dials
  <2>2. Awaited(p) /\ p \notin Sends /\ p \notin Doors
    BY <1>5, <2>1 DEF Awaited
  <2>3. chatOf[target[p]] # OnScreen \/ OnScreen \in dropped
    BY <1>5, <2>1 DEF SerialInv, Opening
  <2>4. QED
    BY <1>5, <2>1, <2>2, <2>3, OneMoves
<1>6. CASE p \in Sends /\ Swap(p, "leaving")
  BY <1>1, <1>6
<1>7. CASE p \in Doors /\ Swap(p, "idle")
  BY <1>1, <1>7
<1>8. CASE p = Loader /\ Swap(p, "found")
  BY <1>1, <1>8
<1>9. QED
  BY <1>2, <1>3, <1>4, <1>5, <1>6, <1>7, <1>8

(* A door starts in a calm moment.                                         *)
LEMMA PressKeepsSerial ==
  ASSUME Serial, TypeOK, OneTurn, SerialInv, NEW d \in Doors, Press(d), dropped \subseteq dropped'
  PROVE  SerialInv'
<1> USE SerialKinds
<1>1. /\ pc[d] = "idle" /\ \A p \in Procs : ~Awaited(p)
      /\ pc'[d] \in {"same", "apply"} /\ target'[d] \in {open, target[d]}
      /\ \A p \in Procs \ {d} : pc'[p] = pc[p] /\ target'[p] = target[p]
      /\ UNCHANGED <<open, byID, chatOf, turns, pending>>
  BY DEF Press, PressDial, PressLevel, PressRefresh, PressReload, Calm, Goto, TypeOK, desk, flight, dials
<1>2. target[d] = None /\ d # Loader /\ d \notin Sends
  BY <1>1 DEF SerialInv, OnDesk
<1>3. QED
  BY <1>1, <1>2, OneMoves

(* A chat is opened only by an object nobody is in, or by the one the map  *)
(* names.                                                                  *)
LEMMA LoadKeepsSerial ==
  ASSUME Serial, TypeOK, OneTurn, SerialInv, Load, dropped \subseteq dropped'
  PROVE  SerialInv'
<1> USE SerialKinds
<1>1. ASSUME NEW c \in Chats, Attach(c)
      PROVE  SerialInv'
  <2>1. /\ \A p \in Procs : ~Awaited(p)
        /\ pc'[Loader] = "found" /\ target'[Loader] = byID[c]
        /\ \A p \in Procs \ {Loader} : pc'[p] = pc[p] /\ target'[p] = target[p]
        /\ byID[c] # None /\ UNCHANGED <<open, byID, chatOf, turns, pending>>
    BY <1>1 DEF Attach, Calm, Goto, TypeOK, desk, flight, dials
  <2>2. chatOf[byID[c]] = c
    BY <2>1 DEF SerialInv, Named
  <2>3. QED
    BY <2>1, <2>2, OneMoves
<1>2. ASSUME NEW c \in Chats, NEW v \in Convs, NEW f, Born(v, c, f), byID[c] = None,
             \A p \in Procs : ~Awaited(p)
      PROVE  SerialInv'
  <2>1. /\ v # open /\ \A b \in Chats : byID[b] # v
        /\ \A p \in Procs : target[p] # v
    BY <1>2 DEF Born, InUse
  <2>2. /\ chatOf' = [chatOf EXCEPT ![v] = c] /\ pending' = [pending EXCEPT ![v] = None]
        /\ pc'[Loader] = "apply" /\ target'[Loader] = v
        /\ \A p \in Procs \ {Loader} : pc'[p] = pc[p] /\ target'[p] = target[p]
        /\ UNCHANGED <<open, byID, turns>>
    BY <1>2 DEF Born, Goto, TypeOK, flight
  <2>3. \A p \in Procs \ {Loader} : target[p] \in Convs => chatOf'[target[p]] = chatOf[target[p]]
    BY <2>1, <2>2 DEF TypeOK
  <2>4. OneAwaited'
    BY <1>2, <2>2 DEF OneAwaited, Awaited
  <2>5. Named' /\ OnDesk'
    BY <2>1, <2>2 DEF SerialInv, Named, OnDesk, TypeOK
  <2>6. Kept'
    <3>1. InMap(open)'
      BY <2>1, <2>2 DEF SerialInv, Kept, InMap, TypeOK
    <3>2. ASSUME NEW s \in Sends, (InFlight(s) \/ pc[s] \in {"apply", "swap"})'
          PROVE  InMap(target[s])'
      <4>1. s # Loader /\ (InFlight(s) \/ pc[s] \in {"apply", "swap"}) /\ target'[s] = target[s]
        BY <2>2, <3>2 DEF InFlight
      <4>2. InMap(target[s]) /\ target[s] \in Convs
        BY <4>1, CallHolds DEF SerialInv, Kept, InFlight
      <4>3. QED
        BY <2>2, <2>3, <4>1, <4>2 DEF InMap
    <3>3. QED
      BY <3>1, <3>2 DEF Kept
  <2>7. Opening'
    BY <1>2, <2>1, <2>2 DEF Opening, TypeOK
  <2>8. Parked'
    BY <2>1, <2>2 DEF SerialInv, Parked, Running, TypeOK
  <2>9. QED
    BY <2>4, <2>5, <2>6, <2>7, <2>8 DEF SerialInv
<1>3. ASSUME NEW c \in Chats, NEW v \in Convs, Reopen(c, v) \/ NewChat(c, v)
      PROVE  SerialInv'
  <2>1. byID[c] = None
    <3>1. CASE Reopen(c, v)
      BY <3>1 DEF Reopen
    <3>2. CASE NewChat(c, v)
      <4>1. byID[c] # None => byID[c] \in Convs /\ InUse(byID[c]) /\ chatOf[byID[c]] = c
        BY DEF TypeOK, InUse, SerialInv, Named
      <4>2. QED
        BY <3>2, <4>1 DEF NewChat
    <3>3. QED
      BY <1>3, <3>1, <3>2
  <2>2. \A p \in Procs : ~Awaited(p)
    BY <1>3 DEF Reopen, NewChat, Calm
  <2>3. QED
    BY <1>2, <1>3, <2>1, <2>2 DEF Reopen, NewChat
<1>4. QED
  BY <1>1, <1>3 DEF Load

(* showConversation: the chat that left the screen is another one.         *)
LEMMA ShowKeepsSerial ==
  ASSUME Serial, TypeOK, OneTurn, SerialInv, Show
  PROVE  SerialInv'
<1> DEFINE v == target[Loader]
           c == chatOf[v]
<1> USE SerialKinds
<1>1. /\ v \in Convs /\ c \in Chats /\ Awaited(Loader)
      /\ \A p \in Procs \ {Loader} : ~Awaited(p)
  BY CallHolds DEF Show, SerialInv, OneAwaited, Awaited
<1>2. /\ open' = v /\ byID' = [byID EXCEPT ![c] = v]
      /\ pc'[Loader] = IF open = v THEN "idle" ELSE "shown"
      /\ target'[Loader] = IF open = v THEN None ELSE open
      /\ \A p \in Procs \ {Loader} : pc'[p] = pc[p] /\ target'[p] = target[p]
      /\ UNCHANGED <<chatOf, turns, pending, dropped>>
  BY DEF Show, Holding, TypeOK, flight, dials, past
<1>3. byID[c] \in {None, v}
  BY DEF Show, SerialInv, Opening
<1>4. open # v /\ chatOf[open] = c => c \in dropped
  BY <1>3 DEF SerialInv, Kept, InMap, TypeOK
<1> HIDE DEF c, v
<1>5. OneAwaited' /\ OnDesk'
  <2>1. \A p \in Procs \ {Loader} : ~Awaited(p)'
    BY <1>1, <1>2 DEF Awaited
  <2>2. OneAwaited'
    BY <2>1 DEF OneAwaited
  <2>3. ASSUME NEW s \in Sends PROVE pc'[s] # "captured"
    BY <2>1 DEF Awaited
  <2>4. ASSUME NEW d \in Doors PROVE pc'[d] = "idle" /\ target'[d] = None
    BY <1>1, <1>2 DEF Awaited, SerialInv, OnDesk
  <2>5. QED
    BY <2>2, <2>3, <2>4 DEF OnDesk
<1>6. Named'
  BY <1>1, <1>2 DEF SerialInv, Named, TypeOK, c
<1>7. Opening'
  BY <1>1, <1>2, <1>4 DEF Opening, OnScreen, c
<1>8. Kept'
  <2>1. InMap(open)'
    BY <1>1, <1>2 DEF InMap, TypeOK, c
  <2>2. ASSUME NEW s \in Sends, (InFlight(s) \/ pc[s] \in {"apply", "swap"})'
        PROVE  InMap(target[s])'
    <3>1. (InFlight(s) \/ pc[s] \in {"apply", "swap"}) /\ target'[s] = target[s]
      BY <1>2, <2>2 DEF InFlight
    <3>2. InMap(target[s]) /\ target[s] \in Convs /\ chatOf[target[s]] \in Chats
      BY <3>1, CallHolds DEF SerialInv, Kept, InFlight
    <3>3. CASE chatOf[target[s]] = c
      BY <1>1, <1>2, <1>3, <3>1, <3>2, <3>3 DEF InMap, TypeOK
    <3>4. CASE chatOf[target[s]] # c
      BY <1>1, <1>2, <3>1, <3>2, <3>4 DEF InMap, TypeOK
    <3>5. QED
      BY <3>3, <3>4
  <2>3. QED
    BY <2>1, <2>2 DEF Kept
<1>9. Parked'
  BY <1>1, <1>2, <1>3 DEF SerialInv, Parked, Running, TypeOK
<1>10. QED
  BY <1>5, <1>6, <1>7, <1>8, <1>9 DEF SerialInv

(* CancelPendingModel and Stop move no call.                               *)
LEMMA CancelKeepsSerial ==
  ASSUME Serial, TypeOK, SerialInv, CancelPending \/ CancelTurn \/ StopEverything \/ UNCHANGED vars,
         dropped \subseteq dropped'
  PROVE  SerialInv'
<1>1. /\ UNCHANGED <<open, byID, chatOf, turns, pc, target>>
      /\ \A v \in Convs : pending'[v] # None => pending[v] # None
  BY DEF CancelPending, CancelTurn, StopEverything, Halt, vars, TypeOK, desk, flight, dials, calls
<1>2. QED
  BY <1>1 DEF SerialInv, OneAwaited, Awaited, Named, OnDesk, Kept, InMap, InFlight, Opening, Parked,
     OnScreen, Running

(***************************************************************************)
(* What is kept while the window waits for each of its calls and the       *)
(* endings of turns fall between their steps: inductive with the types and *)
(* with one turn in flight in a chat.                                      *)
(***************************************************************************)
THEOREM GateSerially == ASSUME Serial PROVE Spec => []SerialInv
<1>1. Init => SerialInv
  <2>1. SUFFICES ASSUME Init PROVE SerialInv
    OBVIOUS
  <2>2. PICK c0 \in Chats, v0 \in Convs :
          /\ open = v0
          /\ byID = [c \in Chats |-> IF c = c0 THEN v0 ELSE None]
          /\ chatOf = [v \in Convs |-> IF v = v0 THEN c0 ELSE None]
          /\ pending = [v \in Convs |-> None]
          /\ pc = [p \in Procs |-> "idle"]
          /\ target = [p \in Procs |-> None]
    BY <2>1 DEF Init
  <2>3. QED
    BY <2>2, SerialKinds DEF SerialInv, OneAwaited, Awaited, Named, OnDesk, Kept, InMap, InFlight,
       Opening, Parked
<1>2. TypeOK /\ TypeOK' /\ OneTurn /\ SerialInv /\ [Next]_vars => SerialInv'
  <2> SUFFICES ASSUME TypeOK, TypeOK', OneTurn, SerialInv, [Next]_vars PROVE SerialInv'
    OBVIOUS
  <2> USE SerialKinds
  <2>0. dropped \subseteq dropped'
    BY HistoryGrows DEF Longer
  <2>1. ASSUME NEW s \in Sends, Land(s) PROVE SerialInv'
    <3>1. s \in Procs /\ target[s] \in Convs
      BY <2>1, CallHolds DEF Land
    <3>2. QED
      BY <2>1, <3>1, ApplyKeepsSerial DEF Land, desk, flight, past
  <2>2. CASE LoaderApply
    <3>1. target[Loader] \in Convs
      BY <2>2, CallHolds DEF LoaderApply
    <3>2. QED
      BY <2>2, <3>1, ApplyKeepsSerial DEF LoaderApply, desk, flight, past
  <2>3. ASSUME NEW d \in Doors, DoorApply(d) PROVE SerialInv'
    <3>1. (IF target[d] # None THEN target[d] ELSE open) = open /\ open \in Convs
      BY DEF SerialInv, OnDesk, TypeOK
    <3>2. QED
      BY <2>3, <3>1, ApplyKeepsSerial DEF DoorApply, desk, flight, past
  <2>4. ASSUME NEW s \in Sends, Capture(s) \/ Narrow(s) \/ Return(s) \/ TurnStep(s) PROVE SerialInv'
    BY <2>0, <2>1, <2>4, TurnsKeepSerial, EndKeepsSerial, RestKeepsSerial, LetGoKeepsSerial
       DEF TurnStep, InTurn
  <2>5. ASSUME NEW d \in Doors, Press(d) \/ DoorStep(d) PROVE SerialInv'
    BY <2>0, <2>3, <2>5, PressKeepsSerial, RestKeepsSerial DEF DoorStep
  <2>6. CASE Load \/ LoaderStep
    BY <2>0, <2>2, <2>6, LoadKeepsSerial, ShowKeepsSerial, RestKeepsSerial, LetGoKeepsSerial DEF LoaderStep
  <2>7. CASE CancelPending \/ CancelTurn \/ StopEverything \/ UNCHANGED vars
    BY <2>0, <2>7, CancelKeepsSerial
  <2>8. QED
    BY <2>4, <2>5, <2>6, <2>7 DEF Next
<1>3. QED
  BY <1>1, <1>2, GateTyping, GateOneTurn, PTL DEF Spec

(***************************************************************************)
(* showConversation and letGoOf: a chat that is opened, left or opened     *)
(* again while it works keeps its conversation in the map until its turn   *)
(* is over, unless the chat was let go of by the late ending of a turn, or *)
(* while a turn landed a configuration in it.                              *)
(***************************************************************************)
THEOREM GateHoldsUnlessDropped == ASSUME Serial PROVE Spec => []HeldUnlessDropped
<1>1. SerialInv => HeldUnlessDropped
  BY DEF SerialInv, Kept, InMap, HeldUnlessDropped
<1>2. QED
  BY <1>1, GateSerially, PTL

(***************************************************************************)
(* applyConfig and endTurn: what is parked has a turn that will land it,   *)
(* whatever chats are opened and left while turns end and land, in every   *)
(* chat that was not let go of late.                                       *)
(***************************************************************************)
THEOREM GateStrandsOnlyDropped == ASSUME Serial PROVE Spec => []StrandedWasDropped
<1>1. SerialInv => StrandedWasDropped
  BY DEF SerialInv, Parked, StrandedWasDropped
<1>2. QED
  BY <1>1, GateSerially, PTL
-----------------------------------------------------------------------------
(* A configuration that is for a chat, wherever it is kept, names a model  *)
(* that was chosen there.                                                  *)
AsPicked ==
  /\ \A v \in Convs : InUse(v) => cfg[v].model \in picked[chatOf[v]]
  /\ \A v \in Convs : InUse(v) /\ pending[v] # None => pending[v].model \in picked[chatOf[v]]
  /\ \A p \in Procs : Brings(p) => carry[p].model \in picked[chatOf[For(p)]]
  /\ \A c \in Chats : row[c] # None => row[c].model \in picked[c]

(* What a dial that is put changes, and what it leaves.                    *)
LEMMA PutConfig ==
  ASSUME NEW f \in Config
  PROVE  /\ \A m \in Models : [f EXCEPT !.model = m].model = m
         /\ \A l \in Levels : [f EXCEPT !.level = l].model = f.model
         /\ \A l \in Levels, g \in Config :
              g.model = f.model /\ g.level = l => [f EXCEPT !.level = l] = g
BY DEF Config

(* A step that brings nothing new and parks nothing.                       *)
LEMMA PickedFrame ==
  ASSUME TypeOK, AsPicked, UNCHANGED <<cfg, row, picked, chatOf>>,
         \A v \in Convs : InUse(v)' => InUse(v),
         \A v \in Convs : pending'[v] \in {pending[v], None},
         \A p \in Procs : Brings(p)' => Brings(p) /\ For(p)' = For(p) /\ carry'[p] = carry[p]
  PROVE  AsPicked'
BY DEF AsPicked

(* Most steps bring nothing new: those of a turn but for its rows and its  *)
(* end, the opening of a chat that is held, Stop.                          *)
LEMMA ManyPickNothing ==
  ASSUME TypeOK, SerialInv, AsPicked,
         \/ \E s \in Sends : \/ Capture(s) \/ Begin(s) \/ TurnBusy(s) \/ NotReady(s) \/ Arm(s)
                            \/ Return(s) \/ Narrow(s) \/ Leave(s)
         \/ \E p \in Procs : LetGo(p)
         \/ \E d \in Doors : LevelWaits(d)
         \/ \E c \in Chats : Attach(c)
         \/ Show \/ Outgoing \/ CancelPending \/ CancelTurn \/ StopEverything
         \/ UNCHANGED vars
  PROVE  AsPicked'
<1> USE SerialKinds
<1>1. ASSUME NEW s \in Sends,
             \/ Begin(s) \/ NotReady(s) \/ Arm(s) \/ Return(s) \/ Narrow(s)
      PROVE  AsPicked'
  <2>1. /\ \A p \in Procs : Brings(p)' => Brings(p)
        /\ UNCHANGED <<open, byID, chatOf, cfg, pending, row, picked, target, carry>>
    BY <1>1 DEF Begin, NotReady, Arm, Return, Narrow, Goto, Brings, TypeOK,
                desk, flight, dials, calls, past
  <2>2. QED
    BY <2>1, PickedFrame DEF InUse, For
<1>2. ASSUME NEW s \in Sends, Capture(s) \/ TurnBusy(s) \/ Leave(s)
      PROVE  AsPicked'
  <2>1. /\ \A p \in Procs : Brings(p)' => Brings(p) /\ p # s
        /\ \A p \in Procs \ {s} : target'[p] = target[p] /\ carry'[p] = carry[p]
        /\ target'[s] \in {open, None} \cup {byID[c] : c \in Chats}
        /\ UNCHANGED <<open, byID, chatOf, cfg, pending, row, picked>>
    BY <1>2, CallHolds DEF Capture, TurnBusy, Leave, Goto, Holding, Brings, TypeOK,
                desk, flight, dials, past
  <2>2. QED
    BY <2>1, PickedFrame DEF InUse, For
<1>6. ASSUME NEW p \in Procs, LetGo(p)
      PROVE  AsPicked'
  <2>1. /\ \A q \in Procs : Brings(q)' => Brings(q) /\ q # p
        /\ \A q \in Procs \ {p} : target'[q] = target[q] /\ carry'[q] = carry[q]
        /\ target'[p] = None
        /\ \A c \in Chats : byID'[c] \in {byID[c], None}
        /\ UNCHANGED <<open, chatOf, cfg, pending, row, picked>>
    BY <1>6 DEF LetGo, Goto, Holding, Brings, TypeOK, flight, dials
  <2>2. QED
    BY <2>1, PickedFrame DEF InUse, For
<1>7. ASSUME NEW d \in Doors, LevelWaits(d)
      PROVE  AsPicked'
  <2>1. UNCHANGED <<open, byID, chatOf, cfg, pending, row, picked, target, carry>>
        /\ \A p \in Procs : Brings(p)' => Brings(p)
    BY <1>7 DEF LevelWaits, Goto, Brings, TypeOK, desk, flight, dials, past
  <2>2. QED
    BY <2>1, PickedFrame DEF InUse, For
<1>8. ASSUME NEW c \in Chats, Attach(c)
      PROVE  AsPicked'
  <2>1. /\ \A p \in Procs : Brings(p)' => Brings(p) /\ p # Loader
        /\ target' = [target EXCEPT ![Loader] = byID[c]]
        /\ UNCHANGED <<open, byID, chatOf, cfg, pending, row, picked, carry>>
    BY <1>8 DEF Attach, Goto, Brings, TypeOK, desk, flight, dials, past
  <2>2. QED
    BY <2>1, PickedFrame DEF InUse, For, TypeOK
<1>9. CASE Show
  <2>1. /\ pc[Loader] = "found" /\ pc'[Loader] \in {"idle", "shown"}
        /\ \A p \in Procs \ {Loader} : pc'[p] = pc[p] /\ target'[p] = target[p] /\ carry'[p] = carry[p]
        /\ target'[Loader] \in {None, open} /\ open' = target[Loader]
        /\ \A c \in Chats : byID'[c] \in {byID[c], target[Loader]}
        /\ UNCHANGED <<chatOf, cfg, pending, row, picked>>
    BY <1>9 DEF Show, Holding, TypeOK, flight, dials, past
  <2>2. \A p \in Procs : Brings(p)' => p \notin Doors /\ Brings(p) /\ p # Loader
    BY <2>1 DEF SerialInv, OneAwaited, Awaited, Brings
  <2>3. QED
    BY <2>1, <2>2, PickedFrame DEF InUse, For
<1>10. CASE Outgoing
  <2>1. /\ \A p \in Procs : Brings(p)' => Brings(p) /\ p # Loader
        /\ \A p \in Procs \ {Loader} : target'[p] = target[p] /\ carry'[p] = carry[p]
        /\ target'[Loader] \in {None, target[Loader]}
        /\ UNCHANGED <<open, byID, chatOf, cfg, pending, row, picked>>
    BY <1>10 DEF Outgoing, Goto, Holding, Brings, TypeOK, desk, flight, dials, past
  <2>2. QED
    BY <2>1, PickedFrame DEF InUse, For
<1>11. CASE CancelPending \/ CancelTurn \/ StopEverything \/ UNCHANGED vars
  <2>1. /\ \A v \in Convs : pending'[v] \in {pending[v], None}
        /\ UNCHANGED <<open, byID, chatOf, cfg, row, picked, pc, target, carry>>
    BY <1>11 DEF CancelPending, CancelTurn, StopEverything, vars, TypeOK, desk, flight, dials, calls, past
  <2>2. QED
    BY <2>1, PickedFrame DEF InUse, For, Brings
<1>12. QED
  BY <1>1, <1>2, <1>6, <1>7, <1>8, <1>9, <1>10, <1>11

(* The row is written with what the chat runs on.                          *)
LEMMA RowsKeepPicked ==
  ASSUME TypeOK, SerialInv, AsPicked, NEW s \in Sends, OpenTurn(s) \/ AppendTurn(s)
  PROVE  AsPicked'
<1> USE SerialKinds
<1>1. target[s] \in Convs /\ InUse(target[s])
  BY CallHolds DEF OpenTurn, AppendTurn, Goto, InUse
<1>2. /\ \A p \in Procs : Brings(p)' => Brings(p)
      /\ row' = [row EXCEPT ![chatOf[target[s]]] = cfg[target[s]]]
      /\ UNCHANGED <<open, byID, chatOf, cfg, pending, picked, target, carry>>
  BY DEF OpenTurn, AppendTurn, RecordDials, Goto, Brings, TypeOK, desk, flight, dials, past
<1>3. QED
  BY <1>1, <1>2 DEF AsPicked, InUse, For, TypeOK

(* endTurn lands what was parked in the chat the turn is in.               *)
LEMMA EndKeepsPicked ==
  ASSUME TypeOK, SerialInv, AsPicked, NEW s \in Sends, EndTurn(s)
  PROVE  AsPicked'
<1> DEFINE c == chatOf[target[s]]
           v == byID[c]
<1> USE SerialKinds
<1>1. /\ target[s] \in Convs /\ c \in Chats /\ v \in Convs \cup {None} /\ pc[s] = "ended"
      /\ v # None => chatOf[v] = c /\ InUse(v)
  BY CallHolds DEF EndTurn, SerialInv, Named, InUse, TypeOK
<1>2. /\ \A p \in Procs \ {s} : pc'[p] = pc[p] /\ target'[p] = target[p] /\ carry'[p] = carry[p]
      /\ Brings(s)' => v # None /\ target'[s] = v /\ carry'[s] = DialBase(v)
      /\ target'[s] \in {target[s], v}
      /\ \A u \in Convs : pending'[u] \in {pending[u], None}
      /\ UNCHANGED <<open, byID, chatOf, cfg, row, picked>>
  BY <1>1 DEF EndTurn, Brings, TypeOK, desk
<1> HIDE DEF c, v
<1>3. v # None => DialBase(v).model \in picked[chatOf[v]]
  BY <1>1 DEF DialBase, AsPicked
<1>4. \A u \in Convs : InUse(u)' => InUse(u)
  BY <1>1, <1>2 DEF InUse
<1>5. \A p \in Procs \ {s} : (Brings(p)' <=> Brings(p)) /\ For(p)' = For(p)
  BY <1>2 DEF Brings, For
<1>6. Brings(s)' => For(s)' = v
  BY <1>2 DEF For
<1>7. QED
  BY <1>1, <1>2, <1>3, <1>4, <1>5, <1>6 DEF AsPicked

(* A rebuild puts in the chat what was brought for it.                     *)
LEMMA SwapKeepsPicked ==
  ASSUME TypeOK, SerialInv, AsPicked, NEW p \in Procs, NEW done \in {"idle", "leaving", "found"},
         Swap(p, done)
  PROVE  AsPicked'
<1> USE SerialKinds
<1>1. target[p] \in Convs /\ For(p) = target[p] /\ carry[p].model \in picked[chatOf[target[p]]]
  BY CallHolds DEF Swap, Goto, For, Brings, AsPicked
<1>2. /\ \A q \in Procs : Brings(q)' => Brings(q) /\ q # p
      /\ \A q \in Procs \ {p} : target'[q] = target[q] /\ carry'[q] = carry[q]
      /\ target'[p] \in {target[p], None}
      /\ cfg' = [cfg EXCEPT ![target[p]] = carry[p]]
      /\ UNCHANGED <<open, byID, chatOf, pending, row, picked>>
  BY DEF Swap, Goto, Holding, Brings, TypeOK, desk, flight, past
<1>3. \A u \in Convs : InUse(u)' => InUse(u)
  BY <1>2 DEF InUse
<1>4. QED
  BY <1>1, <1>2, <1>3 DEF AsPicked, For, TypeOK

(* A dial is put in the chat on screen, from what that chat will run on.   *)
LEMMA PressKeepsPicked ==
  ASSUME TypeOK, SerialInv, AsPicked, "reload" \notin Presses, NEW d \in Doors, Press(d)
  PROVE  AsPicked'
<1> USE SerialKinds
<1>1. /\ open \in Convs /\ InUse(open) /\ OnScreen = chatOf[open] /\ OnScreen \in Chats
      /\ DialBase(open) \in Config /\ cfg[open] \in Config
      /\ DialBase(open).model \in picked[OnScreen] /\ cfg[open].model \in picked[OnScreen]
  BY OnScreenIsChat DEF TypeOK, DialBase, InUse, OnScreen, AsPicked
<1>2. /\ target[d] = None /\ ~Brings(d)
      /\ \A c \in Chats : picked[c] \subseteq picked'[c]
      /\ \A p \in Procs \ {d} : pc'[p] = pc[p] /\ target'[p] = target[p] /\ carry'[p] = carry[p]
      /\ target'[d] \in {None, open}
      /\ UNCHANGED <<open, byID, chatOf, cfg, pending, row>>
  BY DEF Press, PressDial, PressLevel, PressRefresh, PressReload, Goto, Brings, SerialInv, OnDesk,
         TypeOK, desk, flight, dials
<1>3. carry'[d].model \in picked'[OnScreen]
  <2>1. ASSUME NEW m \in Models, PressDial(d, m) PROVE carry'[d].model \in picked'[OnScreen]
    BY <1>1, <2>1, PutConfig DEF PressDial, TypeOK
  <2>2. ASSUME NEW l \in Levels, PressLevel(d, l) PROVE carry'[d].model \in picked'[OnScreen]
    BY <1>1, <2>2, PutConfig DEF PressLevel, TypeOK
  <2>3. CASE PressRefresh(d)
    BY <1>1, <2>3 DEF PressRefresh, TypeOK
  <2>4. QED
    BY <2>1, <2>2, <2>3 DEF Press, PressReload
<1>4. \A u \in Convs : InUse(u)' => InUse(u)
  BY <1>2 DEF InUse
<1>5. \A p \in Procs \ {d} : (Brings(p)' => Brings(p)) /\ For(p)' = For(p)
  BY <1>2 DEF Brings, For
<1>6. For(d)' = open
  BY <1>2 DEF For
<1>7. \A p \in Procs : Brings(p) => For(p) \in Convs /\ chatOf[For(p)] \in Chats
  BY <1>1 DEF Brings, For, TypeOK, InUse, OnScreen
<1>8. QED
  BY <1>1, <1>2, <1>3, <1>4, <1>5, <1>6, <1>7 DEF AsPicked, TypeOK, OnScreen

(* applyConfig parks or claims what the call brings for its conversation.  *)
LEMMA ApplyKeepsPicked ==
  ASSUME TypeOK, SerialInv, AsPicked, NEW p \in Procs, pc[p] = "apply",
         NEW done \in {"idle", "leaving", "found"}, Apply(p, For(p), done),
         UNCHANGED <<open, byID, chatOf, cfg, row, picked>>
  PROVE  AsPicked'
<1> DEFINE v == For(p)
<1> USE SerialKinds
<1>1. v \in Convs /\ InUse(v) /\ carry[p] \in Config /\ carry[p].model \in picked[chatOf[v]]
  BY CallHolds DEF For, Brings, AsPicked, InUse, TypeOK
<1>2. /\ \A q \in Procs \ {p} : pc'[q] = pc[q] /\ target'[q] = target[q] /\ carry'[q] = carry[q]
      /\ pc'[p] \in {done, "swap"} /\ target'[p] \in {v, None}
      /\ pc'[p] = "swap" => target'[p] = v /\ carry'[p] = carry[p]
  BY <1>1 DEF Apply, Holding, TypeOK
<1>3. pending' \in {[pending EXCEPT ![v] = carry[p]], [pending EXCEPT ![v] = None]}
  BY DEF Apply
<1>4. \A q \in Procs : Brings(q)' => Brings(q) /\ carry'[q] = carry[q]
  BY <1>2 DEF Brings
<1>5. Brings(p)' => For(p)' = v
  BY <1>1, <1>2 DEF For, Brings
<1>6. \A q \in Procs \ {p} : For(q)' = For(q)
  BY <1>2 DEF For
<1> HIDE DEF v
<1>7. \A u \in Convs : InUse(u)' => InUse(u)
  BY <1>1, <1>2 DEF InUse
<1>8. \A q \in Procs : Brings(q)' => carry'[q].model \in picked'[chatOf'[For(q)']]
  BY <1>1, <1>4, <1>5, <1>6 DEF AsPicked
<1>9. \A u \in Convs : InUse(u)' /\ pending'[u] # None => pending'[u].model \in picked'[chatOf'[u]]
  BY <1>1, <1>3, <1>7 DEF AsPicked, TypeOK
<1>10. (\A q \in Procs : Brings(q) => carry[q].model \in picked[chatOf[For(q)]])'
  BY <1>8
<1>11. QED
  BY <1>7, <1>9, <1>10 DEF AsPicked

(* A level that goes live names no other model.                            *)
LEMMA LiveKeepsPicked ==
  ASSUME TypeOK, SerialInv, AsPicked, NEW d \in Doors, LevelLive(d)
  PROVE  AsPicked'
<1> USE SerialKinds
<1>1. target[d] = open /\ open \in Convs /\ carry[d] \in Config /\ carry[d].level \in Levels
  BY DialedConfig DEF LevelLive, Goto, SerialInv, OnDesk, TypeOK
<1>2. /\ \A p \in Procs : Brings(p)' => Brings(p) /\ p # d
      /\ \A p \in Procs \ {d} : target'[p] = target[p] /\ carry'[p] = carry[p]
      /\ target'[d] = None
      /\ UNCHANGED <<open, byID, chatOf, row, picked>>
  BY DEF LevelLive, Goto, Holding, Brings, TypeOK, desk, past
<1>3. \A v \in Convs : cfg'[v].model = cfg[v].model
  BY <1>1, PutConfig DEF LevelLive, TypeOK
<1>4. \A v \in Convs : pending'[v] # None => pending[v] # None /\ pending'[v].model = pending[v].model
  BY <1>1, PutConfig DEF LevelLive, TypeOK
<1>5. \A u \in Convs : InUse(u)' => InUse(u)
  BY <1>2 DEF InUse
<1>6. QED
  BY <1>2, <1>3, <1>4, <1>5 DEF AsPicked, For

(* A chat comes back on its row; a new one has chosen what it is born with.*)
LEMMA BornKeepPicked ==
  ASSUME TypeOK, SerialInv, AsPicked, NEW c \in Chats, NEW v \in Convs, Reopen(c, v) \/ NewChat(c, v)
  PROVE  AsPicked'
<1> USE SerialKinds
<1>1. /\ v # open /\ \A b \in Chats : byID[b] # v
      /\ \A p \in Procs : target[p] # v
  BY DEF Reopen, NewChat, Born, InUse
<1>2. PICK f \in Config : Born(v, c, f) /\ f.model \in picked'[c]
  <2>1. CASE Reopen(c, v)
    BY <2>1 DEF Reopen, AsPicked, TypeOK
  <2>2. CASE NewChat(c, v)
    BY <2>2 DEF NewChat, TypeOK
  <2>3. QED
    BY <2>1, <2>2
<1>3. \A b \in Chats : b # c => picked'[b] = picked[b]
  BY DEF Reopen, NewChat, TypeOK
<1>4. picked'[c] = picked[c] \/ (row[c] = None /\ \A u \in Convs : chatOf[u] = c => ~InUse(u))
  BY DEF Reopen, NewChat
<1>5. /\ chatOf' = [chatOf EXCEPT ![v] = c] /\ cfg' = [cfg EXCEPT ![v] = f]
      /\ pending' = [pending EXCEPT ![v] = None]
      /\ pc' = [pc EXCEPT ![Loader] = "apply"] /\ target' = [target EXCEPT ![Loader] = v]
      /\ carry' = [carry EXCEPT ![Loader] = f]
      /\ pc[Loader] = "idle" /\ UNCHANGED <<open, byID, row>>
  BY <1>2 DEF Born, Goto
<1>6. \A u \in Convs \ {v} : (InUse(u)' => InUse(u)) /\ cfg'[u] = cfg[u] /\ chatOf'[u] = chatOf[u]
                            /\ pending'[u] = pending[u]
  BY <1>5 DEF InUse, TypeOK
<1>7. cfg'[v] = f /\ chatOf'[v] = c /\ pending'[v] = None
  BY <1>5 DEF TypeOK
<1>8. \A p \in Procs \ {Loader} : (Brings(p)' => Brings(p)) /\ For(p)' = For(p) /\ carry'[p] = carry[p]
  BY <1>5 DEF Brings, For, TypeOK
<1>9. For(Loader)' = v /\ carry'[Loader] = f
  BY <1>5 DEF For, TypeOK
<1>10. \A p \in Procs : Brings(p) => For(p) \in Convs \ {v} /\ InUse(For(p)) /\ chatOf[For(p)] \in Chats
  BY <1>1 DEF Brings, For, TypeOK, InUse
<1>12. \A u \in Convs : InUse(u) => picked'[chatOf[u]] = picked[chatOf[u]]
  BY <1>3, <1>4 DEF TypeOK
<1>13. \A u \in Convs : InUse(u)' => cfg'[u].model \in picked'[chatOf'[u]]
  BY <1>2, <1>6, <1>7, <1>12 DEF AsPicked
<1>14. \A u \in Convs : InUse(u)' /\ pending'[u] # None =>
         pending'[u].model \in picked'[chatOf'[u]]
  BY <1>6, <1>7, <1>12 DEF AsPicked
<1>15. \A p \in Procs : Brings(p)' => carry'[p].model \in picked'[chatOf'[For(p)']]
  BY <1>2, <1>6, <1>7, <1>8, <1>9, <1>10, <1>12 DEF AsPicked
<1>16. \A b \in Chats : row'[b] # None => row'[b].model \in picked'[b]
  BY <1>3, <1>4, <1>5 DEF AsPicked
<1>17. QED
  BY <1>13, <1>14, <1>15, <1>16 DEF AsPicked, For

(***************************************************************************)
(* The dials of sessions and rows: "each chat its own". Without the doors  *)
(* that rebuild the chat on screen from the template, a chat runs, parks   *)
(* and is brought no model but those chosen in it.                         *)
(***************************************************************************)
THEOREM GateOwnDials == ASSUME Serial, "reload" \notin Presses PROVE Spec => []OwnDials
<1>1. Init => AsPicked
  <2>1. SUFFICES ASSUME Init PROVE AsPicked
    OBVIOUS
  <2>2. /\ \A c \in Chats : byID[c] \in {open, None} /\ row[c] = None
        /\ \A p \in Procs : target[p] = None /\ pc[p] = "idle"
        /\ \A v \in Convs : pending[v] = None
    BY <2>1 DEF Init
  <2>3. open \in Convs /\ cfg[open].model \in picked[chatOf[open]]
    BY <2>1 DEF Init
  <2>4. \A v \in Convs : InUse(v) => v = open
    BY <2>2, SerialKinds DEF InUse
  <2>5. QED
    BY <2>2, <2>3, <2>4 DEF AsPicked, Brings
<1>2. TypeOK /\ SerialInv /\ AsPicked /\ [Next]_vars => AsPicked'
  <2> SUFFICES ASSUME TypeOK, SerialInv, AsPicked, [Next]_vars PROVE AsPicked'
    OBVIOUS
  <2> USE SerialKinds
  <2>1. ASSUME NEW s \in Sends, Capture(s) \/ Narrow(s) \/ Return(s) \/ TurnStep(s)
        PROVE  AsPicked'
    <3>1. CASE Land(s)
      <4>1. For(s) = target[s] /\ pc[s] = "apply"
        BY <3>1 DEF Land, For
      <4>2. QED
        BY <3>1, <4>1, ApplyKeepsPicked DEF Land, desk, past
    <3>2. QED
      BY <2>1, <3>1, ManyPickNothing, RowsKeepPicked, EndKeepsPicked, SwapKeepsPicked DEF TurnStep
  <2>2. ASSUME NEW d \in Doors, Press(d) \/ DoorStep(d)
        PROVE  AsPicked'
    <3>1. CASE DoorApply(d)
      <4>1. For(d) = (IF target[d] # None THEN target[d] ELSE open) /\ pc[d] = "apply"
        BY <3>1 DEF DoorApply, For
      <4>2. QED
        BY <3>1, <4>1, ApplyKeepsPicked DEF DoorApply, desk, past
    <3>2. QED
      BY <2>2, <3>1, ManyPickNothing, PressKeepsPicked, LiveKeepsPicked, SwapKeepsPicked DEF DoorStep
  <2>3. CASE LoaderStep
    <3>1. CASE LoaderApply
      <4>1. For(Loader) = target[Loader] /\ pc[Loader] = "apply"
        BY <3>1 DEF LoaderApply, For
      <4>2. QED
        BY <3>1, <4>1, ApplyKeepsPicked DEF LoaderApply, desk, past
    <3>2. QED
      BY <2>3, <3>1, ManyPickNothing, SwapKeepsPicked DEF LoaderStep
  <2>4. CASE Load
    BY <2>4, ManyPickNothing, BornKeepPicked DEF Load
  <2>5. CASE CancelPending \/ CancelTurn \/ StopEverything \/ UNCHANGED vars
    BY <2>5, ManyPickNothing
  <2>6. QED
    BY <2>1, <2>2, <2>3, <2>4, <2>5 DEF Next
<1>3. TypeOK /\ SerialInv /\ AsPicked => OwnDials
  BY SerialKinds DEF TypeOK, SerialInv, Named, AsPicked, InUse, OwnDials
<1>4. QED
  BY <1>1, <1>2, <1>3, GateTyping, GateSerially, PTL DEF Spec

-----------------------------------------------------------------------------
(* The conversation a chat is, or is about to be.                          *)
Current(v) ==
  \/ chatOf[v] \in Chats /\ byID[chatOf[v]] = v
  \/ pc[Loader] \in {"apply", "swap", "found"} /\ target[Loader] = v

Brought(p, v) == Brings(p) /\ For(p) = v

(* One configuration at most is in hand for a conversation, and it is what *)
(* the chat's dials were last put at; with none in hand, what is parked or *)
(* else what it runs on is. What is rebuilt has nothing parked behind it,  *)
(* and a level that is about to be put changes nothing else.               *)
Tidy(v) ==
  /\ \A p, q \in Procs : Brought(p, v) /\ Brought(q, v) => p = q
  /\ Current(v) =>
       /\ \A p \in Procs : Brought(p, v) => carry[p] = chosen[chatOf[v]]
       /\ (\A p \in Procs : ~Brought(p, v)) => DialBase(v) = chosen[chatOf[v]]
  /\ \A p \in Procs : Brought(p, v) =>
       /\ pc[p] = "swap" => pending[v] = None
       /\ pc[p] = "same" => carry[p].model = DialBase(v).model

(* The chats nothing is said of.                                           *)
Touched == crossed \cup dropped

TidyInv ==
  /\ \A p \in Procs : pc[p] = "same" => p \in Doors
  /\ \A v \in Convs : chatOf[v] \in Touched \/ Tidy(v)

(* A step that does not touch a conversation.                              *)
LEMMA TidyFrame ==
  ASSUME NEW v \in Convs, Tidy(v),
         chatOf'[v] = chatOf[v], pending'[v] = pending[v], cfg'[v] = cfg[v],
         Current(v)' => Current(v) /\ chosen'[chatOf[v]] = chosen[chatOf[v]],
         \A p \in Procs : Brought(p, v)' <=> Brought(p, v),
         \A p \in Procs : Brought(p, v) =>
           /\ carry'[p] = carry[p]
           /\ pc'[p] = "swap" => pc[p] = "swap"
           /\ pc'[p] = "same" => pc[p] = "same"
  PROVE  Tidy(v)'
<1>1. DialBase(v)' = DialBase(v)
  BY DEF DialBase
<1>2. QED
  BY <1>1 DEF Tidy

(* A step that touches none.                                               *)
LEMMA TidyStays ==
  ASSUME TypeOK, TidyInv, Touched \subseteq Touched', UNCHANGED <<chatOf, cfg, pending, chosen>>,
         \A v \in Convs : Current(v)' => Current(v),
         \A p \in Procs : Brings(p)' <=> Brings(p),
         \A p \in Procs : Brings(p) =>
           /\ For(p)' = For(p) /\ carry'[p] = carry[p]
           /\ pc'[p] = "swap" => pc[p] = "swap"
           /\ pc'[p] = "same" => pc[p] = "same"
  PROVE  TidyInv'
<1>0. \A p \in Procs : pc'[p] = "same" => p \in Doors
  BY DEF TidyInv, Brings
<1>1. SUFFICES ASSUME NEW v \in Convs, chatOf[v] \notin Touched'
               PROVE  Tidy(v)'
  BY <1>0 DEF TidyInv
<1>2. Tidy(v)
  BY <1>1 DEF TidyInv, Touched
<1>3. \A p \in Procs : Brought(p, v)' <=> Brought(p, v)
  BY DEF Brought
<1>4. \A p \in Procs : Brought(p, v) => Brings(p)
  BY DEF Brought
<1>5. QED
  BY <1>2, <1>3, <1>4, TidyFrame

(* Such are a turn up to its end, the opening of a chat that is held, the  *)
(* leaving of one, Stop.                                                   *)
LEMMA ManyStayTidy ==
  ASSUME TypeOK, SerialInv, TidyInv, Touched \subseteq Touched',
         \/ \E s \in Sends : \/ Capture(s) \/ Begin(s) \/ TurnBusy(s) \/ InTurn(s) \/ Narrow(s)
                            \/ Leave(s)
         \/ \E p \in Procs : LetGo(p)
         \/ \E d \in Doors : LevelWaits(d)
         \/ \E c \in Chats : Attach(c)
         \/ Show \/ Outgoing \/ CancelTurn \/ StopEverything \/ UNCHANGED vars
  PROVE  TidyInv'
<1> USE SerialKinds, TidyStays
<1>1. ASSUME NEW s \in Sends, Capture(s) \/ Begin(s) \/ TurnBusy(s) \/ InTurn(s) \/ Narrow(s)
      PROVE  TidyInv'
  <2>1. /\ \A p \in Procs \ {s} : pc'[p] = pc[p] /\ target'[p] = target[p] /\ carry'[p] = carry[p]
        /\ ~Brings(s) /\ ~Brings(s)'
        /\ UNCHANGED <<open, byID, chatOf, cfg, pending, chosen>>
    BY <1>1 DEF Capture, Begin, TurnBusy, InTurn, OpenTurn, NotReady, Arm, Return, AppendTurn, Narrow,
                Goto, Holding, Brings, TypeOK, desk, flight, dials, calls, past
  <2>2. QED
    BY <2>1 DEF Brings, For, Current, Touched
<1>2. ASSUME NEW s \in Sends, Leave(s)
      PROVE  TidyInv'
  <2>1. /\ \A p \in Procs \ {s} : pc'[p] = pc[p] /\ target'[p] = target[p] /\ carry'[p] = carry[p]
        /\ ~Brings(s) /\ ~Brings(s)'
        /\ UNCHANGED <<open, byID, chatOf, cfg, pending, chosen>>
    BY <1>2 DEF Leave, Holding, Brings, TypeOK, desk, flight, dials, past
  <2>2. QED
    BY <2>1 DEF Brings, For, Current, Touched
<1>3. ASSUME NEW p \in Procs, LetGo(p)
      PROVE  TidyInv'
  <2>1. /\ \A q \in Procs \ {p} : pc'[q] = pc[q] /\ target'[q] = target[q] /\ carry'[q] = carry[q]
        /\ ~Brings(p) /\ ~Brings(p)' /\ pc'[p] = "idle"
        /\ \A c \in Chats : byID'[c] \in {byID[c], None}
        /\ UNCHANGED <<open, chatOf, cfg, pending, chosen>>
    BY <1>3 DEF LetGo, Goto, Holding, Brings, TypeOK, flight, dials
  <2>2. \A v \in Convs : Current(v)' => Current(v)
    BY <2>1 DEF Current
  <2>3. QED
    BY <2>1, <2>2 DEF Brings, For, Touched
<1>4. ASSUME NEW d \in Doors, LevelWaits(d)
      PROVE  TidyInv'
  <2>1. /\ \A q \in Procs \ {d} : pc'[q] = pc[q]
        /\ pc[d] = "same" /\ pc'[d] = "apply"
        /\ UNCHANGED <<open, byID, chatOf, cfg, pending, chosen, target, carry>>
    BY <1>4 DEF LevelWaits, Goto, TypeOK, desk, flight, dials, past
  <2>2. QED
    BY <2>1 DEF Brings, For, Current, Touched
<1>5. ASSUME NEW c \in Chats, Attach(c)
      PROVE  TidyInv'
  <2>1. /\ \A p \in Procs \ {Loader} : pc'[p] = pc[p] /\ target'[p] = target[p] /\ carry'[p] = carry[p]
        /\ ~Brings(Loader) /\ ~Brings(Loader)' /\ target'[Loader] = byID[c] /\ byID[c] # None
        /\ UNCHANGED <<open, byID, chatOf, cfg, pending, chosen>>
    BY <1>5 DEF Attach, Goto, Brings, TypeOK, desk, flight, dials, past
  <2>2. chatOf[byID[c]] = c
    BY <2>1 DEF SerialInv, Named
  <2>3. QED
    BY <2>1, <2>2 DEF Brings, For, Current, Touched
<1>6. CASE Show
  <2>1. /\ pc[Loader] = "found" /\ pc'[Loader] \in {"idle", "shown"}
        /\ \A p \in Procs \ {Loader} : pc'[p] = pc[p] /\ target'[p] = target[p] /\ carry'[p] = carry[p]
        /\ byID' = [byID EXCEPT ![chatOf[target[Loader]]] = target[Loader]]
        /\ UNCHANGED <<chatOf, cfg, pending, chosen>>
    BY <1>6 DEF Show, Holding, TypeOK, flight, dials, past
  <2>2. \A p \in Procs : (Brings(p)' <=> Brings(p)) /\ (Brings(p) => p \notin Doors /\ p # Loader)
    BY <2>1 DEF SerialInv, OneAwaited, Awaited, Brings
  <2>3. \A v \in Convs : Current(v)' => Current(v)
    BY <2>1 DEF Current, TypeOK
  <2>4. QED
    BY <2>1, <2>2, <2>3 DEF For, Touched
<1>7. CASE Outgoing
  <2>1. /\ pc[Loader] = "shown" /\ pc'[Loader] \in {"idle", "letting"}
        /\ \A p \in Procs \ {Loader} : pc'[p] = pc[p] /\ target'[p] = target[p] /\ carry'[p] = carry[p]
        /\ UNCHANGED <<open, byID, chatOf, cfg, pending, chosen>>
    BY <1>7 DEF Outgoing, Goto, Holding, TypeOK, desk, flight, dials, past
  <2>2. QED
    BY <2>1 DEF Brings, For, Current, Touched
<1>8. CASE CancelTurn \/ StopEverything \/ UNCHANGED vars
  <2>1. UNCHANGED <<open, byID, chatOf, cfg, pending, chosen, pc, target, carry>>
    BY <1>8 DEF CancelTurn, StopEverything, vars, desk, flight, dials, calls, past
  <2>2. QED
    BY <2>1 DEF Brings, For, Current, Touched
<1>9. QED
  BY <1>1, <1>2, <1>3, <1>4, <1>5, <1>6, <1>7, <1>8

(* What is brought is brought to a chat that is held or about to be.       *)
LEMMA BroughtIsCurrent ==
  ASSUME TypeOK, SerialInv, TidyInv, NEW p \in Procs, Brings(p)
  PROVE  /\ For(p) \in Convs /\ chatOf[For(p)] \in Chats
         /\ chatOf[For(p)] \in Touched \/ Current(For(p))
<1> USE SerialKinds
<1>1. For(p) \in Convs /\ chatOf[For(p)] \in Chats
  BY DEF For, Brings, TypeOK, InUse
<1>2. CASE p \in Sends
  BY <1>1, <1>2 DEF SerialInv, Kept, InMap, Current, For, Brings, TidyInv, Touched
<1>3. CASE p \in Doors
  BY <1>1, <1>3 DEF SerialInv, Kept, OnDesk, InMap, Current, For, Touched
<1>4. CASE p = Loader
  BY <1>1, <1>4 DEF Current, For, Brings, TidyInv
<1>5. QED
  BY <1>1, <1>2, <1>3, <1>4 DEF Procs

(* applyConfig keeps what is brought, in hand or parked.                   *)
LEMMA ApplyKeepsTidy ==
  ASSUME TypeOK, SerialInv, TidyInv, NEW p \in Procs, pc[p] = "apply",
         NEW done \in {"idle", "leaving", "found"}, Apply(p, For(p), done), p = Loader => done = "found",
         UNCHANGED <<open, byID, chatOf, cfg, chosen, crossed, dropped>>
  PROVE  TidyInv'
<1> USE SerialKinds
<1>1. PICK v \in Convs : v = For(p) /\ Brought(p, v) /\ chatOf[v] \in Chats
  BY BroughtIsCurrent DEF Brings, Brought
<1>2. /\ chatOf[v] \in Touched \/ Current(v)
      /\ carry[p] \in Config
  BY <1>1, BroughtIsCurrent DEF Brought, TypeOK
<1>3. /\ \A q \in Procs \ {p} : pc'[q] = pc[q] /\ target'[q] = target[q] /\ carry'[q] = carry[q]
      /\ \/ pc'[p] = done /\ pending' = [pending EXCEPT ![v] = carry[p]]
         \/ pc'[p] = "swap" /\ carry'[p] = carry[p] /\ pending' = [pending EXCEPT ![v] = None]
      /\ pc'[p] # "idle" => target'[p] = v
  BY <1>1 DEF Apply, Holding, TypeOK
<1>4. \A q \in Procs \ {p}, u \in Convs : Brought(q, u)' <=> Brought(q, u)
  BY <1>3 DEF Brought, Brings, For
<1>5. \A u \in Convs : /\ Brought(p, u) <=> u = v
                       /\ Brought(p, u)' <=> u = v /\ pc'[p] = "swap"
  BY <1>1, <1>3 DEF Brought, Brings, For
<1>6. \A u \in Convs : Current(u)' => Current(u)
  BY <1>1, <1>3 DEF Current, For
<1>7. ASSUME NEW u \in Convs, u # v, Tidy(u)
      PROVE  Tidy(u)'
  <2>1. pending'[u] = pending[u] /\ \A q \in Procs : Brought(q, u)' <=> Brought(q, u)
    BY <1>3, <1>4, <1>5, <1>7 DEF TypeOK
  <2>2. \A q \in Procs : Brought(q, u) => pc'[q] = pc[q] /\ carry'[q] = carry[q]
    BY <1>3, <1>5, <1>7
  <2>3. QED
    BY <1>6, <1>7, <2>1, <2>2, TidyFrame
<1>8. ASSUME Tidy(v), chatOf[v] \notin Touched
      PROVE  Tidy(v)'
  <2>1. carry[p] = chosen[chatOf[v]] /\ \A q \in Procs \ {p} : ~Brought(q, v)
    BY <1>1, <1>2, <1>8 DEF Tidy
  <2>2. CASE pc'[p] = "swap"
    <3>1. pending'[v] = None \/ done = "swap"
      BY <1>3, <2>2 DEF TypeOK
    <3>2. QED
      BY <1>3, <1>4, <1>5, <2>1, <2>2, <3>1 DEF Tidy
  <2>3. CASE pc'[p] # "swap"
    <3>1. \A q \in Procs : ~Brought(q, v)'
      BY <1>4, <1>5, <2>1, <2>3
    <3>2. DialBase(v)' = carry[p]
      BY <1>2, <1>3, <2>3 DEF DialBase, TypeOK
    <3>3. QED
      BY <2>1, <3>1, <3>2 DEF Tidy
  <2>4. QED
    BY <2>2, <2>3
<1>9. \A q \in Procs : pc'[q] = "same" => q \in Doors
  BY <1>3 DEF TidyInv
<1>10. QED
  BY <1>7, <1>8, <1>9 DEF TidyInv, Touched

(* The rebuild puts in the chat what was brought for it.                   *)
LEMMA SwapKeepsTidy ==
  ASSUME TypeOK, SerialInv, TidyInv, NEW p \in Procs, NEW done \in {"idle", "leaving", "found"},
         Swap(p, done), p = Loader => done = "found"
  PROVE  TidyInv'
<1> USE SerialKinds
<1>0. pc[p] = "swap" /\ Brings(p) /\ For(p) = target[p]
  BY CallHolds DEF Swap, Goto, Brings, For
<1>1. PICK v \in Convs : v = target[p] /\ Brought(p, v) /\ chatOf[v] \in Chats
  BY <1>0, BroughtIsCurrent DEF Brought
<1>2. /\ chatOf[v] \in Touched \/ Current(v)
      /\ carry[p] \in Config
  BY <1>0, <1>1, BroughtIsCurrent DEF Brought, TypeOK
<1>3. /\ \A q \in Procs \ {p} : pc'[q] = pc[q] /\ target'[q] = target[q] /\ carry'[q] = carry[q]
      /\ pc'[p] = done /\ (done # "idle" => target'[p] = v)
      /\ cfg' = [cfg EXCEPT ![v] = carry[p]]
      /\ UNCHANGED <<open, byID, chatOf, pending, chosen, crossed, dropped>>
  BY <1>1 DEF Swap, Goto, Holding, TypeOK, desk, past
<1>4. \A q \in Procs \ {p}, u \in Convs : Brought(q, u)' <=> Brought(q, u)
  BY <1>3 DEF Brought, Brings, For
<1>5. \A u \in Convs : ~Brought(p, u)' /\ (Brought(p, u) <=> u = v)
  BY <1>1, <1>3 DEF Brought, Brings
<1>6. \A u \in Convs : Current(u)' => Current(u)
  BY <1>0, <1>1, <1>3 DEF Current
<1>7. ASSUME NEW u \in Convs, u # v, Tidy(u)
      PROVE  Tidy(u)'
  <2>1. cfg'[u] = cfg[u] /\ \A q \in Procs : Brought(q, u)' <=> Brought(q, u)
    BY <1>3, <1>4, <1>5, <1>7 DEF TypeOK
  <2>2. \A q \in Procs : Brought(q, u) => pc'[q] = pc[q] /\ carry'[q] = carry[q]
    BY <1>3, <1>5, <1>7
  <2>3. QED
    BY <1>3, <1>6, <1>7, <2>1, <2>2, TidyFrame
<1>8. ASSUME Tidy(v), chatOf[v] \notin Touched
      PROVE  Tidy(v)'
  <2>1. /\ carry[p] = chosen[chatOf[v]] /\ pending[v] = None
        /\ \A q \in Procs \ {p} : ~Brought(q, v)
    BY <1>0, <1>1, <1>2, <1>8 DEF Tidy
  <2>2. DialBase(v)' = carry[p]
    BY <1>3, <2>1 DEF DialBase, TypeOK
  <2>3. \A q \in Procs : ~Brought(q, v)'
    BY <1>4, <1>5, <2>1
  <2>4. QED
    BY <1>3, <2>1, <2>2, <2>3 DEF Tidy
<1>9. \A q \in Procs : pc'[q] = "same" => q \in Doors
  BY <1>3 DEF TidyInv
<1>10. QED
  BY <1>3, <1>7, <1>8, <1>9 DEF TidyInv, Touched

(* endTurn takes what the chat is to run on in hand, and crosses what is   *)
(* in hand already.                                                        *)
LEMMA EndKeepsTidy ==
  ASSUME TypeOK, SerialInv, TidyInv, Touched \subseteq Touched', NEW s \in Sends, EndTurn(s)
  PROVE  TidyInv'
<1> USE SerialKinds
<1>1. PICK v \in Convs \cup {None} : v = byID[chatOf[target[s]]]
  BY CallHolds DEF EndTurn, TypeOK
<1>2. /\ pc[s] = "ended" /\ ~Brings(s) /\ s # Loader /\ s \notin Doors
      /\ v # None => chatOf[v] \in Chats /\ Current(v)
  BY <1>1, CallHolds DEF EndTurn, SerialInv, Named, Current, Brings
<1>3. /\ \A p \in Procs \ {s} : pc'[p] = pc[p] /\ target'[p] = target[p] /\ carry'[p] = carry[p]
      /\ pending' = IF v # None THEN [pending EXCEPT ![v] = None] ELSE pending
      /\ \/ /\ pc'[s] = "apply" /\ v # None /\ target'[s] = v /\ carry'[s] = DialBase(v)
            /\ (\E p \in Procs : Brings(p) /\ For(p) = v) => chatOf[v] \in Touched'
         \/ pc'[s] = "leaving" /\ (v # None => pending[v] = None)
      /\ UNCHANGED <<open, byID, chatOf, cfg, chosen>>
  BY <1>1 DEF EndTurn, Crossing, TypeOK, desk, Touched
<1>4. \A p \in Procs \ {s}, u \in Convs : Brought(p, u)' <=> Brought(p, u)
  BY <1>3 DEF Brought, Brings, For
<1>5. \A u \in Convs : ~Brought(s, u) /\ (Brought(s, u)' <=> u = v /\ pc'[s] = "apply")
  BY <1>2, <1>3 DEF Brought, Brings, For
<1>6. \A u \in Convs : Current(u)' => Current(u)
  BY <1>2, <1>3 DEF Current
<1>7. \A u \in Convs, p \in Procs : Brought(p, u) => pc'[p] = pc[p] /\ carry'[p] = carry[p]
  BY <1>3, <1>5
<1>8. ASSUME NEW u \in Convs, u # v \/ pc'[s] = "leaving", Tidy(u)
      PROVE  Tidy(u)'
  <2>1. pending'[u] = pending[u] /\ \A q \in Procs : Brought(q, u)' <=> Brought(q, u)
    BY <1>3, <1>4, <1>5, <1>8 DEF TypeOK
  <2>2. QED
    BY <1>3, <1>6, <1>7, <1>8, <2>1, TidyFrame
<1>9. ASSUME v # None, pc'[s] = "apply", Tidy(v), chatOf[v] \notin Touched'
      PROVE  Tidy(v)'
  <2>0. v \in Convs
    BY <1>9
  <2>1. \A p \in Procs : ~Brought(p, v)
    BY <1>3, <1>9 DEF Brought
  <2>2. carry'[s] = chosen[chatOf[v]]
    BY <1>2, <1>3, <1>9, <2>1 DEF Tidy
  <2>3. \A p \in Procs : Brought(p, v)' => p = s
    BY <1>4, <2>0, <2>1
  <2>4. Brought(s, v)' /\ pc'[s] = "apply" /\ chosen'[chatOf'[v]] = carry'[s]
    BY <1>3, <1>5, <1>9, <2>0, <2>2
  <2>5. QED
    BY <2>3, <2>4 DEF Tidy
<1>10. \A q \in Procs : pc'[q] = "same" => q \in Doors
  BY <1>3 DEF TidyInv
<1>11. QED
  BY <1>3, <1>8, <1>9, <1>10 DEF TidyInv

(* A dial starts from what the chat on screen is to run on, and is a       *)
(* choice.                                                                 *)
LEMMA PressKeepsTidy ==
  ASSUME Serial, TypeOK, SerialInv, TidyInv, Touched \subseteq Touched',
         "reload" \notin Presses, NEW d \in Doors, Press(d)
  PROVE  TidyInv'
<1> USE SerialKinds
<1>1. PICK v \in Convs, c \in Chats : v = open /\ c = OnScreen /\ c = chatOf[v]
  BY OnScreenIsChat DEF TypeOK, OnScreen
<1>2. /\ pc[d] = "idle" /\ target[d] = None /\ pc[Loader] = "idle"
      /\ (\E p \in Procs : Brought(p, v)) => c \in Touched'
      /\ \A p \in Procs \ {d} : pc'[p] = pc[p] /\ target'[p] = target[p] /\ carry'[p] = carry[p]
      /\ pc'[d] \in {"same", "apply"} /\ target'[d] \in {None, v}
      /\ UNCHANGED <<open, byID, chatOf, cfg, pending>>
      /\ \A b \in Chats \ {c} : chosen'[b] = chosen[b]
  <2>1. pc[d] = "idle" /\ target[d] = None /\ Calm
    BY DEF Press, PressDial, PressLevel, PressRefresh, PressReload, Goto, SerialInv, OnDesk
  <2>2. pc[Loader] = "idle"
    BY <2>1 DEF Calm, Awaited
  <2>3. CASE \E m \in Models : PressDial(d, m)
    <3>1. PICK m \in Models : /\ pc' = [pc EXCEPT ![d] = "apply"] /\ UNCHANGED <<target, desk, dials>>
                             /\ carry' = [carry EXCEPT ![d] = [DialBase(v) EXCEPT !.model = m]]
                             /\ chosen' = [chosen EXCEPT ![c].model = m] /\ Crossing(v)
      BY <1>1, <2>3 DEF PressDial, Goto
    <3>2. \A b \in Chats \ {c} : chosen'[b] = chosen[b]
      BY <3>1 DEF TypeOK
    <3>3. (\E p \in Procs : Brought(p, v)) => c \in Touched'
      BY <1>1, <3>1 DEF Crossing, Brought, Touched
    <3>4. QED
      BY <2>1, <2>2, <3>1, <3>2, <3>3 DEF TypeOK, desk, dials
  <2>4. CASE \E l \in Levels : PressLevel(d, l)
    <3>1. PICK l \in Levels : /\ pc' = [pc EXCEPT ![d] = "same"] /\ UNCHANGED <<desk, dials>>
                             /\ carry' = [carry EXCEPT ![d] = [DialBase(v) EXCEPT !.level = l]]
                             /\ target' = [target EXCEPT ![d] = v]
                             /\ chosen' = [chosen EXCEPT ![c].level = l] /\ Crossing(v)
      BY <1>1, <2>4 DEF PressLevel, Goto
    <3>2. \A b \in Chats \ {c} : chosen'[b] = chosen[b]
      BY <3>1 DEF TypeOK
    <3>3. (\E p \in Procs : Brought(p, v)) => c \in Touched'
      BY <1>1, <3>1 DEF Crossing, Brought, Touched
    <3>4. QED
      BY <2>1, <2>2, <3>1, <3>2, <3>3 DEF TypeOK, desk, dials
  <2>5. CASE PressRefresh(d)
    <3>1. /\ pc' = [pc EXCEPT ![d] = "apply"] /\ carry' = [carry EXCEPT ![d] = cfg[v]]
          /\ UNCHANGED <<target, chosen, desk, dials>> /\ CrossingParked(v)
      BY <1>1, <2>5 DEF PressRefresh, Goto
    <3>2. (\E p \in Procs : Brought(p, v)) => c \in Touched'
      BY <1>1, <3>1 DEF CrossingParked, Crossing, Brought, Touched
    <3>3. QED
      BY <2>1, <2>2, <3>1, <3>2 DEF TypeOK, desk, dials
  <2>6. QED
    BY <2>3, <2>4, <2>5 DEF Press, PressReload
<1>3. DialBase(v) = chosen[c] /\ c \notin Touched' =>
        /\ carry'[d] = chosen'[c]
        /\ pc'[d] = "same" => carry'[d].model = DialBase(v).model
  <2>1. chosen \in [Chats -> Config] /\ carry \in [Procs -> Config \cup {None}]
    BY DEF TypeOK
  <2>2. ASSUME NEW m \in Models, PressDial(d, m), DialBase(v) = chosen[c]
        PROVE  carry'[d] = chosen'[c] /\ pc'[d] = "apply"
    BY <1>1, <2>1, <2>2 DEF PressDial, Goto, TypeOK
  <2>3. ASSUME NEW l \in Levels, PressLevel(d, l), DialBase(v) = chosen[c]
        PROVE  carry'[d] = chosen'[c] /\ carry'[d].model = DialBase(v).model
    <3>1. /\ carry' = [carry EXCEPT ![d] = [chosen[c] EXCEPT !.level = l]]
          /\ chosen' = [chosen EXCEPT ![c].level = l]
      BY <1>1, <2>3 DEF PressLevel
    <3>2. carry'[d] = [chosen[c] EXCEPT !.level = l] /\ chosen'[c] = [chosen[c] EXCEPT !.level = l]
      BY <2>1, <3>1
    <3>3. [chosen[c] EXCEPT !.level = l].model = chosen[c].model
      BY <2>1, PutConfig
    <3>4. QED
      BY <2>3, <3>2, <3>3
  <2>4. ASSUME PressRefresh(d), DialBase(v) = chosen[c], c \notin Touched'
        PROVE  carry'[d] = chosen'[c] /\ pc'[d] = "apply"
    <3>1. pending[v] = None
      BY <1>1, <2>4 DEF PressRefresh, CrossingParked, Touched
    <3>2. QED
      BY <1>1, <2>1, <2>4, <3>1 DEF PressRefresh, Goto, DialBase, TypeOK
  <2>5. QED
    BY <2>2, <2>3, <2>4 DEF Press, PressReload
<1>4. \A p \in Procs \ {d}, u \in Convs : Brought(p, u)' <=> Brought(p, u)
  BY <1>2 DEF Brought, Brings, For
<1>5. \A u \in Convs : ~Brought(d, u) /\ (Brought(d, u)' <=> u = v)
  BY <1>1, <1>2 DEF Brought, Brings, For
<1>6. \A u \in Convs : Current(u)' => Current(u) /\ chatOf[u] \in Chats /\ byID[chatOf[u]] = u
  BY <1>2 DEF Current
<1>7. c \in Touched \/ byID[c] = v
  BY <1>1 DEF SerialInv, Kept, InMap, Touched
<1>8. \A u \in Convs : DialBase(u)' = DialBase(u)
  BY <1>2 DEF DialBase
<1>9. ASSUME NEW u \in Convs, u # v, Tidy(u), chatOf[u] \notin Touched'
      PROVE  Tidy(u)'
  <2>1. Current(u)' => chosen'[chatOf[u]] = chosen[chatOf[u]]
    BY <1>2, <1>6, <1>7, <1>9
  <2>2. \A q \in Procs : Brought(q, u)' <=> Brought(q, u)
    BY <1>4, <1>5, <1>9
  <2>3. \A q \in Procs : Brought(q, u) => pc'[q] = pc[q] /\ carry'[q] = carry[q]
    BY <1>2, <1>5
  <2>4. QED
    BY <1>2, <1>6, <1>9, <2>1, <2>2, <2>3, TidyFrame
<1>10. ASSUME Tidy(v), c \notin Touched'
       PROVE  Tidy(v)'
  <2>1. \A p \in Procs : ~Brought(p, v)
    BY <1>2, <1>10
  <2>2. Current(v)
    BY <1>1, <1>7, <1>10 DEF Current
  <2>3. DialBase(v) = chosen[c]
    BY <1>1, <1>10, <2>1, <2>2 DEF Tidy
  <2>4. \A p \in Procs : Brought(p, v)' => p = d
    BY <1>4, <2>1
  <2>5. Brought(d, v)' /\ pc'[d] # "swap" /\ carry'[d] = chosen'[chatOf'[v]]
        /\ (pc'[d] = "same" => carry'[d].model = DialBase(v)'.model)
    BY <1>1, <1>2, <1>3, <1>5, <1>8, <1>10, <2>3
  <2>6. QED
    BY <2>4, <2>5 DEF Tidy
<1>11. \A q \in Procs : pc'[q] = "same" => q \in Doors
  BY <1>2 DEF TidyInv
<1>12. QED
  BY <1>1, <1>2, <1>9, <1>10, <1>11 DEF TidyInv

(* A level that is live at once is put in the chat and in what is parked.  *)
LEMMA LiveKeepsTidy ==
  ASSUME TypeOK, SerialInv, TidyInv, NEW d \in Doors, LevelLive(d)
  PROVE  TidyInv'
<1> USE SerialKinds
<1>1. PICK v \in Convs : v = target[d] /\ Brought(d, v) /\ chatOf[v] \in Chats
  BY BroughtIsCurrent, CallHolds DEF LevelLive, Goto, Brings, Brought, For
<1>2. /\ pc[d] = "same" /\ carry[d] \in Config /\ carry[d].level \in Levels
      /\ carry[d].model = cfg[v].model
      /\ chatOf[v] \in Touched \/ Current(v)
  BY <1>1, DialedConfig, BroughtIsCurrent DEF LevelLive, Goto, TypeOK, Brought
<1>3. /\ \A q \in Procs \ {d} : pc'[q] = pc[q] /\ target'[q] = target[q] /\ carry'[q] = carry[q]
      /\ pc'[d] = "idle"
      /\ cfg' = [cfg EXCEPT ![v].level = carry[d].level]
      /\ pending' = IF pending[v] # None THEN [pending EXCEPT ![v].level = carry[d].level] ELSE pending
      /\ UNCHANGED <<open, byID, chatOf, chosen, crossed, dropped>>
  BY <1>1 DEF LevelLive, Goto, Holding, TypeOK, desk, past
<1>4. \A q \in Procs \ {d}, u \in Convs : Brought(q, u)' <=> Brought(q, u)
  BY <1>3 DEF Brought, Brings, For
<1>5. \A u \in Convs : ~Brought(d, u)' /\ (Brought(d, u) <=> u = v)
  BY <1>1, <1>3 DEF Brought, Brings
<1>6. \A u \in Convs : Current(u)' => Current(u)
  BY <1>3 DEF Current
<1>7. ASSUME NEW u \in Convs, u # v, Tidy(u)
      PROVE  Tidy(u)'
  <2>1. cfg'[u] = cfg[u] /\ pending'[u] = pending[u] /\ \A q \in Procs : Brought(q, u)' <=> Brought(q, u)
    BY <1>3, <1>4, <1>5, <1>7 DEF TypeOK
  <2>2. \A q \in Procs : Brought(q, u) => pc'[q] = pc[q] /\ carry'[q] = carry[q]
    BY <1>3, <1>5, <1>7
  <2>3. QED
    BY <1>3, <1>6, <1>7, <2>1, <2>2, TidyFrame
<1>8. ASSUME Tidy(v), chatOf[v] \notin Touched
      PROVE  Tidy(v)'
  <2>1. /\ carry[d] = chosen[chatOf[v]] /\ carry[d].model = DialBase(v).model
        /\ \A q \in Procs \ {d} : ~Brought(q, v)
    BY <1>1, <1>2, <1>8 DEF Tidy
  <2>2. DialBase(v)' = carry[d]
    <3>1. CASE pending[v] # None
      <4>1. pending[v] \in Config /\ carry[d].model = pending[v].model
        BY <2>1, <3>1 DEF DialBase, TypeOK
      <4>2. [pending[v] EXCEPT !.level = carry[d].level] = carry[d]
        BY <1>2, <4>1, PutConfig
      <4>3. pending'[v] = carry[d]
        BY <1>3, <3>1, <4>2 DEF TypeOK
      <4>4. QED
        BY <1>2, <4>3 DEF DialBase
    <3>2. CASE pending[v] = None
      <4>1. cfg[v] \in Config
        BY DEF TypeOK
      <4>2. [cfg[v] EXCEPT !.level = carry[d].level] = carry[d]
        BY <1>2, <4>1, PutConfig
      <4>3. cfg'[v] = carry[d] /\ pending'[v] = None
        BY <1>3, <3>2, <4>2 DEF TypeOK
      <4>4. QED
        BY <4>3 DEF DialBase
    <3>3. QED
      BY <3>1, <3>2
  <2>3. \A q \in Procs : ~Brought(q, v)'
    BY <1>4, <1>5, <2>1
  <2>4. QED
    BY <1>3, <2>1, <2>2, <2>3 DEF Tidy
<1>9. \A q \in Procs : pc'[q] = "same" => q \in Doors
  BY <1>3 DEF TidyInv
<1>10. QED
  BY <1>3, <1>7, <1>8, <1>9 DEF TidyInv, Touched

(* CancelPendingModel: what is parked is let go of, and the choice with it.*)
LEMMA CancelKeepsTidy ==
  ASSUME Serial, TypeOK, SerialInv, TidyInv, Touched \subseteq Touched', CancelPending
  PROVE  TidyInv'
<1> USE SerialKinds
<1>1. PICK v \in Convs, c \in Chats : v = open /\ c = OnScreen /\ c = chatOf[v]
  BY OnScreenIsChat DEF TypeOK, OnScreen
<1>2. /\ pc[Loader] = "idle"
      /\ (\E p \in Procs : Brought(p, v)) => c \in Touched'
      /\ pending' = [pending EXCEPT ![v] = None] /\ chosen' = [chosen EXCEPT ![c] = cfg[v]]
      /\ UNCHANGED <<open, byID, chatOf, cfg, pc, target, carry>>
  BY <1>1 DEF CancelPending, Calm, Awaited, Crossing, Brought, desk, calls, Touched
<1>3. \A p \in Procs, u \in Convs : Brought(p, u)' <=> Brought(p, u)
  BY <1>2 DEF Brought, Brings, For
<1>4. \A u \in Convs : Current(u)' => Current(u) /\ chatOf[u] \in Chats /\ byID[chatOf[u]] = u
  BY <1>2 DEF Current
<1>5. c \in Touched \/ byID[c] = v
  BY <1>1 DEF SerialInv, Kept, InMap, Touched
<1>6. ASSUME NEW u \in Convs, u # v, Tidy(u), chatOf[u] \notin Touched'
      PROVE  Tidy(u)'
  <2>1. Current(u)' => chosen'[chatOf[u]] = chosen[chatOf[u]]
    BY <1>2, <1>4, <1>5, <1>6 DEF TypeOK
  <2>2. pending'[u] = pending[u]
    BY <1>2, <1>6 DEF TypeOK
  <2>3. QED
    BY <1>2, <1>3, <1>4, <1>6, <2>1, <2>2, TidyFrame
<1>7. ASSUME c \notin Touched'
      PROVE  Tidy(v)'
  <2>1. \A p \in Procs : ~Brought(p, v)'
    BY <1>2, <1>3, <1>7
  <2>2. DialBase(v)' = cfg[v] /\ chosen'[c] = cfg[v]
    BY <1>2 DEF DialBase, TypeOK
  <2>3. QED
    BY <1>1, <1>2, <2>1, <2>2 DEF Tidy
<1>8. \A q \in Procs : pc'[q] = "same" => q \in Doors
  BY <1>2 DEF TidyInv
<1>9. QED
  BY <1>1, <1>2, <1>6, <1>7, <1>8 DEF TidyInv

(* A chat that is opened anew has chosen what it is born with.             *)
LEMMA BornKeepsTidy ==
  ASSUME Serial, TypeOK, SerialInv, TidyInv, NEW c \in Chats, NEW v \in Convs, Reopen(c, v) \/ NewChat(c, v)
  PROVE  TidyInv'
<1> USE SerialKinds
<1>1. /\ v # open /\ \A b \in Chats : byID[b] # v
      /\ \A p \in Procs : target[p] # v
  BY DEF Reopen, NewChat, Born, InUse
<1>2. byID[c] = None
  <2>1. byID[c] # None => byID[c] \in Convs /\ InUse(byID[c]) /\ chatOf[byID[c]] = c
    BY DEF TypeOK, InUse, SerialInv, Named
  <2>2. QED
    BY <2>1 DEF Reopen, NewChat
<1>3. PICK f \in Config : Born(v, c, f) /\ chosen' = [chosen EXCEPT ![c] = f]
  <2>1. CASE Reopen(c, v)
    BY <2>1 DEF Reopen, TypeOK
  <2>2. CASE NewChat(c, v)
    BY <2>2 DEF NewChat, TypeOK
  <2>3. QED
    BY <2>1, <2>2
<1>4. /\ chatOf' = [chatOf EXCEPT ![v] = c]
      /\ cfg' = [cfg EXCEPT ![v] = f] /\ pending' = [pending EXCEPT ![v] = None]
      /\ pc[Loader] = "idle" /\ pc'[Loader] = "apply" /\ target'[Loader] = v /\ carry'[Loader] = f
      /\ \A p \in Procs \ {Loader} : pc'[p] = pc[p] /\ target'[p] = target[p] /\ carry'[p] = carry[p]
      /\ UNCHANGED <<open, byID, crossed, dropped>>
  BY <1>3 DEF Born, Goto, TypeOK
<1>5. chatOf'[v] = c /\ chosen'[c] = f /\ \A b \in Chats \ {c} : chosen'[b] = chosen[b]
  BY <1>3, <1>4 DEF TypeOK
<1>6. \A p \in Procs \ {Loader}, u \in Convs : Brought(p, u)' <=> Brought(p, u)
  BY <1>4 DEF Brought, Brings, For
<1>7. \A u \in Convs : ~Brought(Loader, u) /\ (Brought(Loader, u)' <=> u = v)
  BY <1>4 DEF Brought, Brings, For
<1>8. \A p \in Procs : ~Brought(p, v)
  BY <1>1 DEF Brought, Brings, For, TypeOK
<1>9. ASSUME NEW u \in Convs, u # v, Tidy(u)
      PROVE  Tidy(u)'
  <2>1. chatOf'[u] = chatOf[u] /\ pending'[u] = pending[u] /\ cfg'[u] = cfg[u]
    BY <1>4, <1>9 DEF TypeOK
  <2>2. Current(u)' => Current(u) /\ chatOf[u] \in Chats /\ chatOf[u] # c
    BY <1>2, <1>4, <1>9, <2>1 DEF Current
  <2>3. \A q \in Procs : Brought(q, u)' <=> Brought(q, u)
    BY <1>6, <1>7, <1>9
  <2>4. \A q \in Procs : Brought(q, u) => pc'[q] = pc[q] /\ carry'[q] = carry[q]
    BY <1>4, <1>7
  <2>5. QED
    BY <1>5, <1>9, <2>1, <2>2, <2>3, <2>4, TidyFrame
<1>10. Tidy(v)'
  <2>1. \A p \in Procs : Brought(p, v)' => p = Loader
    BY <1>6, <1>8
  <2>2. Brought(Loader, v)' /\ pc'[Loader] = "apply" /\ carry'[Loader] = chosen'[chatOf'[v]]
    BY <1>4, <1>5, <1>7
  <2>3. QED
    BY <2>1, <2>2 DEF Tidy
<1>11. \A q \in Procs : pc'[q] = "same" => q \in Doors
  BY <1>4 DEF TidyInv
<1>12. QED
  <2>1. ASSUME NEW u \in Convs, u # v PROVE (chatOf[u] \in Touched \/ Tidy(u))'
    BY <1>4, <1>9, <2>1 DEF TidyInv, TypeOK, Touched
  <2>2. QED
    BY <1>10, <1>11, <2>1 DEF TidyInv

(***************************************************************************)
(* "Two dials moved during one turn are two decisions, and both have to    *)
(* arrive": whatever was parked, cancelled, landed or opened meanwhile,    *)
(* the dials of the chat on screen come to rest where they were last put,  *)
(* unless two configurations were in hand for it at once, or one was made  *)
(* beside a queued one, or it was let go of late. The doors that rebuild   *)
(* from the template are left out.                                         *)
(***************************************************************************)
THEOREM GateDialsArriveUncrossed ==
  ASSUME Serial, "reload" \notin Presses
  PROVE  Spec => []DialsArriveUncrossed
<1>1. Init => TidyInv
  <2>1. SUFFICES ASSUME Init PROVE TidyInv
    OBVIOUS
  <2>2. PICK c0 \in Chats, v0 \in Convs, f0 \in Config :
          /\ open = v0
          /\ byID = [c \in Chats |-> IF c = c0 THEN v0 ELSE None]
          /\ chatOf = [v \in Convs |-> IF v = v0 THEN c0 ELSE None]
          /\ cfg = [v \in Convs |-> f0]
          /\ pending = [v \in Convs |-> None]
          /\ pc = [p \in Procs |-> "idle"]
          /\ chosen = [c \in Chats |-> f0]
    BY <2>1 DEF Init
  <2>3. \A v \in Convs : Current(v) => v = v0
    BY <2>2, SerialKinds DEF Current
  <2>4. \A p \in Procs, v \in Convs : ~Brought(p, v)
    BY <2>2 DEF Brought, Brings
  <2>5. DialBase(v0) = f0 /\ chosen[chatOf[v0]] = f0
    BY <2>2 DEF DialBase
  <2>6. QED
    BY <2>2, <2>3, <2>4, <2>5 DEF TidyInv, Tidy
<1>2. TypeOK /\ SerialInv /\ TidyInv /\ [Next]_vars => TidyInv'
  <2> SUFFICES ASSUME TypeOK, SerialInv, TidyInv, [Next]_vars PROVE TidyInv'
    OBVIOUS
  <2> USE SerialKinds
  <2>0. Touched \subseteq Touched'
    BY HistoryGrows DEF Longer, Touched
  <2>1. ASSUME NEW s \in Sends, Capture(s) \/ Narrow(s) \/ Return(s) \/ TurnStep(s)
        PROVE  TidyInv'
    <3>1. CASE Land(s)
      <4>1. For(s) = target[s] /\ pc[s] = "apply"
        BY <3>1 DEF Land, For
      <4>2. QED
        BY <3>1, <4>1, ApplyKeepsTidy DEF Land, desk, past
    <3>2. QED
      BY <2>0, <2>1, <3>1, ManyStayTidy, EndKeepsTidy, SwapKeepsTidy DEF TurnStep, InTurn
  <2>2. ASSUME NEW d \in Doors, Press(d) \/ DoorStep(d)
        PROVE  TidyInv'
    <3>1. CASE DoorApply(d)
      <4>1. For(d) = (IF target[d] # None THEN target[d] ELSE open) /\ pc[d] = "apply"
        BY <3>1 DEF DoorApply, For
      <4>2. QED
        BY <3>1, <4>1, ApplyKeepsTidy DEF DoorApply, desk, past
    <3>2. QED
      BY <2>0, <2>2, <3>1, ManyStayTidy, PressKeepsTidy, LiveKeepsTidy, SwapKeepsTidy DEF DoorStep
  <2>3. CASE LoaderStep
    <3>1. CASE LoaderApply
      <4>1. For(Loader) = target[Loader] /\ pc[Loader] = "apply"
        BY <3>1 DEF LoaderApply, For
      <4>2. QED
        BY <3>1, <4>1, ApplyKeepsTidy DEF LoaderApply, desk, past
    <3>2. QED
      BY <2>0, <2>3, <3>1, ManyStayTidy, SwapKeepsTidy DEF LoaderStep
  <2>4. CASE Load
    BY <2>0, <2>4, ManyStayTidy, BornKeepsTidy DEF Load
  <2>5. CASE CancelPending \/ CancelTurn \/ StopEverything \/ UNCHANGED vars
    BY <2>0, <2>5, ManyStayTidy, CancelKeepsTidy
  <2>6. QED
    BY <2>1, <2>2, <2>3, <2>4, <2>5 DEF Next
<1>3. TypeOK /\ SerialInv /\ TidyInv => DialsArriveUncrossed
  <2> SUFFICES ASSUME TypeOK, SerialInv, TidyInv, AtRest, OnScreen \notin Touched
               PROVE  cfg[open] = chosen[OnScreen]
    BY DEF DialsArriveUncrossed, Touched
  <2> USE SerialKinds
  <2>1. open \in Convs /\ Tidy(open)
    BY DEF TypeOK, TidyInv, OnScreen
  <2>2. \A p \in Procs : ~Brought(p, open)
    BY DEF AtRest, Brought, Brings, For, OnScreen
  <2>3. Current(open) /\ pending[open] = None
    BY <2>1, OnScreenIsChat DEF AtRest, Running, SerialInv, Kept, InMap, Parked, Current, OnScreen, Touched
  <2>4. QED
    BY <2>1, <2>2, <2>3 DEF Tidy, DialBase, OnScreen
<1>4. QED
  BY <1>1, <1>2, <1>3, GateTyping, GateSerially, PTL DEF Spec

-----------------------------------------------------------------------------
(* One chat, and a window that waits for nothing: calls, turns and dials   *)
(* fall between each other's steps anywhere, as long as no other chat is   *)
(* opened.                                                                 *)
StaysOpen == "load" \notin Presses /\ "new" \notin Presses

(* All there is works on the conversation on screen, and what is parked    *)
(* waits for a turn in it.                                                 *)
OneDesk ==
  /\ byID[OnScreen] = open
  /\ pc[Loader] = "idle"
  /\ \A p \in Procs : target[p] \in {None, open} /\ pc[p] # "letting"
  /\ \A v \in Convs : pending[v] # None => v = open /\ Running(OnScreen)

(* The section of applyConfig, and the rebuild.                            *)
LEMMA ApplyKeepsDesk ==
  ASSUME TypeOK, OneDesk, NEW p \in Procs, NEW done \in {"idle", "leaving"}, p # Loader,
         pc[p] = "apply", Apply(p, open, done), UNCHANGED <<desk, turns>>
  PROVE  OneDesk'
<1>1. /\ \A q \in Procs \ {p} : pc'[q] = pc[q] /\ target'[q] = target[q]
      /\ pc'[p] \in {done, "swap"} /\ target'[p] \in {None, open}
  BY ApplyTypes DEF TypeOK
<1>2. \A v \in Convs : pending'[v] # None => v = open /\ Running(OnScreen)
  BY DEF Apply, OneDesk, TypeOK, OnScreen
<1>3. QED
  BY <1>1, <1>2, SerialKinds DEF OneDesk, OnScreen, Running, desk

LEMMA DeskIsOne ==
  ASSUME StaysOpen, TypeOK, OneDesk, [Next]_vars
  PROVE  OneDesk' /\ UNCHANGED desk
<1> USE SerialKinds
<1>0. open \in Convs /\ OnScreen \in Chats /\ pc[Loader] = "idle"
  BY OnScreenIsChat DEF TypeOK, OneDesk
<1>1. CASE UNCHANGED vars
  BY <1>1 DEF vars, OneDesk, OnScreen, Running, desk, flight, dials, calls
<1>2. ASSUME NEW s \in Sends, Capture(s) \/ TurnBusy(s) \/ InTurn(s) \/ Narrow(s)
      PROVE  OneDesk' /\ UNCHANGED desk
  BY <1>0, <1>2 DEF Capture, TurnBusy, InTurn, OpenTurn, NotReady, Arm, Return, AppendTurn, Narrow, Goto,
                    Holding, OneDesk, OnScreen, Running, TypeOK, desk, flight, dials, calls
<1>3. ASSUME NEW s \in Sends, Begin(s)
      PROVE  OneDesk' /\ UNCHANGED desk
  <2>1. target[s] = open
    BY <1>3, CallHolds DEF Begin, Goto, OneDesk
  <2>2. QED
    BY <1>0, <1>3, <2>1 DEF Begin, Goto, OneDesk, OnScreen, Running, TypeOK, desk, dials
<1>4. ASSUME NEW s \in Sends, EndTurn(s)
      PROVE  OneDesk' /\ UNCHANGED desk
  <2>1. target[s] = open
    BY <1>4, CallHolds DEF EndTurn, OneDesk
  <2>2. byID[chatOf[target[s]]] = open /\ open # None
    BY <1>0, <2>1 DEF OneDesk, OnScreen
  <2>3. /\ pending' = [pending EXCEPT ![open] = None] /\ UNCHANGED desk
        /\ \A q \in Procs \ {s} : pc'[q] = pc[q] /\ target'[q] = target[q]
        /\ pc'[s] \in {"apply", "leaving"} /\ target'[s] \in {target[s], open}
    BY <1>4, <2>2 DEF EndTurn, TypeOK
  <2>4. \A v \in Convs : pending'[v] = None
    BY <2>3 DEF OneDesk, TypeOK
  <2>5. QED
    BY <2>1, <2>3, <2>4 DEF OneDesk, OnScreen, desk
<1>5. ASSUME NEW s \in Sends, Land(s)
      PROVE  OneDesk' /\ UNCHANGED desk
  <2>1. target[s] = open /\ s # Loader
    BY <1>5, CallHolds DEF Land, OneDesk
  <2>2. QED
    BY <1>0, <1>5, <2>1, ApplyKeepsDesk DEF Land, flight
<1>6. ASSUME NEW s \in Sends, Leave(s)
      PROVE  OneDesk' /\ UNCHANGED desk
  <2>1. target[s] = open
    BY <1>6, CallHolds DEF Leave, OneDesk
  <2>2. pc' = [pc EXCEPT ![s] = "idle"]
    BY <1>6, <2>1 DEF Leave, OnScreen
  <2>3. QED
    BY <1>0, <1>6, <2>2 DEF Leave, Holding, OneDesk, OnScreen, Running, TypeOK, desk, flight, dials
<1>7. ASSUME NEW p \in Procs, NEW done \in {"idle", "leaving"}, Swap(p, done)
      PROVE  OneDesk' /\ UNCHANGED desk
  <2>1. p # Loader
    BY <1>0, <1>7 DEF Swap, Goto
  <2>2. QED
    BY <1>0, <1>7, <2>1 DEF Swap, Goto, Holding, OneDesk, OnScreen, Running, TypeOK, desk, flight
<1>8. ASSUME NEW d \in Doors, Press(d) \/ LevelWaits(d)
      PROVE  OneDesk' /\ UNCHANGED desk
  BY <1>0, <1>8 DEF Press, PressDial, PressLevel, PressRefresh, PressReload, LevelWaits, Goto,
                    OneDesk, OnScreen, Running, TypeOK, desk, flight, dials
<1>9. ASSUME NEW d \in Doors, LevelLive(d)
      PROVE  OneDesk' /\ UNCHANGED desk
  <2>1. /\ UNCHANGED <<open, byID, chatOf, turns>>
        /\ \A v \in Convs : pending'[v] # None => pending[v] # None
    BY <1>9 DEF LevelLive, TypeOK, desk, flight
  <2>2. /\ \A q \in Procs \ {d} : pc'[q] = pc[q] /\ target'[q] = target[q]
        /\ pc'[d] = "idle" /\ target'[d] = None
    BY <1>9 DEF LevelLive, Goto, Holding, TypeOK
  <2>3. QED
    BY <2>1, <2>2 DEF OneDesk, OnScreen, Running, desk
<1>10. ASSUME NEW d \in Doors, DoorApply(d)
       PROVE  OneDesk' /\ UNCHANGED desk
  <2>1. (IF target[d] # None THEN target[d] ELSE open) = open /\ d # Loader
    BY DEF OneDesk
  <2>2. QED
    BY <1>0, <1>10, <2>1, ApplyKeepsDesk DEF DoorApply, flight
<1>11. CASE CancelPending
  BY <1>0, <1>11 DEF CancelPending, OneDesk, OnScreen, Running, TypeOK, desk, flight, calls
<1>12. CASE CancelTurn \/ StopEverything
  BY <1>12 DEF CancelTurn, StopEverything, Halt, OneDesk, OnScreen, Running, desk, dials, calls
<1>13. CASE Load
  BY <1>13 DEF Load, Attach, Reopen, NewChat, StaysOpen
<1>14. CASE LoaderStep
  BY <1>0, <1>14 DEF LoaderStep, LoaderApply, Swap, Show, Outgoing, LetGo, Goto
<1>15. ASSUME NEW s \in Sends, LetGo(s) PROVE FALSE
  BY <1>15 DEF LetGo, Goto, OneDesk
<1>16. QED
  BY <1>1, <1>2, <1>3, <1>4, <1>5, <1>6, <1>7, <1>8, <1>9, <1>10, <1>11, <1>12, <1>13, <1>14, <1>15
     DEF Next, TurnStep, DoorStep, InTurn

LEMMA OneDeskAlways == ASSUME StaysOpen PROVE Spec => []OneDesk
<1>1. Init => OneDesk
  BY GateAssumption, SerialKinds DEF Init, OneDesk, OnScreen, Procs
<1>2. TypeOK /\ OneDesk /\ [Next]_vars => OneDesk'
  BY DeskIsOne
<1>3. QED
  BY <1>1, <1>2, GateTyping, PTL DEF Spec

(***************************************************************************)
(* applyConfig, "so a turn cannot end between the check and the write and  *)
(* strand the config": with calls and turns of one chat in any order, and  *)
(* with nobody waiting for anybody, what is parked waits for a turn.       *)
(***************************************************************************)
THEOREM GateStrandsNothingInOneChat == ASSUME StaysOpen PROVE Spec => []NothingStranded
<1>1. OneDesk => NothingStranded
  BY DEF OneDesk, NothingStranded, OnScreen
<1>2. QED
  BY <1>1, OneDeskAlways, PTL

(* An engine that narrowed its stance is rebuilt by a call under way, or   *)
(* at the end of the turn, which finds a configuration or the mark.        *)
StanceDue ==
  engine[open] = "stale" =>
    \/ \E p \in Procs : target[p] = open /\ pc[p] \in {"apply", "swap"}
    \/ Running(OnScreen) /\ (open \in restance \/ pending[open] # None)

(* A call that was about to apply has parked, or goes to rebuild.          *)
LEMMA ApplyKeepsDue ==
  ASSUME TypeOK, OneDesk, StanceDue, NEW p \in Procs, NEW done \in {"idle", "leaving"},
         pc[p] = "apply", Apply(p, open, done), UNCHANGED <<desk, turns, engine, restance>>
  PROVE  StanceDue'
<1>1. open \in Convs /\ carry[p] \in Config /\ None \notin Config
  BY SerialKinds, GateAssumption DEF TypeOK
<1>2. CASE Running(OnScreen)
  <2>1. pending'[open] = carry[p] /\ turns' = turns /\ OnScreen' = OnScreen /\ open' = open
    BY <1>1, <1>2 DEF Apply, TypeOK, OnScreen, desk
  <2>2. QED
    BY <1>1, <1>2, <2>1 DEF StanceDue, Running
<1>3. CASE ~ Running(OnScreen)
  <2>1. pc'[p] = "swap" /\ target'[p] = open /\ open' = open
    BY <1>3 DEF Apply, Holding, TypeOK, OnScreen, desk
  <2>2. QED
    BY <2>1 DEF StanceDue
<1>4. QED
  BY <1>2, <1>3

LEMMA DueStep ==
  ASSUME StaysOpen, "cancel" \notin Presses, TypeOK, OneTurn, OneDesk, StanceDue, [Next]_vars
  PROVE  StanceDue'
<1> USE SerialKinds
<1>0. /\ open \in Convs /\ OnScreen \in Chats /\ pc[Loader] = "idle"
      /\ open' = open /\ OnScreen' = OnScreen /\ UNCHANGED desk
  BY OnScreenIsChat, DeskIsOne DEF TypeOK, OneDesk, OnScreen, desk
(* Steps that take nothing from where it is due.                           *)
<1>1. ASSUME engine'[open] = engine[open], open \in restance => open \in restance',
             pending[open] # None => pending'[open] # None,
             Running(OnScreen) => turns'[OnScreen] # None,
             \A p \in Procs : target[p] = open /\ pc[p] \in {"apply", "swap"} =>
               target'[p] = open /\ pc'[p] \in {"apply", "swap"}
      PROVE  StanceDue'
  BY <1>0, <1>1 DEF StanceDue, Running
<1>2. CASE UNCHANGED vars
  BY <1>1, <1>2 DEF vars, Running, desk, flight, dials, calls
<1>3. ASSUME NEW s \in Sends, Capture(s) \/ TurnBusy(s) \/ InTurn(s) \/ Leave(s)
      PROVE  StanceDue'
  BY <1>0, <1>1, <1>3 DEF Capture, TurnBusy, InTurn, OpenTurn, NotReady, Arm, Return, AppendTurn, Leave, Goto,
                    Holding, Running, TypeOK, flight, dials, calls
<1>4. ASSUME NEW s \in Sends, Begin(s)
      PROVE  StanceDue'
  <2>1. target[s] \in Convs /\ chatOf[target[s]] \in Chats
    BY <1>4, CallHolds DEF Begin, Goto
  <2>2. QED
    BY <1>0, <1>1, <1>4, <2>1 DEF Begin, Goto, Running, TypeOK, dials
<1>5. ASSUME NEW s \in Sends, Narrow(s)
      PROVE  StanceDue'
  <2>1. target[s] = open /\ InFlight(s)
    BY <1>5, CallHolds DEF Narrow, InFlight, OneDesk
  <2>2. Running(OnScreen)
    BY <1>0, <2>1 DEF OneTurn, Running, OnScreen
  <2>3. open \in restance' /\ turns' = turns
    BY <1>5, <2>1 DEF Narrow, flight
  <2>4. QED
    BY <1>0, <2>2, <2>3 DEF StanceDue, Running
<1>6. ASSUME NEW s \in Sends, EndTurn(s)
      PROVE  StanceDue'
  <2>1. target[s] = open
    BY <1>6, CallHolds DEF EndTurn, OneDesk
  <2>2. byID[chatOf[target[s]]] = open /\ open # None
    BY <1>0, <2>1 DEF OneDesk, OnScreen
  <2>3. /\ engine' = engine /\ pc[s] = "ended"
        /\ \A q \in Procs \ {s} : pc'[q] = pc[q] /\ target'[q] = target[q]
        /\ pending[open] # None \/ open \in restance => pc'[s] = "apply" /\ target'[s] = open
    BY <1>6, <2>2 DEF EndTurn, TypeOK
  <2>4. QED
    BY <1>0, <2>3 DEF StanceDue
<1>7. ASSUME NEW s \in Sends, Land(s)
      PROVE  StanceDue'
  <2>1. target[s] = open
    BY <1>7, CallHolds DEF Land, OneDesk
  <2>2. QED
    BY <1>0, <1>7, <2>1, ApplyKeepsDue DEF Land, flight
<1>8. ASSUME NEW d \in Doors, DoorApply(d)
      PROVE  StanceDue'
  <2>1. (IF target[d] # None THEN target[d] ELSE open) = open
    BY DEF OneDesk
  <2>2. QED
    BY <1>0, <1>8, <2>1, ApplyKeepsDue DEF DoorApply, flight
<1>9. ASSUME NEW p \in Procs, NEW done \in {"idle", "leaving"}, p # Loader, Swap(p, done)
      PROVE  StanceDue'
  <2>1. target[p] = open
    BY <1>9 DEF Swap, Goto, OneDesk, TypeOK
  <2>2. engine'[open] \in {"built", "none"}
    BY <1>0, <1>9, <2>1 DEF Swap, TypeOK, Booted
  <2>3. QED
    BY <1>0, <2>2 DEF StanceDue
<1>10. ASSUME NEW d \in Doors, Press(d) \/ LevelWaits(d)
       PROVE  StanceDue'
  BY <1>0, <1>1, <1>10 DEF Press, PressDial, PressLevel, PressRefresh, PressReload, LevelWaits, Goto,
                    Running, TypeOK, flight, dials
<1>11. ASSUME NEW d \in Doors, LevelLive(d)
       PROVE  StanceDue'
  <2>1. /\ UNCHANGED <<turns, engine, restance>>
        /\ \A q \in Procs \ {d} : pc'[q] = pc[q] /\ target'[q] = target[q]
        /\ pc[d] = "same"
    BY <1>11 DEF LevelLive, Goto, Holding, TypeOK, flight
  <2>2. pending[open] # None => pending'[open] # None
    <3>1. carry[d] \in Config /\ target[d] \in Convs
      BY <2>1 DEF TypeOK
    <3>2. ASSUME pending[open] # None PROVE pending'[open] # None
      <4>1. pending[open] \in Config /\ carry[d].level \in Levels
        BY <1>0, <3>1, <3>2, DialedConfig DEF TypeOK
      <4>2. [pending[open] EXCEPT !.level = carry[d].level] \in Config
        BY <4>1, DialedConfig
      <4>3. pending'[open] \in {pending[open], [pending[open] EXCEPT !.level = carry[d].level]}
        BY <1>0, <1>11, <3>1 DEF LevelLive, TypeOK
      <4>4. QED
        BY <4>1, <4>2, <4>3, GateAssumption
    <3>3. QED
      BY <3>2
  <2>3. QED
    BY <1>1, <2>1, <2>2 DEF Running
<1>12. CASE CancelPending
  BY <1>12 DEF CancelPending
<1>13. CASE CancelTurn \/ StopEverything
  BY <1>1, <1>13 DEF CancelTurn, StopEverything, Halt, Running, dials, calls
<1>14. CASE Load
  BY <1>14 DEF Load, Attach, Reopen, NewChat, StaysOpen
<1>15. CASE LoaderStep
  BY <1>0, <1>15 DEF LoaderStep, LoaderApply, Swap, Show, Outgoing, LetGo, Goto
<1>16. ASSUME NEW s \in Sends, LetGo(s) PROVE FALSE
  BY <1>16 DEF LetGo, Goto, OneDesk
<1>17. ASSUME NEW s \in Sends, TurnStep(s) PROVE StanceDue'
  BY <1>3, <1>4, <1>6, <1>7, <1>9, <1>16, <1>17 DEF TurnStep, InTurn
<1>18. QED
  BY <1>2, <1>3, <1>5, <1>8, <1>9, <1>10, <1>11, <1>12, <1>13, <1>14, <1>15, <1>17
     DEF Next, DoorStep, InTurn

(***************************************************************************)
(* setStance from a turn, endTurn and applyConfig: in one chat, whatever   *)
(* falls between the end of a turn and its rebuild, the engine is rebuilt  *)
(* by a call under way or its turn's end has the mark or a configuration;  *)
(* CancelPendingModel, which takes a configuration away, left out.         *)
(***************************************************************************)
THEOREM GateStanceInOneChat ==
  ASSUME StaysOpen, "cancel" \notin Presses PROVE Spec => []StanceIsRebuilt
<1>1. Init => StanceDue
  BY SerialKinds DEF Init, StanceDue, Booted
<1>2. TypeOK /\ OneTurn /\ OneDesk /\ StanceDue /\ [Next]_vars => StanceDue'
  BY DueStep
<1>3. StanceDue => StanceIsRebuilt
  BY DEF StanceDue, StanceIsRebuilt
<1>4. QED
  BY <1>1, <1>2, <1>3, GateTyping, GateOneTurn, OneDeskAlways, PTL DEF Spec
=============================================================================
