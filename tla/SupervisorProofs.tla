-------------------------- MODULE SupervisorProofs --------------------------
(***************************************************************************)
(* What is proved of the supervisor and of the client it drives, for any   *)
(* engines, wires, bindings and limits: types, one engine at a time,       *)
(* nobody stranded, and, when the user switches only while a wire is up,   *)
(* stores that are about the engine behind the wire.                       *)
(***************************************************************************)
EXTENDS Supervisor, TLAPS

(* Steps of the client's own, and of the frontend.                         *)
ClientStep == (\E w \in Wires : Upkeep(w) \/ WireEnds(w)) \/ Frontend

(* A step of run, of a button, of the engine or of the page leaves the     *)
(* client alone, but for the dial.                                         *)
LEMMA ClientSteps ==
  ASSUME [Next]_vars
  PROVE  UNCHANGED clientVars \/ (ClientStep /\ UNCHANGED supVars) \/ \E w \in Wires : Dial(w)
<1>1. CASE UNCHANGED vars
  BY <1>1 DEF vars
<1>2. CASE Run
  BY <1>2 DEF Run, Decide, TakePermission, Choose, SpawnFails, Spawned, ConnectFails, Greeted, TakeSwitched, Arm,
              TakeKick, SeeExit, SeeWire, NoteRestart, BackoffOver
<1>3. CASE Leave \/ RestartEngine \/ (\E e \in Engines : Retarget(e)) \/ RetargetKicks \/ MinutePasses
           \/ EngineExits \/ LoadPage
  BY <1>3 DEF Leave, RestartEngine, Retarget, RetargetKicks, MinutePasses, EngineExits, LoadPage
<1>4. CASE (\E w \in Wires : Upkeep(w) /\ UNCHANGED supVars) \/ (\E w \in Wires : WireDrops(w))
           \/ (Frontend /\ UNCHANGED supVars)
  BY <1>4 DEF ClientStep, WireDrops
<1>5. QED
  BY <1>1, <1>2, <1>3, <1>4 DEF Next

-----------------------------------------------------------------------------
(* The client's types, and those of the rest.                              *)

LEMMA ClientTyped ==
  ASSUME ClientTypeOK, ClientStep \/ (\E w \in Wires : Connect(w)) \/ UNCHANGED clientVars
  PROVE  ClientTypeOK'
<1>1. CASE UNCHANGED clientVars
  BY <1>1 DEF ClientTypeOK, clientVars
<1>2. ASSUME NEW w \in Wires, Connect(w) PROVE ClientTypeOK'
  BY <1>2 DEF ClientTypeOK, Connect, Stages
<1>3. ASSUME NEW w \in Wires, CloseOld(w) PROVE ClientTypeOK'
  BY <1>3 DEF ClientTypeOK, CloseOld, Stages
<1>4. ASSUME NEW w \in Wires, Forget(w) PROVE ClientTypeOK'
  BY <1>4 DEF ClientTypeOK, Forget, NewChannel, Stages
<1>5. ASSUME NEW w \in Wires, WireEnds(w) PROVE ClientTypeOK'
  BY <1>5 DEF ClientTypeOK, WireEnds
<1>6. ASSUME NEW b \in Bindings, Begin(b) \/ Wake(b) \/ NoWireCame(b) \/ Answered(b) \/ Disconnected(b)
      PROVE  ClientTypeOK'
  BY <1>6 DEF ClientTypeOK, Begin, Wake, NoWireCame, Answered, Disconnected, Goto, Ended
<1>7. ASSUME NEW b \in Bindings, Read(b) PROVE ClientTypeOK'
  BY <1>7 DEF ClientTypeOK, Read, Goto
<1>8. QED
  BY <1>1, <1>2, <1>3, <1>4, <1>5, <1>6, <1>7 DEF ClientStep, Upkeep, Frontend, Caller

(* What the types rest on: a process that runs is an engine, the spawn has *)
(* a target, and between the permission and the note there is room for     *)
(* one restart more.                                                       *)
Grounded ==
  /\ procUp => proc \in Engines
  /\ at = "spawning" => spawning \in Engines
  /\ at \notin {"start", "backoff", "failed", "unspawned", "over"} => restarts < MaxRestarts

LEMMA AliveIsEngine ==
  ASSUME Grounded, NEW e, Alive(e)
  PROVE  e \in Engines
BY SupervisorAssumption DEF Grounded, Alive

LEMMA StepTyped == TypeOK /\ Grounded /\ [Next]_vars => TypeOK'
<1> SUFFICES ASSUME TypeOK, Grounded, [Next]_vars PROVE TypeOK'
  OBVIOUS
<1>1. ClientTypeOK'
  BY ClientSteps, ClientTyped DEF TypeOK, Dial
<1>2. CASE UNCHANGED supVars
  BY <1>1, <1>2 DEF TypeOK, supVars
<1>3. CASE Decide
  BY <1>1, <1>3 DEF TypeOK, Steps, Step, Decide
<1>20. CASE TakePermission
  <2>1. at' \in Steps
    BY <1>20 DEF Steps, Step, TakePermission
  <2>2. restarts' \in 0 .. MaxRestarts
    BY <1>20, SupervisorAssumption DEF TypeOK, TakePermission
  <2>3. QED
    BY <1>1, <1>20, <2>1, <2>2 DEF TypeOK, TakePermission
<1>4. CASE Choose \/ SpawnFails
  BY <1>1, <1>4, SupervisorAssumption DEF TypeOK, Steps, Step, Choose, SpawnFails
<1>5. CASE Spawned
  BY <1>1, <1>5, SupervisorAssumption DEF TypeOK, Steps, Step, Spawned
<1>6. ASSUME NEW w \in Wires, Dial(w) PROVE TypeOK'
  BY <1>1, <1>6 DEF TypeOK, Steps, Step, Dial
<1>7. CASE ConnectFails
  BY <1>1, <1>7 DEF TypeOK, Steps, Step, ConnectFails, StopEngine
<1>8. CASE Greeted
  BY <1>1, <1>8 DEF TypeOK, Steps, Step, Greeted
<1>9. CASE TakeSwitched
  BY <1>1, <1>9 DEF TypeOK, Steps, Step, TakeSwitched
<1>10. CASE Arm
  BY <1>1, <1>10 DEF TypeOK, ClientTypeOK, Steps, Step, Arm
<1>11. CASE TakeKick
  BY <1>1, <1>11 DEF TypeOK, Steps, Step, TakeKick, StopEngine
<1>12. CASE SeeExit \/ SeeWire \/ BackoffOver
  BY <1>1, <1>12 DEF TypeOK, Steps, Step, SeeExit, SeeWire, BackoffOver
<1>13. CASE NoteRestart
  BY <1>1, <1>13, SupervisorAssumption DEF TypeOK, Grounded, Steps, Step, NoteRestart
<1>14. CASE Leave
  BY <1>1, <1>14 DEF TypeOK, Steps, Step, Leave, StopEngine
<1>15. CASE RestartEngine \/ RetargetKicks \/ EngineExits
  BY <1>1, <1>15 DEF TypeOK, RestartEngine, RetargetKicks, EngineExits
<1>16. ASSUME NEW e \in Engines, Retarget(e) PROVE TypeOK'
  BY <1>1, <1>16, SupervisorAssumption DEF TypeOK, Retarget
<1>17. CASE MinutePasses
  BY <1>1, <1>17, SupervisorAssumption DEF TypeOK, MinutePasses
<1>18. CASE LoadPage
  BY <1>1, <1>18, AliveIsEngine DEF TypeOK, LoadPage
<1>19. QED
  BY <1>2, <1>3, <1>4, <1>5, <1>6, <1>7, <1>8, <1>9, <1>10, <1>11, <1>12, <1>13, <1>14, <1>15, <1>16,
     <1>17, <1>18, <1>20
  DEF Next, Run, WireDrops, vars, supVars

LEMMA StepGrounded == TypeOK /\ Grounded /\ [Next]_vars => Grounded'
<1> SUFFICES ASSUME TypeOK, Grounded, [Next]_vars PROVE Grounded'
  OBVIOUS
<1> USE SupervisorAssumption DEF Grounded, Step
<1>1. CASE UNCHANGED supVars
  BY <1>1 DEF supVars
<1>2. CASE Decide \/ TakePermission \/ Choose \/ SpawnFails \/ Spawned
  BY <1>2 DEF TypeOK, Decide, TakePermission, Choose, SpawnFails, Spawned
<1>3. ASSUME NEW w \in Wires, Dial(w) PROVE Grounded'
  BY <1>3 DEF Dial
<1>4. CASE ConnectFails
  BY <1>4 DEF ConnectFails, StopEngine
<1>9. CASE Greeted
  BY <1>9 DEF Greeted
<1>10. CASE TakeSwitched \/ Arm
  BY <1>10 DEF TakeSwitched, Arm
<1>5. CASE TakeKick \/ SeeExit \/ SeeWire \/ BackoffOver \/ NoteRestart \/ Leave
  BY <1>5 DEF TakeKick, SeeExit, SeeWire, BackoffOver, NoteRestart, Leave, StopEngine
<1>6. CASE RestartEngine \/ (\E e \in Engines : Retarget(e)) \/ RetargetKicks \/ EngineExits \/ LoadPage
  BY <1>6 DEF RestartEngine, Retarget, RetargetKicks, EngineExits, LoadPage
<1>7. CASE MinutePasses
  BY <1>7 DEF TypeOK, MinutePasses
<1>8. QED
  BY <1>1, <1>2, <1>3, <1>4, <1>5, <1>6, <1>7, <1>9, <1>10 DEF Next, Run, WireDrops, vars, supVars

(***************************************************************************)
(* The supervisor and its client keep to their types; in particular no     *)
(* more than MaxRestarts restarts are ever noted within a minute.          *)
(***************************************************************************)
THEOREM SupervisorTyping == Spec => [](TypeOK /\ Grounded)
<1>1. Init => TypeOK /\ Grounded
  <2> SUFFICES ASSUME Init PROVE TypeOK /\ Grounded
    OBVIOUS
  <2>1. ClientTypeOK
    BY DEF Init, ClientInit, ClientTypeOK, Stages
  <2>2. restarts \in 0 .. MaxRestarts
    BY SupervisorAssumption DEF Init
  <2>3. QED
    BY <2>1, <2>2 DEF Init, TypeOK, Grounded, Steps
<1>2. TypeOK /\ Grounded /\ [Next]_vars => (TypeOK /\ Grounded)'
  BY StepTyped, StepGrounded
<1>3. QED
  BY <1>1, <1>2, PTL DEF Spec

-----------------------------------------------------------------------------
(***************************************************************************)
(* The window never starts an engine while one it started still runs.      *)
(* Every way out of the steps at which one runs stops it or has seen it    *)
(* exit, so the claim is inductive as it stands.                           *)
(***************************************************************************)
THEOREM NeverTwoEngines == Spec => []OneEngine
<1>1. Init => OneEngine
  BY DEF Init, OneEngine
<1>2. OneEngine /\ [Next]_vars => OneEngine'
  <2> SUFFICES ASSUME OneEngine, [Next]_vars PROVE OneEngine'
    OBVIOUS
  <2> USE DEF OneEngine, Step
  <2>1. CASE UNCHANGED supVars
    BY <2>1 DEF supVars
  <2>2. CASE Decide \/ TakePermission \/ Choose \/ SpawnFails \/ Spawned
    BY <2>2 DEF Decide, TakePermission, Choose, SpawnFails, Spawned
  <2>3. ASSUME NEW w \in Wires, Dial(w) PROVE OneEngine'
    BY <2>3 DEF Dial
  <2>4. CASE ConnectFails
    BY <2>4 DEF ConnectFails, StopEngine
  <2>5. CASE Greeted
    BY <2>5 DEF Greeted
  <2>6. CASE TakeSwitched \/ Arm
    BY <2>6 DEF TakeSwitched, Arm
  <2>7. CASE TakeKick \/ SeeExit \/ SeeWire \/ BackoffOver \/ NoteRestart
    BY <2>7 DEF TakeKick, SeeExit, SeeWire, BackoffOver, NoteRestart, StopEngine
  <2>8. CASE Leave
    BY <2>8 DEF Leave, StopEngine
  <2>9. CASE RestartEngine \/ (\E e \in Engines : Retarget(e)) \/ RetargetKicks \/ MinutePasses \/ LoadPage
    BY <2>9 DEF RestartEngine, Retarget, RetargetKicks, MinutePasses, LoadPage
  <2>10. CASE EngineExits
    BY <2>10 DEF EngineExits
  <2>11. QED
    BY <2>1, <2>2, <2>3, <2>4, <2>5, <2>6, <2>7, <2>8, <2>9, <2>10 DEF Next, Run, WireDrops, vars, supVars
<1>3. QED
  BY <1>1, <1>2, PTL DEF Spec

-----------------------------------------------------------------------------
(* Nobody stranded. A channel is replaced only when its wire goes, and     *)
(* while there is a wire it is closed: no channel is ever lost open.       *)
Reachable ==
  /\ ChannelTellsTheWire
  /\ \A b \in Bindings : holds[b] # "lost"

LEMMA StepReachable ==
  ASSUME ClientTypeOK, Reachable, ClientStep \/ (\E w \in Wires : Connect(w)) \/ UNCHANGED clientVars
  PROVE  Reachable'
<1> USE DEF Reachable, ChannelTellsTheWire
<1>1. CASE UNCHANGED clientVars
  BY <1>1 DEF clientVars
<1>2. ASSUME NEW w \in Wires, Connect(w) PROVE Reachable'
  BY <1>2, ClientAssumption DEF ClientTypeOK, Connect
<1>3. ASSUME NEW w \in Wires, CloseOld(w) \/ WireEnds(w) PROVE Reachable'
  BY <1>3 DEF CloseOld, WireEnds
<1>4. ASSUME NEW w \in Wires, Forget(w) PROVE Reachable'
  BY <1>4, ClientAssumption DEF ClientTypeOK, Forget, NewChannel
<1>5. ASSUME NEW b \in Bindings, Begin(b) \/ Wake(b) \/ NoWireCame(b) \/ Answered(b) \/ Disconnected(b)
      PROVE  Reachable'
  BY <1>5 DEF Begin, Wake, NoWireCame, Answered, Disconnected
<1>6. ASSUME NEW b \in Bindings, Read(b) PROVE Reachable'
  BY <1>6 DEF ClientTypeOK, Read
<1>7. QED
  BY <1>1, <1>2, <1>3, <1>4, <1>5, <1>6 DEF ClientStep, Upkeep, Frontend, Caller

(***************************************************************************)
(* Under the supervisor, whose redials put a new wire under a client that  *)
(* may still have the old one, no binding waits on a channel no Connect    *)
(* will close, and the channel tells of the wire.                          *)
(***************************************************************************)
THEOREM WaitersAreReached == Spec => []NobodyIsStranded
<1>1. Init => Reachable
  BY DEF Init, ClientInit, Reachable, ChannelTellsTheWire
<1>2. TypeOK /\ Reachable /\ [Next]_vars => Reachable'
  BY ClientSteps, StepReachable DEF TypeOK, Dial
<1>3. Reachable => NobodyIsStranded
  BY DEF Reachable, NobodyIsStranded
<1>4. QED
  BY <1>1, <1>2, <1>3, SupervisorTyping, PTL DEF Spec

-----------------------------------------------------------------------------
(* The stores and the engine behind the wire. Five engines are named: the  *)
(* one asked for, the one spawn was given, the one that runs, the one the  *)
(* wire leads to and the one the page is about. The first two steps of the *)
(* chain hold by where run is, the others until the next switch; and a     *)
(* switch that run has not heard of yet has a kick on the way.             *)
Connected == {"greeting", "switching", "arming", "live"}

SpawnedWhatItDials ==
  /\ at \in Connected \cup {"dialing"} => proc = spawning
  /\ at \in Connected \/ (at = "dialing" /\ redial) => conn = NoWire \/ to[conn] = proc
  /\ at \in {"spawning", "switching"} \/ (at \in {"dialing", "greeting"} /\ ~redial) => spawning = target

WordGiven ==
  switched /\ (at \in {"arming", "live"} \/ (at \in {"dialing", "greeting"} /\ redial)) => kick \/ kicking

AboutTheTarget ==
  ~switched =>
    /\ conn # NoWire => to[conn] = target
    /\ at \in Connected \cup {"dialing"} => spawning = target
    /\ page # "loading" => page = target

Told == SpawnedWhatItDials /\ WordGiven /\ AboutTheTarget

LEMMA StepTold ==
  ASSUME SwitchAt \subseteq {"live"}, TypeOK, Told, [Next]_vars
  PROVE  Told'
<1> USE DEF Told, SpawnedWhatItDials, WordGiven, AboutTheTarget, Connected, Step
<1>1. CASE UNCHANGED vars
  BY <1>1 DEF vars, clientVars, supVars
<1>2. CASE ClientStep /\ UNCHANGED supVars
  <2>1. conn' = conn \/ conn' = NoWire
    BY <1>2 DEF ClientStep, Upkeep, WireEnds, CloseOld, Forget, Frontend, Begin, Caller, Read, Wake, Disconnected,
                NoWireCame, Answered
  <2>2. QED
    BY <1>2, <2>1 DEF supVars
<1>3. CASE Decide \/ TakePermission \/ Choose \/ SpawnFails
  BY <1>3 DEF Decide, TakePermission, Choose, SpawnFails, clientVars
<1>4. CASE Spawned
  BY <1>4 DEF Spawned, clientVars
<1>5. ASSUME NEW w \in Wires, Dial(w) PROVE Told'
  <2>1. conn' = w /\ to'[w] = proc
    BY <1>5 DEF Dial, Connect, TypeOK
  <2>2. QED
    BY <1>5, <2>1 DEF Dial
<1>6. CASE ConnectFails
  BY <1>6 DEF ConnectFails, clientVars
<1>7. CASE Greeted
  BY <1>7 DEF Greeted, clientVars, TypeOK
<1>8. CASE TakeSwitched
  BY <1>8 DEF TakeSwitched, clientVars
<1>9. CASE Arm
  BY <1>9 DEF Arm, clientVars
<1>10. CASE TakeKick \/ SeeExit \/ SeeWire \/ NoteRestart \/ BackoffOver \/ Leave
  BY <1>10 DEF TakeKick, SeeExit, SeeWire, NoteRestart, BackoffOver, Leave, clientVars
<1>11. CASE RestartEngine \/ RetargetKicks \/ MinutePasses \/ EngineExits
  BY <1>11 DEF RestartEngine, RetargetKicks, MinutePasses, EngineExits, clientVars
<1>12. ASSUME NEW e \in Engines, Retarget(e) PROVE Told'
  BY <1>12 DEF Retarget, clientVars
<1>13. CASE LoadPage
  BY <1>13 DEF LoadPage, clientVars
<1>14. QED
  BY <1>1, <1>2, <1>3, <1>4, <1>5, <1>6, <1>7, <1>8, <1>9, <1>10, <1>11, <1>12, <1>13
  DEF Next, Run, WireDrops, ClientStep

(***************************************************************************)
(* When the user switches engines only while a wire is up, the stores of   *)
(* the frontend are about the engine behind the wire whenever nothing is   *)
(* pending: through crashes, redials, lost wires and any number of         *)
(* switches. The premise is needed: a switch on the way to a wire is the   *)
(* counterexample README names.                                            *)
(***************************************************************************)
THEOREM StoresFollow ==
  ASSUME SwitchAt \subseteq {"live"}
  PROVE  Spec => []StoresMatchTheEngine
<1>1. Init => Told
  BY DEF Init, ClientInit, Told, SpawnedWhatItDials, WordGiven, AboutTheTarget, Connected
<1>2. TypeOK /\ Told /\ [Next]_vars => Told'
  BY StepTold
<1>3. TypeOK /\ Told => StoresMatchTheEngine
  BY DEF Told, WordGiven, AboutTheTarget, StoresMatchTheEngine, TypeOK
<1>4. QED
  BY <1>1, <1>2, <1>3, SupervisorTyping, PTL DEF Spec
=============================================================================
