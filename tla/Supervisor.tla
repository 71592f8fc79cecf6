----------------------------- MODULE Supervisor -----------------------------
(***************************************************************************)
(* The window's hold on its engine: localEngine of                         *)
(* src/desktop/engine_local.go over the Client. run spawns an engine,      *)
(* dials it, watches the wire and the process, and starts over; the        *)
(* buttons reach it through kick, a channel with room for one, and a       *)
(* switch to another engine leaves its word in target and switched.        *)
(*                                                                         *)
(* The windows in which the user switches and in which a wire drops are    *)
(* constants: a run says at which steps of the loop they may fall.         *)
(***************************************************************************)
EXTENDS Client

CONSTANTS
  Engines,      (* the engines the window may be pointed at                *)
  Attached,     (* those somebody else started: stop leaves them running   *)
  NoEngine,
  MaxRestarts,  (* maxRestartsPerMinute                                    *)
  SwitchAt,     (* the steps at which the user may switch engines          *)
  DropAt        (* the steps at which a wire may drop                      *)

Steps == {"start", "choosing", "spawning", "unspawned", "dialing", "greeting",
          "switching", "arming", "live", "lost", "backoff", "failed", "over"}

ASSUME SupervisorAssumption ==
  /\ Attached \subseteq Engines /\ NoEngine \notin Engines
  /\ MaxRestarts \in Nat \ {0}
  /\ SwitchAt \subseteq Steps /\ DropAt \subseteq Steps

VARIABLES
  at,         (* where run is                                              *)
  target,     (* localEngine.target                                        *)
  switched,   (* localEngine.switched                                      *)
  kick,       (* localEngine.kick holds a kick                             *)
  kicking,    (* retarget has unlocked and not yet kicked                  *)
  restarts,   (* localEngine.restarts: those of the last minute            *)
  spawning,   (* spawn's target                                            *)
  proc,       (* localEngine.proc, the engine it is                        *)
  procUp,     (* ... which runs                                            *)
  redial,     (* connect is called from the live loop                      *)
  watch,      (* the wire whose Done the live loop selects on              *)
  to,         (* the engine each wire leads to                             *)
  page        (* the engine the frontend's stores are about                *)

supVars == <<at, target, switched, kick, kicking, restarts, spawning, proc, procUp,
             redial, watch, to, page>>
vars == <<clientVars, supVars>>

TypeOK ==
  /\ ClientTypeOK
  /\ at \in Steps
  /\ target \in Engines
  /\ switched \in BOOLEAN /\ kick \in BOOLEAN /\ kicking \in BOOLEAN
  /\ restarts \in 0 .. MaxRestarts
  /\ spawning \in Engines \cup {NoEngine}
  /\ proc \in Engines \cup {NoEngine}
  /\ procUp \in BOOLEAN /\ redial \in BOOLEAN
  /\ watch \in Wires \cup {NoWire}
  /\ to \in [Wires -> Engines \cup {NoEngine}]
  /\ page \in Engines \cup {"loading"}

Init ==
  /\ ClientInit
  /\ at = "start"
  /\ target \in Engines
  /\ switched = FALSE /\ kick = FALSE /\ kicking = FALSE
  /\ restarts = 0
  /\ spawning = NoEngine /\ proc = NoEngine /\ procUp = FALSE
  /\ redial = FALSE
  /\ watch = NoWire
  /\ to = [w \in Wires |-> NoEngine]
  /\ page = "loading"

Step(from, next) == at = from /\ at' = next

(* stop: a child has left, or was killed, a tunnel is closed; an attached  *)
(* engine is not ours to stop.                                             *)
StopEngine == procUp' = (procUp /\ proc \in Attached)

Alive(e) == e \in Attached \/ (e = proc /\ procUp)

-----------------------------------------------------------------------------
(* run: from the top of the loop to a live wire.                           *)

(* mayRestart. The first time round nothing has been noted.                *)
Decide ==
  /\ Step("start", IF restarts < MaxRestarts THEN "choosing" ELSE "failed")
  /\ UNCHANGED <<clientVars, target, switched, kick, kicking, restarts, spawning, proc,
                 procUp, redial, watch, to, page>>

(* waitForKick after three crashes in a minute, or after a failed spawn.   *)
TakePermission ==
  /\ kick /\ kick' = FALSE
  /\ \/ Step("failed", "choosing") /\ restarts' = 0
     \/ Step("unspawned", "start") /\ UNCHANGED restarts
  /\ UNCHANGED <<clientVars, target, switched, kicking, spawning, proc, procUp, redial,
                 watch, to, page>>

Choose ==
  /\ Step("choosing", "spawning")
  /\ spawning' = target
  /\ UNCHANGED <<clientVars, target, switched, kick, kicking, restarts, proc, procUp,
                 redial, watch, to, page>>

SpawnFails ==
  /\ Step("spawning", "unspawned")
  /\ UNCHANGED <<clientVars, target, switched, kick, kicking, restarts, spawning, proc,
                 procUp, redial, watch, to, page>>

Spawned ==
  /\ Step("spawning", "dialing")
  /\ proc' = spawning
  /\ procUp' = TRUE
  /\ redial' = FALSE
  /\ UNCHANGED <<clientVars, target, switched, kick, kicking, restarts, spawning, watch,
                 to, page>>

Dial(w) ==
  /\ procUp
  /\ Step("dialing", "greeting")
  /\ Connect(w)
  /\ to' = [to EXCEPT ![w] = proc]
  /\ UNCHANGED <<target, switched, kick, kicking, restarts, spawning, proc, procUp,
                 redial, watch, page>>

(* Mutant: an engine that could not be reached is left running.            *)
ConnectFailsNoStop ==
  /\ \E from \in {"dialing", "greeting"} : Step(from, "lost")
  /\ UNCHANGED <<clientVars, target, switched, kick, kicking, restarts, spawning, proc,
                 procUp, redial, watch, to, page>>

(* connect gave up, at the first dial or at a redial: stop, and note it.   *)
ConnectFails ==
  /\ \E from \in {"dialing", "greeting"} : Step(from, "lost")
  /\ StopEngine
  /\ UNCHANGED <<clientVars, target, switched, kick, kicking, restarts, spawning, proc,
                 redial, watch, to, page>>

(* Hello. Connect has returned, the wire it replaced is closed.            *)
Greeted ==
  /\ \A w \in Wires : stage[w] # "swapped"
  /\ conn # NoWire /\ wire[conn] = "open" /\ Alive(to[conn])
  /\ Step("greeting", IF redial THEN "arming" ELSE "switching")
  /\ UNCHANGED <<clientVars, target, switched, kick, kicking, restarts, spawning, proc,
                 procUp, redial, watch, to, page>>

(* Mutant: the word that the engine was changed is read and not acted on.  *)
TakeSwitchedQuietly ==
  /\ Step("switching", "arming")
  /\ switched' = FALSE
  /\ UNCHANGED <<clientVars, target, kick, kicking, restarts, spawning, proc, procUp,
                 redial, watch, to, page>>

(* takeSwitched, and reloadWindow when it was set.                         *)
TakeSwitched ==
  /\ Step("switching", "arming")
  /\ switched' = FALSE
  /\ page' = IF switched THEN "loading" ELSE page
  /\ UNCHANGED <<clientVars, target, kick, kicking, restarts, spawning, proc, procUp,
                 redial, watch, to>>

-----------------------------------------------------------------------------
(* run: the live loop.                                                     *)

(* The select asks the client for its Done: with no wire under it that is  *)
(* a channel that never closes.                                            *)
Arm ==
  /\ Step("arming", "live")
  /\ watch' = conn
  /\ UNCHANGED <<clientVars, target, switched, kick, kicking, restarts, spawning, proc,
                 procUp, redial, to, page>>

TakeKick ==
  /\ kick /\ kick' = FALSE
  /\ Step("live", "start")
  /\ StopEngine
  /\ watch' = NoWire
  /\ UNCHANGED <<clientVars, target, switched, kicking, restarts, spawning, proc, redial,
                 to, page>>

SeeExit ==
  /\ ~procUp
  /\ Step("live", "lost")
  /\ watch' = NoWire
  /\ UNCHANGED <<clientVars, target, switched, kick, kicking, restarts, spawning, proc,
                 procUp, redial, to, page>>

(* The wire is redialed before the engine is replaced.                     *)
SeeWire ==
  /\ watch # NoWire /\ wire[watch] = "over"
  /\ Step("live", "dialing")
  /\ redial' = TRUE
  /\ watch' = NoWire
  /\ UNCHANGED <<clientVars, target, switched, kick, kicking, restarts, spawning, proc,
                 procUp, to, page>>

NoteRestart ==
  /\ Step("lost", "backoff")
  /\ restarts' = restarts + 1
  /\ UNCHANGED <<clientVars, target, switched, kick, kicking, spawning, proc, procUp,
                 redial, watch, to, page>>

(* The wait listens to its timer and the window's end, not to kick.        *)
BackoffOver ==
  /\ Step("backoff", "start")
  /\ UNCHANGED <<clientVars, target, switched, kick, kicking, restarts, spawning, proc,
                 procUp, redial, watch, to, page>>

(* The window's context ends: whatever run is waiting in, it returns.      *)
Leave ==
  /\ \E from \in {"unspawned", "failed", "live", "backoff"} : Step(from, "over")
  /\ IF at = "live" THEN StopEngine ELSE UNCHANGED procUp
  /\ watch' = NoWire
  /\ UNCHANGED <<clientVars, target, switched, kick, kicking, restarts, spawning, proc, redial,
                 to, page>>

-----------------------------------------------------------------------------
(* The buttons, the clock, the engine, the wire and the page.              *)

(* RestartEngine: a kick that finds one waiting adds nothing.              *)
RestartEngine ==
  /\ kick' = TRUE
  /\ UNCHANGED <<clientVars, at, target, switched, kicking, restarts, spawning, proc,
                 procUp, redial, watch, to, page>>

Retarget(e) ==
  /\ at \in SwitchAt /\ ~kicking
  /\ target' = e
  /\ switched' = TRUE
  /\ restarts' = 0
  /\ kicking' = TRUE
  /\ UNCHANGED <<clientVars, at, kick, spawning, proc, procUp, redial, watch, to, page>>

RetargetKicks ==
  /\ kicking
  /\ kicking' = FALSE
  /\ kick' = TRUE
  /\ UNCHANGED <<clientVars, at, target, switched, restarts, spawning, proc, procUp,
                 redial, watch, to, page>>

(* A restart is more than a minute old.                                    *)
MinutePasses ==
  /\ restarts > 0
  /\ restarts' = restarts - 1
  /\ UNCHANGED <<clientVars, at, target, switched, kick, kicking, spawning, proc, procUp,
                 redial, watch, to, page>>

(* A child crashed, or a tunnel broke; an attached engine has no process   *)
(* here to watch.                                                          *)
EngineExits ==
  /\ procUp /\ proc \notin Attached
  /\ procUp' = FALSE
  /\ UNCHANGED <<clientVars, at, target, switched, kick, kicking, restarts, spawning, proc,
                 redial, watch, to, page>>

WireDrops(w) ==
  /\ at \in DropAt
  /\ WireEnds(w)
  /\ UNCHANGED supVars

(* The frontend fills its stores from the engine the wire leads to.        *)
LoadPage ==
  /\ page = "loading"
  /\ conn # NoWire /\ wire[conn] = "open" /\ Alive(to[conn])
  /\ page' = to[conn]
  /\ UNCHANGED <<clientVars, at, target, switched, kick, kicking, restarts, spawning, proc,
                 procUp, redial, watch, to>>

-----------------------------------------------------------------------------
Run ==
  \/ Decide
  \/ TakePermission
  \/ Choose
  \/ SpawnFails
  \/ Spawned
  \/ \E w \in Wires : Dial(w)
  \/ ConnectFails
  \/ Greeted
  \/ TakeSwitched
  \/ Arm
  \/ TakeKick
  \/ SeeExit
  \/ SeeWire
  \/ NoteRestart
  \/ BackoffOver

Next ==
  \/ Run
  \/ Leave
  \/ \E w \in Wires : Upkeep(w) /\ UNCHANGED supVars
  \/ \E w \in Wires : WireDrops(w)
  \/ Frontend /\ UNCHANGED supVars
  \/ RestartEngine
  \/ \E e \in Engines : Retarget(e)
  \/ RetargetKicks
  \/ MinutePasses
  \/ EngineExits
  \/ LoadPage

Spec == Init /\ [][Next]_vars

-----------------------------------------------------------------------------
(***************************************************************************)
(* The window never starts an engine while one it started still runs: two  *)
(* on one database. Whichever way the last one was lost, it has been       *)
(* stopped or has exited before the loop comes round; and none outlives    *)
(* the window.                                                             *)
(***************************************************************************)
OneEngine ==
  at \in {"start", "choosing", "spawning", "unspawned", "lost", "backoff", "failed", "over"} =>
    ~procUp \/ proc \in Attached

(***************************************************************************)
(* When nothing is pending, the frontend's stores are about the engine     *)
(* behind the wire, whatever it crashed, redialed or switched through      *)
(* ("Another engine, another database: every store the frontend holds is   *)
(* about the one before. Start it over.").                                 *)
(***************************************************************************)
StoresMatchTheEngine ==
  at = "live" /\ ~kick /\ ~kicking /\ conn # NoWire /\ page # "loading" =>
    page = to[conn]
=============================================================================
