----------------------------- MODULE ScreenPeer -----------------------------
(***************************************************************************)
(* The engine's view of the screen: src/internal/engine/rpc/screenpeer.go, *)
(* and accept and Serve of server.go, which attach a connection, wait for  *)
(* its end and detach it. Whoever needs a screen reads the connection of   *)
(* the moment, or waits on the channel the next attach closes.             *)
(*                                                                         *)
(* Channels are numbered as they are made, so that a waiter holding one    *)
(* that was replaced is told apart from one holding the current channel.   *)
(***************************************************************************)
EXTENDS Naturals

CONSTANTS
  Screens,    (* the connections that may be accepted, one after the other *)
  Requests,   (* what the engine may ask of a screen                       *)
  NoScreen,
  Patient     (* a new connection is attached only once the one before it  *)
              (* has been detached: the order of the steps when the engine *)
              (* notices the end of a wire before the screen dials again   *)

ASSUME PeerAssumption == NoScreen \notin Screens /\ Patient \in BOOLEAN

VARIABLES
  wire,       (* each connection, as the engine's end of it sees it        *)
  accept,     (* how far accept has come with each connection              *)
  old,        (* attach's old: the connection it is to close               *)
  conn,       (* ScreenPeer.conn                                           *)
  arrived,    (* ScreenPeer.arrived, the number of the channel             *)
  shut,       (* the channels that have been closed                        *)
  wedged,     (* p.mu is held by a goroutine that is gone                  *)
  leaving,    (* detachAll's conn: the connection it is to close           *)
  down,       (* detachAll has run: the server is shutting down            *)
  pc,         (* how far each request has come                             *)
  seen,       (* await's arrived                                           *)
  using       (* await's conn                                              *)

accepting == <<wire, accept, old>>
peer == <<conn, arrived, shut, wedged, leaving, down>>
asking == <<pc, seen, using>>
vars == <<accepting, peer, asking>>

AcceptStages == {"none", "accepted", "attached", "watching", "detached", "panicked"}
Ended == {"served", "disconnected", "noScreen", "cancelled"}

TypeOK ==
  /\ wire \in [Screens -> {"none", "open", "over"}]
  /\ accept \in [Screens -> AcceptStages]
  /\ old \in [Screens -> Screens \cup {NoScreen}]
  /\ conn \in Screens \cup {NoScreen}
  /\ arrived \in Nat
  /\ shut \subseteq 0 .. arrived
  /\ wedged \in BOOLEAN
  /\ leaving \in Screens \cup {NoScreen}
  /\ down \in BOOLEAN
  /\ pc \in [Requests -> {"idle", "reading", "waiting", "calling"} \cup Ended]
  /\ seen \in [Requests -> Nat]
  /\ using \in [Requests -> Screens \cup {NoScreen}]

Init ==
  /\ wire = [s \in Screens |-> "none"]
  /\ accept = [s \in Screens |-> "none"]
  /\ old = [s \in Screens |-> NoScreen]
  /\ conn = NoScreen
  /\ arrived = 0
  /\ shut = {}
  /\ wedged = FALSE
  /\ leaving = NoScreen
  /\ down = FALSE
  /\ pc = [r \in Requests |-> "idle"]
  /\ seen = [r \in Requests |-> 0]
  /\ using = [r \in Requests |-> NoScreen]

-----------------------------------------------------------------------------
(* accept: the upgrade, attach, and the goroutine that waits for the end.  *)

Accept(s) ==
  /\ ~down
  /\ wire[s] = "none"
  /\ wire' = [wire EXCEPT ![s] = "open"]
  /\ accept' = [accept EXCEPT ![s] = "accepted"]
  /\ UNCHANGED <<old, peer, asking>>

(* Mutant: the channel the waiters hold stays open.                        *)
AttachSilently(s) ==
  /\ accept[s] = "accepted" /\ ~wedged
  /\ conn = NoScreen
  /\ conn' = s
  /\ accept' = [accept EXCEPT ![s] = "attached"]
  /\ UNCHANGED <<wire, old, arrived, shut, wedged, leaving, down, asking>>

(* The close of a channel that is closed already panics: net/http recovers *)
(* it at the bottom of the handler, and p.mu stays locked.                 *)
Attach(s) ==
  /\ accept[s] = "accepted" /\ ~wedged
  /\ Patient => conn = NoScreen
  /\ conn' = s
  /\ old' = [old EXCEPT ![s] = conn]
  /\ shut' = shut \cup {arrived}
  /\ wedged' = (arrived \in shut)
  /\ accept' = [accept EXCEPT ![s] = IF arrived \in shut THEN "panicked" ELSE "attached"]
  /\ UNCHANGED <<wire, arrived, leaving, down, asking>>

(* attach closes the screen that was there, after the unlock.              *)
CloseOld(s) ==
  /\ accept[s] = "attached"
  /\ accept' = [accept EXCEPT ![s] = "watching"]
  /\ wire' = [t \in Screens |-> IF t = old[s] THEN "over" ELSE wire[t]]
  /\ UNCHANGED <<old, peer, asking>>

(* The peer is gone, a write failed, or nothing was heard for pongWait.    *)
WireEnds(s) ==
  /\ wire[s] = "open"
  /\ wire' = [wire EXCEPT ![s] = "over"]
  /\ UNCHANGED <<accept, old, peer, asking>>

(* Mutant: whichever screen is there goes.                                 *)
DetachAnyScreen(s) ==
  /\ accept[s] = "watching" /\ wire[s] = "over" /\ ~wedged
  /\ accept' = [accept EXCEPT ![s] = "detached"]
  /\ conn' = NoScreen
  /\ arrived' = arrived + 1
  /\ UNCHANGED <<wire, old, shut, wedged, leaving, down, asking>>

(* Mutant: the next screen finds the channel the last one closed.          *)
DetachSameChannel(s) ==
  /\ accept[s] = "watching" /\ wire[s] = "over" /\ ~wedged
  /\ accept' = [accept EXCEPT ![s] = "detached"]
  /\ conn' = IF conn = s THEN NoScreen ELSE conn
  /\ UNCHANGED <<wire, old, arrived, shut, wedged, leaving, down, asking>>

Detach(s) ==
  /\ accept[s] = "watching" /\ wire[s] = "over" /\ ~wedged
  /\ accept' = [accept EXCEPT ![s] = "detached"]
  /\ IF conn = s
       THEN conn' = NoScreen /\ arrived' = arrived + 1
       ELSE UNCHANGED <<conn, arrived>>
  /\ UNCHANGED <<wire, old, shut, wedged, leaving, down, asking>>

(* Serve's end. The channel is replaced also when nobody was connected.    *)
DetachAll ==
  /\ ~down /\ ~wedged
  /\ down' = TRUE
  /\ leaving' = conn
  /\ conn' = NoScreen
  /\ arrived' = arrived + 1
  /\ UNCHANGED <<accepting, shut, wedged, asking>>

CloseLeaving ==
  /\ leaving # NoScreen
  /\ leaving' = NoScreen
  /\ wire' = [wire EXCEPT ![leaving] = "over"]
  /\ UNCHANGED <<accept, old, conn, arrived, shut, wedged, down, asking>>

-----------------------------------------------------------------------------
(* await and call: what a turn cannot do without waits for a screen.       *)

Goto(r, from, to) ==
  /\ pc[r] = from
  /\ pc' = [pc EXCEPT ![r] = to]

Begin(r) == Goto(r, "idle", "reading") /\ UNCHANGED <<accepting, peer, seen, using>>

(* The connection and the channel are read under one lock.                 *)
Read(r) ==
  /\ ~wedged
  /\ Goto(r, "reading", IF conn = NoScreen THEN "waiting" ELSE "calling")
  /\ seen' = [seen EXCEPT ![r] = arrived]
  /\ using' = [using EXCEPT ![r] = conn]
  /\ UNCHANGED <<accepting, peer>>

Wake(r) ==
  /\ seen[r] \in shut
  /\ Goto(r, "waiting", "reading")
  /\ UNCHANGED <<accepting, peer, seen, using>>

(* The deadline of screenWait.                                             *)
NobodyCame(r) == Goto(r, "waiting", "noScreen") /\ UNCHANGED <<accepting, peer, seen, using>>

(* The turn was stopped: await and Call both select on the context.        *)
Cancelled(r) ==
  /\ \E from \in {"waiting", "calling"} : Goto(r, from, "cancelled")
  /\ UNCHANGED <<accepting, peer, seen, using>>

(* ask: a desk question reads the screen of the moment and never waits.    *)
Ask(r) ==
  /\ ~wedged
  /\ Goto(r, "idle", IF conn = NoScreen THEN "noScreen" ELSE "calling")
  /\ using' = [using EXCEPT ![r] = conn]
  /\ UNCHANGED <<accepting, peer, seen>>

Served(r) ==
  /\ pc[r] = "calling" /\ wire[using[r]] = "open"
  /\ Goto(r, "calling", "served")
  /\ UNCHANGED <<accepting, peer, seen, using>>

Disconnected(r) ==
  /\ pc[r] = "calling" /\ wire[using[r]] = "over"
  /\ Goto(r, "calling", "disconnected")
  /\ UNCHANGED <<accepting, peer, seen, using>>

-----------------------------------------------------------------------------
Peer(s) == Attach(s) \/ CloseOld(s) \/ Detach(s)

Asker(r) == Read(r) \/ Wake(r) \/ NobodyCame(r) \/ Disconnected(r)

Next ==
  \/ \E s \in Screens : Accept(s) \/ WireEnds(s) \/ Peer(s)
  \/ DetachAll
  \/ CloseLeaving
  \/ \E r \in Requests : Begin(r) \/ Ask(r) \/ Asker(r) \/ Served(r) \/ Cancelled(r)

(* Handlers and waits run on, and a timer fires; a screen need not connect, *)
(* a wire need not end, a screen need not answer and nobody need press Stop. *)
Fairness ==
  /\ \A s \in Screens : WF_vars(Peer(s))
  /\ WF_vars(CloseLeaving)
  /\ \A r \in Requests : WF_vars(Asker(r))

Spec == Init /\ [][Next]_vars

FairSpec == Spec /\ Fairness

-----------------------------------------------------------------------------
(***************************************************************************)
(* The channel says what conn says: it is closed exactly while a screen is *)
(* connected. Open with a screen there, the next attach is fine and        *)
(* every waiter is stranded; closed with nobody there, await spins and the *)
(* next attach panics.                                                     *)
(***************************************************************************)
ChannelTellsTheScreen == arrived \in shut <=> conn # NoScreen

(***************************************************************************)
(* Nobody waits on a channel that no attach will ever close: a request     *)
(* that waits holds the current channel, or one that is closed and wakes   *)
(* it ("a screen that arrives later fills every blank").                   *)
(***************************************************************************)
WaitersHearTheNext ==
  \A r \in Requests : pc[r] = "waiting" /\ ~down => seen[r] \in shut \cup {arrived}

(***************************************************************************)
(* The end of an earlier connection never lets go of a later one that is   *)
(* alive: conn leaves a screen only when its wire is over, or at shutdown. *)
(***************************************************************************)
LiveScreenKept ==
  [][ \A s \in Screens : conn = s /\ conn' # s => wire[s] = "over" \/ down # down' ]_vars

(***************************************************************************)
(* A request never waits for a screen for good: it gets one or it fails    *)
(* ("short enough that a turn does not sit on a dead question for good").  *)
(***************************************************************************)
WaitEnds ==
  \A r \in Requests : pc[r] \in {"reading", "waiting"} ~> pc[r] \in {"calling"} \cup Ended

(***************************************************************************)
(* Once attach has come back, or panicked, no earlier screen is still      *)
(* being served ("A screen already there is closed first").                *)
(***************************************************************************)
OneScreen ==
  \A s, t \in Screens :
    conn = s /\ t # s /\ accept[s] \in {"watching", "panicked"} /\ accept[t] = "watching" =>
      wire[t] = "over" \/ leaving = t
=============================================================================
