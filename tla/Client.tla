------------------------------- MODULE Client -------------------------------
(***************************************************************************)
(* The screen's end of the wire: type Client of                            *)
(* src/internal/engine/rpc/client.go. Connect puts a new wire under the    *)
(* client, also while an old one is still alive; a goroutine per wire      *)
(* takes it away again when it is over; a binding that finds no wire waits *)
(* on the channel the next Connect closes.                                 *)
(*                                                                         *)
(* Of the channels that have been made only the current one is named: a    *)
(* waiter holds the current one, one that is closed, or a lost one, which  *)
(* was replaced while it was open.                                         *)
(***************************************************************************)
EXTENDS Naturals

CONSTANTS
  Wires,      (* wires that can exist at a time; one that is over is used again *)
  Bindings,   (* calls the frontend makes                                  *)
  NoWire

ASSUME ClientAssumption == NoWire \notin Wires

VARIABLES
  wire,       (* each wire, as this end of it sees it                      *)
  stage,      (* how far Connect and its goroutine have come with it       *)
  old,        (* Connect's old: the connection it is to close              *)
  conn,       (* Client.conn                                               *)
  isClosed,   (* Client.connected, the current channel, is closed          *)
  pc,         (* how far each binding has come                             *)
  holds,      (* which channel a binding's await waits on                  *)
  using       (* the wire a binding's call is on                           *)

clientVars == <<wire, stage, old, conn, isClosed, pc, holds, using>>

Stages == {"none", "swapped", "watched"}
Ended == {"answered", "refused"}

ClientTypeOK ==
  /\ wire \in [Wires -> {"none", "open", "over"}]
  /\ stage \in [Wires -> Stages]
  /\ old \in [Wires -> Wires \cup {NoWire}]
  /\ conn \in Wires \cup {NoWire}
  /\ isClosed \in BOOLEAN
  /\ pc \in [Bindings -> {"idle", "reading", "waiting", "calling"} \cup Ended]
  /\ holds \in [Bindings -> {"current", "closed", "lost"}]
  /\ using \in [Bindings -> Wires \cup {NoWire}]
  /\ \A b \in Bindings : pc[b] = "calling" => using[b] \in Wires

ClientInit ==
  /\ wire = [w \in Wires |-> "none"]
  /\ stage = [w \in Wires |-> "none"]
  /\ old = [w \in Wires |-> NoWire]
  /\ conn = NoWire
  /\ isClosed = FALSE
  /\ pc = [b \in Bindings |-> "idle"]
  /\ holds = [b \in Bindings |-> "current"]
  /\ using = [b \in Bindings |-> NoWire]

-----------------------------------------------------------------------------
(* Connect.                                                                *)

Unused(w) ==
  /\ wire[w] # "open" /\ stage[w] = "none" /\ conn # w
  /\ \A v \in Wires : old[v] # w
  /\ \A b \in Bindings : pc[b] = "calling" => using[b] # w

(* Mutant: the channel is closed whenever a wire is there, as if nobody    *)
(* could have been connected; a second close takes the window down.        *)
ConnectNoClose(w) ==
  /\ Unused(w)
  /\ wire' = [wire EXCEPT ![w] = "open"]
  /\ stage' = [stage EXCEPT ![w] = "swapped"]
  /\ old' = [old EXCEPT ![w] = conn]
  /\ conn' = w
  /\ isClosed' = (isClosed \/ conn # NoWire)
  /\ UNCHANGED <<pc, holds, using>>

(* The channel is closed when nobody was connected; a live old connection  *)
(* means it is closed already.                                             *)
Connect(w) ==
  /\ Unused(w)
  /\ wire' = [wire EXCEPT ![w] = "open"]
  /\ stage' = [stage EXCEPT ![w] = "swapped"]
  /\ old' = [old EXCEPT ![w] = conn]
  /\ conn' = w
  /\ isClosed' = (isClosed \/ conn = NoWire)
  /\ UNCHANGED <<pc, holds, using>>

(* The connection it replaces is closed after the unlock.                  *)
CloseOld(w) ==
  /\ stage[w] = "swapped"
  /\ stage' = [stage EXCEPT ![w] = "watched"]
  /\ old' = [old EXCEPT ![w] = NoWire]
  /\ wire' = [v \in Wires |-> IF v = old[w] THEN "over" ELSE wire[v]]
  /\ UNCHANGED <<conn, isClosed, pc, holds, using>>

WireEnds(w) ==
  /\ wire[w] = "open"
  /\ wire' = [wire EXCEPT ![w] = "over"]
  /\ UNCHANGED <<stage, old, conn, isClosed, pc, holds, using>>

NewChannel ==
  /\ isClosed' = FALSE
  /\ holds' = [b \in Bindings |->
                 IF holds[b] = "current" THEN IF isClosed THEN "closed" ELSE "lost" ELSE holds[b]]

(* The goroutine that waits for the wire's end.                            *)
Forget(w) ==
  /\ stage[w] = "watched" /\ wire[w] = "over"
  /\ stage' = [stage EXCEPT ![w] = "none"]
  /\ IF conn = w
       THEN conn' = NoWire /\ NewChannel
       ELSE UNCHANGED <<conn, isClosed, holds>>
  /\ UNCHANGED <<wire, old, pc, using>>

-----------------------------------------------------------------------------
(* call and await: one binding.                                            *)

Goto(b, from, to) ==
  /\ pc[b] = from
  /\ pc' = [pc EXCEPT ![b] = to]

Begin(b) ==
  /\ Goto(b, "idle", "reading")
  /\ UNCHANGED <<wire, stage, old, conn, isClosed, holds, using>>

(* The wire and the channel are read under one lock.                       *)
Read(b) ==
  /\ Goto(b, "reading", IF conn = NoWire THEN "waiting" ELSE "calling")
  /\ holds' = [holds EXCEPT ![b] = "current"]
  /\ using' = [using EXCEPT ![b] = conn]
  /\ UNCHANGED <<wire, stage, old, conn, isClosed>>

Wake(b) ==
  /\ holds[b] = "closed" \/ (holds[b] = "current" /\ isClosed)
  /\ Goto(b, "waiting", "reading")
  /\ UNCHANGED <<wire, stage, old, conn, isClosed, holds, using>>

(* The deadline of connectWait.                                            *)
NoWireCame(b) ==
  /\ Goto(b, "waiting", "refused")
  /\ UNCHANGED <<wire, stage, old, conn, isClosed, holds, using>>

Answered(b) ==
  /\ pc[b] = "calling" /\ wire[using[b]] = "open"
  /\ Goto(b, "calling", "answered")
  /\ UNCHANGED <<wire, stage, old, conn, isClosed, holds, using>>

(* conn.ctx: the call ends with its wire.                                  *)
Disconnected(b) ==
  /\ pc[b] = "calling" /\ wire[using[b]] = "over"
  /\ Goto(b, "calling", "refused")
  /\ UNCHANGED <<wire, stage, old, conn, isClosed, holds, using>>

-----------------------------------------------------------------------------
Upkeep(w) == CloseOld(w) \/ Forget(w)

Caller(b) == Read(b) \/ Wake(b) \/ Disconnected(b)

Frontend == \E b \in Bindings : Begin(b) \/ Caller(b) \/ NoWireCame(b) \/ Answered(b)

-----------------------------------------------------------------------------
(* The channel is closed exactly while there is a wire, also when a new    *)
(* one replaces a live one and the old one's goroutine comes late.         *)
ChannelTellsTheWire == isClosed <=> conn # NoWire

(***************************************************************************)
(* The channel tells of the wire, and no binding waits on one that no      *)
(* Connect will ever close ("a binding that was waiting for a wire gets    *)
(* this one").                                                             *)
(***************************************************************************)
NobodyIsStranded ==
  /\ ChannelTellsTheWire
  /\ \A b \in Bindings : pc[b] = "waiting" => holds[b] # "lost"
=============================================================================
