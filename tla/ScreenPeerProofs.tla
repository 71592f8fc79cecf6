-------------------------- MODULE ScreenPeerProofs --------------------------
(***************************************************************************)
(* Theorems about the engine's view of the screen, for every set of        *)
(* connections and requests, in whichever order connections come and go.   *)
(***************************************************************************)
EXTENDS ScreenPeer, TLAPS

(* The type invariant holds in every reachable state.                      *)
THEOREM PeerTyping == Spec => []TypeOK
<1>1. Init => TypeOK
  <2> SUFFICES ASSUME Init PROVE TypeOK
    OBVIOUS
  <2>1. wedged \in BOOLEAN /\ down \in BOOLEAN
    BY Zenon DEF Init
  <2>2. QED
    BY <2>1, PeerAssumption DEF Init, TypeOK, Ended, AcceptStages
<1>2. TypeOK /\ [Next]_vars => TypeOK'
  <2> SUFFICES ASSUME TypeOK, [Next]_vars PROVE TypeOK'
    OBVIOUS
  <2> USE PeerAssumption DEF TypeOK, Ended, AcceptStages, accepting, peer, asking
  <2>1. CASE UNCHANGED vars
    BY <2>1 DEF vars
  <2>2. ASSUME NEW s \in Screens, Accept(s) PROVE TypeOK'
    BY <2>2 DEF Accept
  <2>3. ASSUME NEW s \in Screens, WireEnds(s) PROVE TypeOK'
    BY <2>3 DEF WireEnds
  <2>4. ASSUME NEW s \in Screens, Attach(s) PROVE TypeOK'
    BY <2>4 DEF Attach
  <2>5. ASSUME NEW s \in Screens, CloseOld(s) PROVE TypeOK'
    BY <2>5 DEF CloseOld
  <2>6. ASSUME NEW s \in Screens, Detach(s) PROVE TypeOK'
    BY <2>6 DEF Detach
  <2>7. CASE DetachAll
    BY <2>7 DEF DetachAll
  <2>8. CASE CloseLeaving
    BY <2>8 DEF CloseLeaving
  <2>9. ASSUME NEW r \in Requests, Begin(r) \/ Ask(r) \/ Asker(r) \/ Served(r) \/ Cancelled(r)
        PROVE  TypeOK'
    BY <2>9 DEF Begin, Ask, Asker, Read, Wake, NobodyCame, Disconnected, Served, Cancelled, Goto
  <2>10. QED
    BY <2>1, <2>2, <2>3, <2>4, <2>5, <2>6, <2>7, <2>8, <2>9 DEF Next, Peer
<1>3. QED
  BY <1>1, <1>2, PTL DEF Spec

(***************************************************************************)
(* Why the two invariants below are kept: the current channel is closed    *)
(* exactly while there is a screen, a channel is replaced only when it is  *)
(* closed, and a waiter holds one that has been made.                      *)
(***************************************************************************)
DoorsInv ==
  /\ ChannelTellsTheScreen
  /\ ~down => \A c \in Nat : c < arrived => c \in shut
  /\ \A r \in Requests : seen[r] <= arrived

(* The channel invariant is inductive (attach, detach, detachAll, await).  *)
THEOREM Doors == Spec => []DoorsInv
<1>1. Init => DoorsInv
  BY DEF Init, DoorsInv, ChannelTellsTheScreen
<1>2. TypeOK /\ DoorsInv /\ [Next]_vars => DoorsInv'
  <2> SUFFICES ASSUME TypeOK, DoorsInv, [Next]_vars PROVE DoorsInv'
    OBVIOUS
  <2> USE PeerAssumption DEF TypeOK, DoorsInv, ChannelTellsTheScreen
  <2>1. CASE UNCHANGED <<peer, seen>>
    BY <2>1 DEF peer
  <2>2. ASSUME NEW s \in Screens, Attach(s) PROVE DoorsInv'
    BY <2>2 DEF Attach, asking
  <2>3. ASSUME NEW s \in Screens, Detach(s) PROVE DoorsInv'
    BY <2>3 DEF Detach, asking
  <2>4. CASE DetachAll
    BY <2>4 DEF DetachAll, asking
  <2>5. CASE CloseLeaving
    BY <2>5 DEF CloseLeaving, asking
  <2>6. ASSUME NEW r \in Requests, Read(r) PROVE DoorsInv'
    BY <2>6 DEF Read, peer
  <2>7. QED
    BY <2>1, <2>2, <2>3, <2>4, <2>5, <2>6
       DEF Next, Peer, vars, asking, Accept, WireEnds, CloseOld, Begin, Ask, Asker,
           Wake, NobodyCame, Disconnected, Served, Cancelled
<1>3. QED
  BY <1>1, <1>2, PeerTyping, PTL DEF Spec

(* The channel is closed exactly while a screen is connected.              *)
THEOREM ChannelIsTrue == Spec => []ChannelTellsTheScreen
<1>1. DoorsInv => ChannelTellsTheScreen
  BY DEF DoorsInv
<1>2. QED
  BY <1>1, Doors, PTL

(* A request that waits for a screen is woken by the next one (await).     *)
THEOREM WaitersAreHeard == Spec => []WaitersHearTheNext
<1>1. TypeOK /\ DoorsInv => WaitersHearTheNext
  <2> SUFFICES ASSUME TypeOK, DoorsInv, NEW r \in Requests, ~down
               PROVE  seen[r] \in shut \cup {arrived}
    BY DEF WaitersHearTheNext
  <2>1. seen[r] \in Nat /\ arrived \in Nat /\ seen[r] <= arrived
    BY DEF TypeOK, DoorsInv
  <2>2. seen[r] < arrived => seen[r] \in shut
    BY <2>1 DEF DoorsInv
  <2>3. QED
    BY <2>1, <2>2
<1>2. QED
  BY <1>1, PeerTyping, Doors, PTL

(***************************************************************************)
(* When a screen is attached only after the one before it was detached,    *)
(* the end of an earlier wire never lets go of a later one (detach).       *)
(***************************************************************************)
THEOREM LiveScreenStays == ASSUME Patient PROVE Spec => LiveScreenKept
<1>1. TypeOK /\ [Next]_vars =>
        [ \A s \in Screens : conn = s /\ conn' # s => wire[s] = "over" \/ down # down' ]_vars
  <2> SUFFICES ASSUME TypeOK, Next, NEW s \in Screens, conn = s, conn' # s
               PROVE  wire[s] = "over" \/ down # down'
    OBVIOUS
  <2> USE PeerAssumption DEF TypeOK
  <2>1. ASSUME NEW t \in Screens, Attach(t) PROVE FALSE
    BY <2>1 DEF Attach
  <2>2. ASSUME NEW t \in Screens, Detach(t) PROVE wire[s] = "over"
    BY <2>2 DEF Detach
  <2>3. CASE DetachAll
    BY <2>3 DEF DetachAll
  <2>4. QED
    BY <2>1, <2>2, <2>3
       DEF Next, Peer, peer, Accept, WireEnds, CloseOld, CloseLeaving, Begin, Ask, Asker,
           Read, Wake, NobodyCame, Disconnected, Served, Cancelled
<1>2. QED
  BY <1>1, PeerTyping, PTL DEF Spec, LiveScreenKept
=============================================================================
