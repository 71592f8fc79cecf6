----------------------------- MODULE MCTurnGate -----------------------------
(* Instances of TurnGate for TLC. *)
EXTENDS TurnGate, TLC

GateSymmetry ==
  Permutations(Chats) \cup Permutations(Convs) \cup Permutations(Sends)
  \cup Permutations(Models) \cup Permutations(Levels)

(* Without the history that no property of gate_chats reads.               *)
GateView == <<desk, flight, dials, row, calls, picked, dropped>>
=============================================================================
