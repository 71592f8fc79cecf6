---------------------------- MODULE MCScreenPeer ----------------------------
(* Instances of ScreenPeer for TLC. *)
EXTENDS ScreenPeer, TLC

PeerSymmetry == Permutations(Screens) \cup Permutations(Requests)
=============================================================================
