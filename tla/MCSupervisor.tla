---------------------------- MODULE MCSupervisor ----------------------------
(* Instances of Supervisor for TLC. *)
EXTENDS Supervisor, TLC

WireSymmetry == Permutations(Wires)

(* The user switches only while a wire is up; a wire drops at any time.    *)
WhenLive == {"live"}
AnyTime == Steps
=============================================================================
