---------------------------- MODULE MCAgentLoop ----------------------------
(* Instances of AgentLoop for TLC. *)
EXTENDS AgentLoop

(* Two reads beside each other, and a picture before a read.               *)
MixedLists == {<<"read", "grep">>, <<"browser", "read">>}
=============================================================================
