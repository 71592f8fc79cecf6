-------------------------- MODULE MCProviderStream --------------------------
(* Instances of ProviderStream for TLC. *)
EXTENDS ProviderStream, TLC

StreamSymmetry == Permutations(Streams)
=============================================================================
