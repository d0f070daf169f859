---------------------------- MODULE MCActorHost ----------------------------
(* Small instances of ActorHost. *)
EXTENDS ActorHost, TLC

Symmetry == Permutations(Attempt)
=============================================================================
