------------------------------ MODULE MCLifecycle ------------------------------
(* Two interchangeable peers. *)
EXTENDS ChannelLifecycle, TLC
Swap == Permutations(Peer)
=============================================================================
