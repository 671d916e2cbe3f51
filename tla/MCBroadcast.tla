---------------------------- MODULE MCBroadcast ----------------------------
(* Broadcast.tla on small instances. *)
EXTENDS Broadcast, TLC

(* Campaigns, users and slots are interchangeable in the safety runs. *)
Symmetry == Permutations(Broadcasts) \cup Permutations(Users) \cup Permutations(Tasks)
=============================================================================
