----------------------------- MODULE MCJoinGate -----------------------------
(* JoinGate.tla on small instances. *)
EXTENDS JoinGate, TLC

(* Handlers are interchangeable in the safety runs. *)
Symmetry == Permutations(Calls)
=============================================================================
