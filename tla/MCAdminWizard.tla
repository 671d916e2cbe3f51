---------------------------- MODULE MCAdminWizard ----------------------------
(* AdminWizard.tla on small instances. *)
EXTENDS AdminWizard, TLC

(* Handlers, bots and channels are interchangeable. *)
Symmetry == Permutations(Calls) \cup Permutations(Bots) \cup Permutations(Channels)

(* One private channel exists, so that a tier can be made in one wizard;   *)
(* the other ids are free, or public channels of any bot.  A second        *)
(* private channel comes from the wizard, an empty catalogue from          *)
(* deletions.                                                              *)
MCInit == Init /\ Cardinality(private) = 1
MCSpec == MCInit /\ [][Next]_vars
=============================================================================
