--------------------------- MODULE MCBotLifecycle ---------------------------
(* BotLifecycle.tla on small instances. *)
EXTENDS BotLifecycle, TLC

(* Ids and handlers are numbers here and interchangeable: ids are given    *)
(* out and free slots taken in order.                                      *)
InOrder ==
    /\ \A i \in issued' : 1 .. i \subseteq issued'
    /\ \A h \in Calls : pc[h] = "idle" /\ pc'[h] # "idle" =>
          \A k \in 1 .. h - 1 : pc[k] # "idle"

(* A bound: the admin toggles the bots that users write to.  The others    *)
(* are on or off from the start, or are registered on the way.             *)
TogglesOfClients ==
    \A h \in Calls : pc'[h] = "switch" => owner[id'[h]] \in Clients

(* A bound: two handlers of the admin's overlap while no user writes.  In  *)
(* every other state of theirs one slot is left for deliveries.            *)
OneSlotForUsers ==
    (\A h \in Calls : pc'[h] # "idle" /\ whose'[h] = Nobody) => queue' = {} /\ hot' = {}

MCSpec ==
    /\ Init /\ \A i \in issued : 1 .. i \subseteq issued
    /\ [][Next /\ InOrder /\ TogglesOfClients /\ OneSlotForUsers]_vars
    /\ Fairness
=============================================================================
