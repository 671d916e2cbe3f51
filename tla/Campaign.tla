------------------------------ MODULE Campaign ------------------------------
(***************************************************************************)
(* What a broadcast campaign promises to the people who read its rows.     *)
(*                                                                         *)
(* A campaign is published with all its recipients PENDING, and is closed  *)
(* by ONE step that decides every recipient: readers of the database never *)
(* see a half-sent campaign.  Messages go out only while the campaign is   *)
(* open, only to recipients that are still PENDING, and a recipient is     *)
(* marked SENT only if the message reached it.  A closed campaign never    *)
(* changes and never sends again.                                          *)
(*                                                                         *)
(* No worker, queue, transaction or lock appears here: Broadcast.tla, the  *)
(* worker's code, is shown to implement this module.                       *)
(***************************************************************************)

CONSTANTS
    Broadcasts,     \* the campaigns
    Users           \* the audience of the bot they are sent by

VARIABLES
    status,         \* [Broadcasts -> status of the committed broadcasts row]
    jobs,           \* [Broadcasts -> [Users -> status of the recipient's row]]
    reached         \* [Broadcasts -> the users that got the message]

vars == <<status, jobs, reached>>

Decided == {"sent", "failed", "skipped"}

Init ==
    /\ status = [b \in Broadcasts |-> "absent"]
    /\ jobs = [b \in Broadcasts |-> [u \in Users |-> "none"]]
    /\ reached = [b \in Broadcasts |-> {}]

Publish(b, s, audience) ==
    /\ status[b] = "absent"
    /\ status' = [status EXCEPT ![b] = s]
    /\ jobs' = [jobs EXCEPT
                  ![b] = [u \in Users |-> IF u \in audience THEN "pending" ELSE "none"]]
    /\ UNCHANGED reached

Deliver(b, u) ==
    /\ status[b] \in {"draft", "scheduled"}
    /\ jobs[b][u] = "pending"
    /\ reached' = [reached EXCEPT ![b] = @ \cup {u}]
    /\ UNCHANGED <<status, jobs>>

Close(b, verdict) ==
    /\ status[b] \in {"draft", "scheduled"}
    /\ \A u \in Users : verdict[u] = "sent" => u \in reached[b]
    /\ status' = [status EXCEPT ![b] = "sent"]
    /\ jobs' = [jobs EXCEPT
                  ![b] = [u \in Users |-> IF @[u] = "pending" THEN verdict[u] ELSE @[u]]]
    /\ UNCHANGED reached

Next ==
    \E b \in Broadcasts :
        \/ \E s \in {"draft", "scheduled"}, audience \in SUBSET Users :
              Publish(b, s, audience)
        \/ \E u \in Users : Deliver(b, u)
        \/ \E verdict \in [Users -> Decided] : Close(b, verdict)

Spec == Init /\ [][Next]_vars
=============================================================================
