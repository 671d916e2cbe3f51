-------------------------------- MODULE Gate --------------------------------
(***************************************************************************)
(* What the gate of a private channel promises to its admin.               *)
(*                                                                         *)
(* A desk takes one join request and, with it, one reading of the list of  *)
(* required channels.  It lets the person in only if every one of them     *)
(* that can be verified had the person inside less than Patience ago.  It  *)
(* refuses only on account of a channel of that same reading: where there  *)
(* is nothing to verify nobody is refused.  It decides only a request that *)
(* is open, decides once, and what it writes down is what was decided.     *)
(*                                                                         *)
(* There is no cache, no throttle, no delivery and no API error here, and  *)
(* a desk looks at all the channels at once: JoinGate.tla, the code with   *)
(* its awaits, is shown to implement this module.                          *)
(***************************************************************************)
EXTENDS Integers

CONSTANTS
    Users,
    Channels,
    LinkOnly,       \* the channels whose members cannot be looked up
    Desks,          \* where join requests are handled
    Patience,       \* the longest absence that may be overlooked
    Nobody

VARIABLES
    gone,           \* [Channels -> [Users -> time since last inside, capped]]
    required,       \* the required channels
    open,           \* the users with an undecided join request
    inside,         \* the users that were let in
    approvals,      \* [Users -> approvals on record]
    declines,       \* [Users -> refusals on record]
    desk            \* [Desks -> who is served, on what reading, with what verdict]

vars == <<gone, required, open, inside, approvals, declines, desk>>

Free == [who |-> Nobody, need |-> {}, verdict |-> "none"]

Init ==
    /\ gone = [c \in Channels |-> [u \in Users |-> Patience]]
    /\ required \in SUBSET Channels
    /\ open = {}
    /\ inside = {}
    /\ approvals = [u \in Users |-> 0]
    /\ declines = [u \in Users |-> 0]
    /\ desk = [d \in Desks |-> Free]

(* People come back to channels, and time passes for those outside. *)
Pass ==
    /\ gone' \in [Channels -> [Users -> 0 .. Patience]]
    /\ \A c \in Channels, u \in Users : gone'[c][u] \in {0, gone[c][u], gone[c][u] + 1}
    /\ UNCHANGED <<required, open, inside, approvals, declines, desk>>

(* The admin adds or removes one requirement. *)
Toggle(c) ==
    /\ required' = IF c \in required THEN required \ {c} ELSE required \cup {c}
    /\ UNCHANGED <<gone, open, inside, approvals, declines, desk>>

Ask(u) ==
    /\ u \notin open \cup inside
    /\ open' = open \cup {u}
    /\ UNCHANGED <<gone, required, inside, approvals, declines, desk>>

PickUp(d, u) ==
    /\ desk[d] = Free
    /\ desk' = [desk EXCEPT ![d] = [who |-> u, need |-> required, verdict |-> "none"]]
    /\ UNCHANGED <<gone, required, open, inside, approvals, declines>>

(* What the desk must verify before it lets its user in. *)
Verify(d) == desk[d].need \ LinkOnly

Decides(d, verdict) ==
    /\ desk[d].verdict = "none"
    /\ desk' = [desk EXCEPT ![d].verdict = verdict]
    /\ UNCHANGED <<gone, required, approvals, declines>>

(* "unresolved": it happened, but the desk was not told. *)
Admit(d) ==
    /\ \E verdict \in {"approved", "unresolved"} : Decides(d, verdict)
    /\ desk[d].who \in open
    /\ \A c \in Verify(d) : gone[c][desk[d].who] < Patience
    /\ open' = open \ {desk[d].who}
    /\ inside' = inside \cup {desk[d].who}

Refuse(d) ==
    /\ \E verdict \in {"declined", "unresolved"} : Decides(d, verdict)
    /\ desk[d].who \in open
    /\ Verify(d) # {}
    /\ open' = open \ {desk[d].who}
    /\ UNCHANGED inside

GiveUp(d) ==
    /\ desk[d] # Free
    /\ Decides(d, "unresolved")
    /\ UNCHANGED <<open, inside>>

Vacate(d) ==
    /\ desk' = [desk EXCEPT ![d] = Free]
    /\ UNCHANGED <<gone, required, open, inside>>

(* The verdict goes on record and the desk is free again. *)
Record(d) ==
    /\ desk[d].verdict # "none"
    /\ approvals' = IF desk[d].verdict = "approved"
                    THEN [approvals EXCEPT ![desk[d].who] = @ + 1] ELSE approvals
    /\ declines' = IF desk[d].verdict = "declined"
                   THEN [declines EXCEPT ![desk[d].who] = @ + 1] ELSE declines
    /\ Vacate(d)

(* The desk is left, whatever it had done, and nothing goes on record. *)
Abandon(d) ==
    /\ desk[d] # Free
    /\ Vacate(d)
    /\ UNCHANGED <<approvals, declines>>

Next ==
    \/ Pass
    \/ \E c \in Channels : Toggle(c)
    \/ \E u \in Users : Ask(u) \/ \E d \in Desks : PickUp(d, u)
    \/ \E d \in Desks : Admit(d) \/ Refuse(d) \/ GiveUp(d) \/ Record(d) \/ Abandon(d)

Spec == Init /\ [][Next]_vars
=============================================================================
