------------------------------ MODULE Catalogue ------------------------------
(***************************************************************************)
(* What the admin panel promises about the channels of the bots.           *)
(*                                                                         *)
(* A channel enters the catalogue with its bot and its type and keeps both *)
(* until it is deleted; its id is not given out again.  A tier is a gate   *)
(* in front of a private channel that has none, and it requires channels   *)
(* of its own bot that are not gated themselves, one at a time.  What is   *)
(* deleted takes along everything that refers to it, at once.              *)
(*                                                                         *)
(* There is no wizard, draft, keyboard, transaction or failure here: every *)
(* step is one tap of the admin that had its effect, and a tap that had    *)
(* none is no step.  AdminWizard.tla, where an entry takes a handful of    *)
(* handlers that overlap and fail, is shown to implement this module.      *)
(***************************************************************************)
CONSTANTS
    Bots,
    Channels,       \* ids of channels
    NoBot

VARIABLES
    live,           \* channels in the catalogue
    owner,          \* [Channels -> the bot a channel is or was of]
    private,        \* channels that need a gate
    tiers,          \* channels that have one
    keeper,         \* [Channels -> the bot of a tier]
    required        \* <<tier, channel>>: what a user must have joined

vars == <<live, owner, private, tiers, keeper, required>>

Init ==
    /\ owner \in [Channels -> Bots \cup {NoBot}]
    /\ live = {c \in Channels : owner[c] # NoBot}
    /\ private \in SUBSET live
    /\ tiers = {} /\ keeper = [c \in Channels |-> NoBot]
    /\ required = {}

AddChannel(c, b, isPrivate) ==
    /\ owner[c] = NoBot
    /\ owner' = [owner EXCEPT ![c] = b]
    /\ live' = live \cup {c}
    /\ private' = IF isPrivate THEN private \cup {c} ELSE private
    /\ UNCHANGED <<tiers, keeper, required>>

(* The bot need not be the channel's: AdminWizard, TierIsOfItsBot.         *)
AddTier(c, b) ==
    /\ c \in (live \cap private) \ tiers
    /\ tiers' = tiers \cup {c}
    /\ keeper' = [keeper EXCEPT ![c] = b]
    /\ UNCHANGED <<live, owner, private, required>>

Require(c, d) ==
    /\ c \in tiers
    /\ d \in live \ private
    /\ owner[d] = keeper[c]
    /\ required' = required \cup {<<c, d>>}
    /\ UNCHANGED <<live, owner, private, tiers, keeper>>

Waive(c, d) ==
    /\ required' = required \ {<<c, d>>}
    /\ UNCHANGED <<live, owner, private, tiers, keeper>>

DeleteTier(c) ==
    /\ c \in tiers
    /\ tiers' = tiers \ {c}
    /\ keeper' = [keeper EXCEPT ![c] = NoBot]
    /\ required' = {r \in required : r[1] # c}
    /\ UNCHANGED <<live, owner, private>>

(* Its tier and what it is required for go with it.                        *)
DeleteChannel(c) ==
    /\ c \in live
    /\ live' = live \ {c}
    /\ tiers' = tiers \ {c}
    /\ keeper' = [keeper EXCEPT ![c] = NoBot]
    /\ required' = {r \in required : c \notin {r[1], r[2]}}
    /\ UNCHANGED <<owner, private>>

Next ==
    \/ \E c \in Channels, b \in Bots :
        AddTier(c, b) \/ \E isPrivate \in BOOLEAN : AddChannel(c, b, isPrivate)
    \/ \E c, d \in Channels : Require(c, d) \/ Waive(c, d)
    \/ \E c \in Channels : DeleteTier(c) \/ DeleteChannel(c)

Spec == Init /\ [][Next]_vars
=============================================================================
