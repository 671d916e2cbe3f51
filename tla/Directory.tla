------------------------------ MODULE Directory ------------------------------
(***************************************************************************)
(* What the platform promises to the owners and the users of its bots.     *)
(*                                                                         *)
(* A bot is in the directory once, under an entry it keeps for ever.  The  *)
(* admin switches entries on and off.  A user's update is handled only by  *)
(* the entry of the bot it was sent to, which was on when the work began;  *)
(* the work may come to nothing, or be done more than once.  Telegram is   *)
(* told that an update is done with only when it was handled, or dropped:  *)
(* because the entry was off, or because it came too soon after another    *)
(* one.  Otherwise the update waits, until Telegram itself gives it up.    *)
(*                                                                         *)
(* There is no webhook, token, cache, web process, delivery or failure     *)
(* here: BotLifecycle.tla, the code that keeps these together, is shown to *)
(* implement this module.                                                  *)
(***************************************************************************)
CONSTANTS
    Accounts,       \* bots at Telegram
    Clients,        \* those the users write to
    Users,
    Ids,            \* the entries
    NoAccount

VARIABLES
    owner,          \* [Ids -> the bot the entry is for]
    active,         \* the entries that are on
    to, queue,      \* the users' last updates: for which bot, and who waits
    recent,         \* who has written to which bot just now
    work,           \* the users whose update is being handled
    outcome         \* [Users -> what became of the update]

directory == <<owner, active>>
updates == <<to, queue, recent, work, outcome>>
vars == <<directory, updates>>

Entries == {i \in Ids : owner[i] # NoAccount}

Init ==
    /\ owner \in [Ids -> Accounts \cup {NoAccount}]
    /\ \A i, j \in Entries : owner[i] = owner[j] => i = j
    /\ active \in SUBSET Entries
    /\ to = [u \in Users |-> NoAccount] /\ queue = {}
    /\ recent = {} /\ work = {}
    /\ outcome = [u \in Users |-> "none"]

Register(i, a) ==
    /\ i \notin Entries
    /\ \A j \in Entries : owner[j] # a
    /\ owner' = [owner EXCEPT ![i] = a]
    /\ active' = active \cup {i}
    /\ UNCHANGED updates

Switch(i) ==
    /\ active' = IF i \in active THEN active \ {i} ELSE active \cup {i}
    /\ UNCHANGED <<owner, updates>>

Becomes(u, what) ==
    outcome' = [outcome EXCEPT ![u] = IF what = "handled" \/ @ = "none" THEN what ELSE @]

Send(u, a) ==
    /\ u \notin queue \cup work
    /\ to' = [to EXCEPT ![u] = a]
    /\ queue' = queue \cup {u}
    /\ outcome' = [outcome EXCEPT ![u] = "none"]
    /\ UNCHANGED <<directory, recent, work>>

(* The update is not too soon after another one, and counts from now on.   *)
Accept(u) ==
    /\ u \in queue
    /\ <<u, to[u]>> \notin recent
    /\ recent' = recent \cup {<<u, to[u]>>}
    /\ UNCHANGED <<directory, to, queue, work, outcome>>

(* It is too soon. *)
Throttle(u) ==
    /\ u \in queue
    /\ <<u, to[u]>> \in recent
    /\ queue' = queue \ {u}
    /\ Becomes(u, "dropped")
    /\ UNCHANGED <<directory, to, recent, work>>

Cool(u, a) ==
    /\ recent' = recent \ {<<u, a>>}
    /\ UNCHANGED <<directory, to, queue, work, outcome>>

(* Entry i is the bot's: on ...                                            *)
Admit(u, i) ==
    /\ owner[i] = to[u]
    /\ i \in active
    /\ work' = work \cup {u}
    /\ UNCHANGED <<directory, to, queue, recent, outcome>>

(* ... or off.                                                             *)
Refuse(u, i) ==
    /\ owner[i] = to[u]
    /\ i \notin active
    /\ Becomes(u, "dropped")
    /\ UNCHANGED <<directory, to, queue, recent, work>>

(* Other work on the same update may go on. *)
Handle(u) ==
    /\ u \in work
    /\ work' \in {work, work \ {u}}
    /\ Becomes(u, "handled")
    /\ UNCHANGED <<directory, to, queue, recent>>

ComeToNothing(us) ==
    /\ work' = work \ us
    /\ UNCHANGED <<directory, to, queue, recent, outcome>>

Acknowledge(u) ==
    /\ outcome[u] \in {"handled", "dropped"}
    /\ queue' = queue \ {u}
    /\ UNCHANGED <<directory, to, recent, work, outcome>>

GiveUp(u) ==
    /\ u \in queue
    /\ queue' = queue \ {u}
    /\ Becomes(u, "abandoned")
    /\ UNCHANGED <<directory, to, recent, work>>

Update(u) ==
    \/ \E a \in Clients : Send(u, a)
    \/ Accept(u) \/ Throttle(u) \/ (\E a \in Accounts : Cool(u, a))
    \/ \E i \in Entries : Admit(u, i) \/ Refuse(u, i)
    \/ Handle(u) \/ Acknowledge(u) \/ GiveUp(u)

Next ==
    \/ \E i \in Ids, a \in Accounts : Register(i, a)
    \/ \E i \in Entries : Switch(i)
    \/ \E u \in Users : Update(u)
    \/ \E us \in SUBSET Users : ComeToNothing(us)

Spec == Init /\ [][Next]_vars
=============================================================================
