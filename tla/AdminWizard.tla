----------------------------- MODULE AdminWizard -----------------------------
(***************************************************************************)
(* The admin's wizards: one FSM (a state and a dictionary in Redis) for    *)
(* the one admin's chat, the handlers of handlers/admin/*.py that move it, *)
(* and the rows their last steps create: channels, private channels        *)
(* (tiers), requirements, menu buttons, broadcasts.                        *)
(*                                                                         *)
(* aiogram reads the state once, when an update arrives, to choose the     *)
(* handler.  The handler then awaits: update_data is get_data followed by  *)
(* set_data, clear is set_state followed by set_data, and the row is       *)
(* committed by the middleware when the handler has returned.  No lock     *)
(* isolates two updates of the chat; the throttle only drops (no step) one *)
(* that comes within 0.4 s of the last, and handlers that call Telegram    *)
(* take longer.  Keyboards stay in the chat, so every wizard can be opened *)
(* at any time, in the middle of another one, and what an abandoned one    *)
(* left in the dictionary stays there.                                     *)
(*                                                                         *)
(* A handler that only moves the FSM is a record: the state it is filtered *)
(* by, the keys it reads with data[...], what it writes, the state it sets *)
(* and what it writes after that.  The last handlers of the wizards have   *)
(* actions of their own.  Inputs a handler turns down without a trace      *)
(* (a chat_id or a position that is no number, text instead of a photo)    *)
(* change nothing and have no step; neither has menu_toggle.               *)
(*                                                                         *)
(* Bounds: Calls; Channels, the ids of channels rows, which are never given *)
(* out again; MaxEvents, on wizards opened, failures and deletions         *)
(* together; and MaxOverlaps, on updates that arrive while another is at   *)
(* work.                                                                   *)
(***************************************************************************)
EXTENDS Naturals, FiniteSets

CONSTANTS
    Bots,           \* the child bots' rows
    Channels,       \* ids for channels rows (bound)
    Calls,          \* slots for running handlers (bound)
    MaxEvents, MaxOverlaps,     \* see above (bounds)
    NoBot, NoChannel

ASSUME CallsAreFinite == IsFiniteSet(Calls)
ASSUME BoundsAreNumbers == MaxEvents \in Nat /\ MaxOverlaps \in Nat
ASSUME NamesAreFree == NoBot \notin Bots /\ NoChannel \notin Channels

VARIABLES
    state, data,            \* the FSM in Redis; NoBot stands for no value
    live, owner, private,   \* channels rows: existing, bot_id, type PRIVATE
    tiers, keeper,          \* private_channels rows by channel_id; bot_id
    required,               \* channel_requirements: <<tier, channel>>
    buttons,                \* menu_buttons, by type and shape of payload
    offered,                \* channels on any "pick the channel" keyboard
    toggles,                \* requirement toggles that are not committed
    pc, job, snap,          \* the handlers; snap is what get_data gave
    fresh, latest,          \* history: keys written since a wizard was last
                            \* opened, channels on the last pick keyboard
    torn,                   \* history: state and data may not fit, because
                            \* handlers overlapped or one was cut in two
    astray, doubtful,       \* history: tiers not picked on the keyboard of
                            \* their own wizard; handlers that create such
    made,                   \* history: rows created by wizards
    opened, overlaps, others        \* events: wizards opened, updates that
                            \* arrived while another was at work, the rest

fsm == <<state, data, fresh>>
channels == <<live, owner, private>>
gates == <<tiers, keeper, required, astray>>
call == <<pc, job, snap, doubtful>>
events == <<opened, overlaps, others>>
counters == <<made, events>>
vars == <<fsm, channels, gates, buttons, offered, latest, toggles, torn, call, counters>>

-----------------------------------------------------------------------------
(* The handlers as data. *)

Keys == {"target", "content", "inline_buttons", "channel_type", "label",
         "chat_id", "title", "text", "btn_type", "payload", "token"}

Nothing == [k \in {} |-> NoBot]

Step(from, reads, sets, to, then) ==
    [from |-> from, reads |-> reads, sets |-> sets, to |-> to, then |-> then,
     adds |-> "none", pick |-> NoChannel]

Last(from, reads, row) ==
    [from |-> from, reads |-> reads, sets |-> Nothing, to |-> "none", then |-> Nothing,
     adds |-> row, pick |-> NoChannel]

BroadcastSteps == {
    Step("bc_content", {}, [content |-> "given"], "bc_buttons", Nothing),
    Step("bc_buttons", {}, [inline_buttons |-> "given"], "bc_choice", Nothing),
    Step("bc_choice", {}, Nothing, "bc_datetime", Nothing)}

(* Send now, or a date. *)
FinishBroadcast == {
    Last("bc_choice", {"target", "content"}, "broadcast"),
    Last("bc_datetime", {"target", "content"}, "broadcast")}

(* Mutant of ChannelSteps: /skip stores no chat_id.                        *)
ChannelStepsSkipping == {
    Step("ch_type", {}, [channel_type |-> "public"], "ch_label", Nothing),
    Step("ch_label", {}, [label |-> "given"], "ch_chat_id", Nothing),
    Step("ch_chat_id", {}, Nothing, "ch_url", Nothing)}

ChannelSteps == {
    Step("ch_type", {}, [channel_type |-> "private"], "ch_label", Nothing),
    Step("ch_type", {}, [channel_type |-> "public"], "ch_label", Nothing),
    Step("ch_label", {}, [label |-> "given"], "ch_chat_id", Nothing),
    Step("ch_chat_id", {}, [chat_id |-> "given"], "ch_url", Nothing)}

FinishChannel == {Last("ch_url", {"target", "chat_id", "channel_type", "label"}, "channel")}

(* The keyboard of channels is built in OfferChannels. *)
TierSteps == {Step("pc_title", {}, [title |-> "given"], "pc_pick", Nothing)}

PickChannel(c) == [Last("pc_pick", {"target", "title"}, "tier") EXCEPT !.pick = c]

(* Mutant of MenuSteps: the prefilled text replaces the payload.           *)
MenuStepsForgetful == {
    Step("mb_text", {}, [text |-> "given"], "mb_type", Nothing),
    Step("mb_type", {}, [btn_type |-> "external_chat"], "mb_username", Nothing),
    Step("mb_username", {}, [payload |-> "external_chat"], "mb_prefilled", Nothing),
    Step("mb_prefilled", {}, [payload |-> "callback"], "mb_place", Nothing)}

(* For a callback button the payload is written after the state; the       *)
(* prefilled text is added to the payload that data holds.                 *)
MenuSteps == {
    Step("mb_text", {}, [text |-> "given"], "mb_type", Nothing),
    Step("mb_type", {}, [btn_type |-> "url"], "mb_url", Nothing),
    Step("mb_type", {}, [btn_type |-> "external_chat"], "mb_username", Nothing),
    Step("mb_type", {}, [btn_type |-> "callback"], "mb_place", [payload |-> "callback"]),
    Step("mb_url", {}, [payload |-> "url"], "mb_place", Nothing),
    Step("mb_username", {}, [payload |-> "external_chat"], "mb_prefilled", Nothing),
    Step("mb_prefilled", {"payload"}, Nothing, "mb_place", Nothing)}

FinishButton == {Last("mb_place", {"target", "text", "btn_type", "payload"}, "button")}

RegisterSteps == {
    Step("any", {}, Nothing, "rb_token", Nothing),
    Step("rb_token", {}, [token |-> "given"], "rb_name", Nothing)}

FinishRegister == {Last("rb_name", {"token"}, "bot")}

(* The states of WelcomeEditStates and CaptchaEditStates are alike: one    *)
(* message, or one tap, sets a column of the bot's configuration.          *)
FinishEdit == {Last("edit", {"target"}, "edit")}

(* adm:...:{bot id}: the id is stored, then the first state is set. *)
Openings == {Step("any", {}, [target |-> b], s, Nothing) :
    b \in Bots, s \in {"bc_content", "ch_type", "pc_title", "mb_text", "edit"}}

(* A bot's page stores its id under a key that nothing reads; the rest of  *)
(* the dictionary is written back with it.                                 *)
BotDetail == Step("any", {}, Nothing, "stay", Nothing)

(* /start and adm:home *)
Home == Last("any", {}, "none")

Handlers ==
    Openings \cup RegisterSteps \cup BroadcastSteps \cup ChannelSteps \cup TierSteps
    \cup MenuSteps \cup FinishBroadcast \cup FinishChannel \cup FinishButton
    \cup FinishRegister \cup FinishEdit \cup {BotDetail, Home}

Picks == {PickChannel(c) : c \in Channels}

Opens(j) == j.from = "any" /\ j.to \notin {"none", "stay"}
Creates(j) == j.adds \in {"broadcast", "channel", "tier", "button"}

-----------------------------------------------------------------------------
(* Running a handler. *)

Idle == BotDetail

Spent == opened + others

SpendOne ==
    /\ Spent < MaxEvents
    /\ others' = others + 1
    /\ UNCHANGED <<made, opened, overlaps>>

Busy == {h \in Calls : pc[h] # "idle"}

(* data with the keys of s set *)
Put(d, s) == [k \in DOMAIN d \cup DOMAIN s |-> IF k \in DOMAIN s THEN s[k] ELSE d[k]]

(* The first step of a handler. *)
FirstStep(j) ==
    IF j.reads # {} THEN "fetch"
    ELSE IF j.sets # Nothing \/ j.to = "stay" THEN "read"
    ELSE IF j.to = "none" THEN "clear" ELSE "move"

Goto(h, next) == pc' = [pc EXCEPT ![h] = next]

(* Handler h is over, or goes on with what it writes after its move. *)
Proceed(h) ==
    /\ job' = [job EXCEPT ![h] = IF pc[h] = "move" /\ job[h].then # Nothing
                                 THEN Step("any", {}, job[h].then, "stay", Nothing) ELSE Idle]
    /\ snap' = [snap EXCEPT ![h] = Nothing]
    /\ Goto(h, IF pc[h] = "move" /\ job[h].then # Nothing THEN "read" ELSE "idle")
    /\ doubtful' = doubtful \ {h}

(* An update arrives: a message, or a tap on any keyboard ever sent. *)
Arrive(h, j) ==
    /\ pc[h] = "idle"
    /\ j.from \in {"any", state}
    /\ j.pick # NoChannel => j.pick \in offered
    /\ Goto(h, FirstStep(j))
    /\ job' = [job EXCEPT ![h] = j]
    /\ opened' = IF Opens(j) THEN opened + 1 ELSE opened
    /\ overlaps' = IF Busy # {} THEN overlaps + 1 ELSE overlaps
    /\ torn' = (torn \/ Busy # {})
    /\ UNCHANGED <<fsm, channels, gates, buttons, offered, latest, toggles, snap, doubtful,
                   made, others>>
    /\ Spent' <= MaxEvents /\ overlaps' <= MaxOverlaps

(* get_data for the keys a handler uses.  A missing key raises KeyError, a *)
(* picked channel that is gone AttributeError: the handler ends.           *)
Fetch(h) ==
    /\ pc[h] = "fetch"
    /\ job[h].reads \subseteq DOMAIN data
    /\ job[h].pick # NoChannel => job[h].pick \in live
    /\ IF job[h].to # "none"
       THEN /\ job' = [job EXCEPT ![h] = Step(job[h].from, {},
                    [k \in job[h].reads |-> data[k]], job[h].to, Nothing)]
            /\ Goto(h, "read")
            /\ UNCHANGED <<snap, doubtful>>
       ELSE /\ snap' = [snap EXCEPT ![h] = data]
            /\ doubtful' = IF job[h].pick # NoChannel /\ (torn \/ job[h].pick \notin latest)
                           THEN doubtful \cup {h} ELSE doubtful
            /\ Goto(h, "clear")
            /\ UNCHANGED job
    /\ UNCHANGED <<fsm, channels, gates, buttons, offered, latest, toggles, torn, counters>>

FetchFails(h) ==
    /\ pc[h] \in {"fetch", "look"}
    /\ \/ ~ job[h].reads \subseteq DOMAIN data
       \/ pc[h] = "fetch" /\ job[h].pick \notin live \cup {NoChannel}
       \/ pc[h] = "look" /\ "target" \notin DOMAIN data
    /\ Proceed(h)
    /\ UNCHANGED <<fsm, channels, gates, buttons, offered, latest, toggles, torn, counters>>

(* The bot is inactive or Telegram refuses: said so, and nothing changed.  *)
Refuse(h) ==
    /\ pc[h] = "clear"
    /\ job[h].adds \in {"tier", "bot"}
    /\ Proceed(h)
    /\ UNCHANGED <<fsm, channels, gates, buttons, offered, latest, toggles, torn, counters>>

(* update_data: get_data ... *)
Read(h) ==
    /\ pc[h] = "read"
    /\ snap' = [snap EXCEPT ![h] = data]
    /\ Goto(h, "write")
    /\ UNCHANGED <<fsm, channels, gates, buttons, offered, latest, toggles, torn, job, doubtful,
                   counters>>

(* ... and set_data.  Opening a wizard does not forget an earlier one.     *)
Write(h) ==
    /\ pc[h] = "write"
    /\ data' = Put(snap[h], job[h].sets)
    /\ fresh' = IF Opens(job[h]) THEN DOMAIN job[h].sets ELSE fresh \cup DOMAIN job[h].sets
    /\ IF job[h].to = "stay"
       THEN Proceed(h)
       ELSE /\ Goto(h, IF job[h].from = "pc_title" THEN "look" ELSE "move")
            /\ UNCHANGED <<job, snap, doubtful>>
    /\ UNCHANGED <<state, channels, gates, buttons, offered, latest, toggles, torn, counters>>

(* set_state *)
Move(h) ==
    /\ pc[h] = "move"
    /\ job[h].from # "pc_title"
    /\ state' = job[h].to
    /\ fresh' = IF Opens(job[h]) /\ job[h].sets = Nothing THEN {} ELSE fresh
    /\ Proceed(h)
    /\ UNCHANGED <<data, channels, gates, buttons, offered, latest, toggles, torn, counters>>

(* The title is stored; which bot is it for?                               *)
Look(h) ==
    /\ pc[h] = "look"
    /\ "target" \in DOMAIN data
    /\ snap' = [snap EXCEPT ![h] = data]
    /\ Goto(h, "move")
    /\ UNCHANGED <<fsm, channels, gates, buttons, offered, latest, toggles, torn, job, doubtful,
                   counters>>

(* Mutant of Available: private channels of every bot are offered.         *)
AvailableOfAll(b) == {c \in live : c \in private /\ keeper[c] # b}

(* The private channels of the bot that no tier of this bot wraps.  One of  *)
(* them may have a tier of another bot: then the pick ends in CommitFails.  *)
Available(b) == {c \in live : owner[c] = b /\ c \in private /\ keeper[c] # b}

OfferChannels(h) ==
    /\ pc[h] = "move"
    /\ job[h].from = "pc_title"
    /\ LET available == Available(snap[h].target) IN
       IF available = {}
       THEN /\ Goto(h, "clear")
            /\ UNCHANGED <<state, offered, latest, job, snap, doubtful>>
       ELSE /\ state' = job[h].to
            /\ offered' = offered \cup available
            /\ latest' = available
            /\ Proceed(h)
    /\ UNCHANGED <<data, fresh, channels, gates, buttons, toggles, torn, counters>>

(* Mutant of Clear: a last handler does not clear.                         *)
ClearNothing(h) ==
    /\ pc[h] = "clear"
    /\ IF job[h].adds = "none"
       THEN Proceed(h)
       ELSE Goto(h, "commit") /\ UNCHANGED <<job, snap, doubtful>>
    /\ UNCHANGED <<fsm, channels, gates, buttons, offered, latest, toggles, torn, counters>>

(* clear: set_state(None) ...  The row has been built before.              *)
Clear(h) ==
    /\ pc[h] = "clear"
    /\ state' = "none"
    /\ Goto(h, "wipe")
    /\ UNCHANGED <<data, fresh, channels, gates, buttons, offered, latest, toggles, torn, job,
                   snap, doubtful, counters>>

(* ... and set_data({}).                                                   *)
Wipe(h) ==
    /\ pc[h] = "wipe"
    /\ data' = Nothing
    /\ fresh' = {}
    /\ torn' = (torn /\ ~ (Busy = {h} /\ state = "none"))
    /\ IF job[h].adds = "none"
       THEN Proceed(h)
       ELSE Goto(h, "commit") /\ UNCHANGED <<job, snap, doubtful>>
    /\ UNCHANGED <<state, channels, gates, buttons, offered, latest, toggles, counters>>

(* The middleware commits.  The row: *)
AddBroadcast(h) == job[h].adds = "broadcast" /\ UNCHANGED <<channels, gates, buttons>>

AddButton(h) ==
    /\ job[h].adds = "button"
    /\ buttons' = buttons \cup {[type |-> snap[h].btn_type, payload |-> snap[h].payload]}
    /\ UNCHANGED <<channels, gates>>

AddChannel(h) ==
    /\ job[h].adds = "channel"
    /\ \E c \in Channels :
        /\ owner[c] = NoBot
        /\ live' = live \cup {c}
        /\ owner' = [owner EXCEPT ![c] = snap[h].target]
        /\ private' = IF snap[h].channel_type = "private" THEN private \cup {c} ELSE private
    /\ UNCHANGED <<gates, buttons>>

(* Mutant of AddTier: nothing ties the row to an existing channel.         *)
AddTierAnyhow(h) ==
    /\ job[h].adds = "tier"
    /\ LET c == job[h].pick IN
        /\ c \notin tiers
        /\ tiers' = tiers \cup {c}
        /\ keeper' = [keeper EXCEPT ![c] = snap[h].target]
        /\ astray' = astray
    /\ UNCHANGED <<channels, buttons, required>>

(* The channel still exists (foreign key) and has no tier (unique).        *)
AddTier(h) ==
    /\ job[h].adds = "tier"
    /\ LET c == job[h].pick IN
        /\ c \in live \ tiers
        /\ tiers' = tiers \cup {c}
        /\ keeper' = [keeper EXCEPT ![c] = snap[h].target]
        /\ astray' = IF h \in doubtful THEN astray \cup {c} ELSE astray \ {c}
    /\ UNCHANGED <<channels, buttons, required>>

(* A column of bot_configs, or the bot's row (BotLifecycle).               *)
EditConfig(h) == job[h].adds \in {"edit", "bot"} /\ UNCHANGED <<channels, gates, buttons>>

Commit(h) ==
    /\ pc[h] = "commit"
    /\ AddBroadcast(h) \/ AddButton(h) \/ AddChannel(h) \/ AddTier(h) \/ EditConfig(h)
    /\ made' = IF Creates(job[h]) THEN made + 1 ELSE made
    /\ Proceed(h)
    /\ UNCHANGED <<fsm, offered, latest, toggles, torn, events>>

(* The channel is gone or has a tier by now, or the chat is registered for *)
(* the bot already: rolled back, after the admin was told of success.      *)
CommitFails(h) ==
    /\ pc[h] = "commit"
    /\ \/ job[h].adds = "tier" /\ job[h].pick \notin live \ tiers
       \/ job[h].adds = "channel"
    /\ Proceed(h)
    /\ UNCHANGED <<fsm, channels, gates, buttons, offered, latest, toggles, torn, counters>>

(* An exception or a kill: the session is rolled back, Redis keeps what    *)
(* was written.                                                            *)
Abort(h) ==
    /\ pc[h] # "idle"
    /\ SpendOne
    /\ torn' = \/ torn
               \/ pc[h] = "move" /\ Opens(job[h])
               \/ job[h].to = "stay" /\ "payload" \in DOMAIN job[h].sets
    /\ pc' = [pc EXCEPT ![h] = "idle"]
    /\ job' = [job EXCEPT ![h] = Idle]
    /\ snap' = [snap EXCEPT ![h] = Nothing]
    /\ doubtful' = doubtful \ {h}
    /\ UNCHANGED <<fsm, channels, gates, buttons, offered, latest, toggles>>

-----------------------------------------------------------------------------
(* Callbacks that need no FSM: the row's id is in the button.              *)

(* A requirement goes with either of its channels, a tier with its own.    *)
CutOff(c) == {r \in required : c \in {r[1], r[2]}}

DeleteChannel(c) ==
    /\ c \in live
    /\ live' = live \ {c}
    /\ tiers' = tiers \ {c}
    /\ keeper' = [keeper EXCEPT ![c] = NoBot]
    /\ astray' = astray \ {c}
    /\ required' = required \ CutOff(c)
    /\ toggles' = {t \in toggles : c \notin {t.tier, t.channel}}
    /\ SpendOne
    /\ UNCHANGED <<fsm, owner, private, buttons, offered, latest, torn, call>>

DeleteTier(c) ==
    /\ c \in tiers
    /\ tiers' = tiers \ {c}
    /\ keeper' = [keeper EXCEPT ![c] = NoBot]
    /\ astray' = astray \ {c}
    /\ required' = {r \in required : r[1] # c}
    /\ toggles' = {t \in toggles : t.tier # c}
    /\ SpendOne
    /\ UNCHANGED <<fsm, channels, buttons, offered, latest, torn, call>>

DeleteButton(b) ==
    /\ b \in buttons
    /\ buttons' = buttons \ {b}
    /\ SpendOne
    /\ UNCHANGED <<fsm, channels, gates, offered, latest, toggles, torn, call>>

(* Mutant of Listed: private channels can be required as well.             *)
ListedAll(c) == {d \in live : owner[d] = keeper[c]}

(* The channels on the requirements keyboard of tier c.                    *)
Listed(c) == {d \in live : owner[d] = keeper[c] /\ d \notin private}

(* A tap on it, maybe an old one, reads whether the requirement exists ... *)
ReadRequirement(c, d) ==
    /\ c \in tiers
    /\ d \in Listed(c)
    /\ toggles' = toggles \cup {[tier |-> c, channel |-> d, adds |-> <<c, d>> \notin required]}
    /\ UNCHANGED <<fsm, channels, gates, buttons, offered, latest, torn, call, counters>>

(* ... and the opposite is committed.  When a row it refers to was deleted *)
(* in between, the foreign key fails it: DeleteTier, DeleteChannel.        *)
WriteRequirement(t) ==
    /\ t \in toggles
    /\ toggles' = toggles \ {t}
    /\ required' = IF t.adds THEN required \cup {<<t.tier, t.channel>>}
                   ELSE required \ {<<t.tier, t.channel>>}
    /\ UNCHANGED <<fsm, channels, tiers, keeper, astray, buttons, offered, latest, torn, call,
                   counters>>

(* Its handler fails: the foreign key, or the keyboard that pc_req_toggle   *)
(* shows last.  pc_reqs_menu takes the last number of the tapped button,    *)
(* here the channel's id, for a tier's (private_channels.py:151, :191), so  *)
(* that a tier is shown that nobody asked for or, when no tier has that id, *)
(* None.bot_id raises and the toggle, already confirmed, is rolled back.    *)
DropRequirement(t) ==
    /\ t \in toggles
    /\ toggles' = toggles \ {t}
    /\ UNCHANGED <<fsm, channels, gates, buttons, offered, latest, torn, call, counters>>

-----------------------------------------------------------------------------
(* A bot may own channels before. *)
Init ==
    /\ state = "none" /\ data = Nothing /\ fresh = {}
    /\ owner \in [Channels -> Bots \cup {NoBot}]
    /\ live = {c \in Channels : owner[c] # NoBot}
    /\ private \in SUBSET live
    /\ tiers = {} /\ keeper = [c \in Channels |-> NoBot]
    /\ required = {} /\ astray = {}
    /\ buttons = {} /\ offered = {} /\ latest = {} /\ toggles = {}
    /\ torn = FALSE
    /\ pc = [h \in Calls |-> "idle"]
    /\ job = [h \in Calls |-> Idle]
    /\ snap = [h \in Calls |-> Nothing]
    /\ doubtful = {}
    /\ made = 0 /\ opened = 0 /\ overlaps = 0 /\ others = 0

Advance(h) ==
    \/ Fetch(h) \/ FetchFails(h) \/ Refuse(h) \/ Read(h) \/ Write(h) \/ Move(h) \/ Look(h)
    \/ OfferChannels(h) \/ Clear(h) \/ Wipe(h) \/ Commit(h) \/ CommitFails(h) \/ Abort(h)

Catalog ==
    \/ \E c \in Channels : DeleteChannel(c) \/ DeleteTier(c)
    \/ \E b \in buttons : DeleteButton(b)
    \/ \E c, d \in Channels : ReadRequirement(c, d)
    \/ \E t \in toggles : WriteRequirement(t) \/ DropRequirement(t)

Next ==
    \/ \E h \in Calls : Advance(h) \/ \E j \in Handlers \cup Picks : Arrive(h, j)
    \/ Catalog

Spec == Init /\ [][Next]_vars

-----------------------------------------------------------------------------
(* Properties. *)

States == {"none", "bc_content", "bc_buttons", "bc_choice", "bc_datetime",
    "ch_type", "ch_label", "ch_chat_id", "ch_url", "pc_title", "pc_pick",
    "mb_text", "mb_type", "mb_url", "mb_username", "mb_prefilled", "mb_place",
    "rb_token", "rb_name", "edit"}

ButtonTypes == {"url", "external_chat", "callback"}

Values(k) ==
    CASE k = "target" -> Bots
      [] k = "channel_type" -> {"private", "public"}
      [] k \in {"btn_type", "payload"} -> ButtonTypes
      [] OTHER -> {"given"}

IsData(d) == DOMAIN d \subseteq Keys /\ \A k \in DOMAIN d : d[k] \in Values(k)

IsJob(j) ==
    /\ j.from \in States \cup {"any"} /\ j.to \in States \cup {"stay"}
    /\ j.reads \subseteq Keys /\ IsData(j.sets)
    /\ j.then \in {Nothing, [payload |-> "callback"]}
    /\ j.adds \in {"none", "broadcast", "channel", "tier", "button", "edit", "bot"}
    /\ j.pick \in Channels \cup {NoChannel}

FsmTypeOK ==
    /\ state \in States /\ IsData(data) /\ fresh \subseteq Keys
    /\ torn \in BOOLEAN

RowsTypeOK ==
    /\ owner \in [Channels -> Bots \cup {NoBot}]
    /\ live \subseteq {c \in Channels : owner[c] # NoBot} /\ private \subseteq Channels
    /\ tiers \subseteq live
    /\ keeper \in [Channels -> Bots \cup {NoBot}]
    /\ \A c \in Channels : c \in tiers <=> keeper[c] # NoBot
    /\ required \subseteq tiers \X live /\ astray \subseteq tiers
    /\ buttons \subseteq [type : ButtonTypes, payload : ButtonTypes]
    /\ offered \subseteq Channels /\ latest \subseteq offered
    /\ toggles \subseteq [tier : tiers, channel : live, adds : BOOLEAN]

CallsTypeOK ==
    /\ pc \in [Calls -> {"idle", "fetch", "read", "write", "look", "move", "clear", "wipe", "commit"}]
    /\ DOMAIN job = Calls /\ DOMAIN snap = Calls
    /\ \A h \in Calls : IsJob(job[h]) /\ IsData(snap[h])
    /\ doubtful \subseteq Busy

CountsTypeOK ==
    /\ made \in Nat /\ opened \in Nat /\ overlaps \in Nat /\ others \in Nat
    /\ Spent <= MaxEvents /\ overlaps <= MaxOverlaps

TypeOK == FsmTypeOK /\ RowsTypeOK /\ CallsTypeOK /\ CountsTypeOK

(* What the rest of the wizard reads with data[...] when the FSM is in s.  *)
Needs(s) ==
    CASE s \in {"bc_content"} -> {"target"}
      [] s \in {"bc_buttons"} -> {"target", "content"}
      [] s \in {"bc_choice", "bc_datetime"} -> {"target", "content", "inline_buttons"}
      [] s \in {"ch_type", "pc_title", "mb_text", "edit"} -> {"target"}
      [] s = "ch_label" -> {"target", "channel_type"}
      [] s = "ch_chat_id" -> {"target", "channel_type", "label"}
      [] s = "ch_url" -> {"target", "channel_type", "label", "chat_id"}
      [] s = "pc_pick" -> {"target", "title"}
      [] s = "mb_type" -> {"target", "text"}
      [] s \in {"mb_url", "mb_username"} -> {"target", "text", "btn_type"}
      [] s \in {"mb_prefilled", "mb_place"} -> {"target", "text", "btn_type", "payload"}
      [] s = "rb_name" -> {"token"}
      [] OTHER -> {}

(* Between updates the dictionary holds everything the rest of the wizard  *)
(* reads, given in this wizard and not left over from an abandoned one,    *)
(* unless two updates overlapped or a handler was cut in two since the     *)
(* last clear: no KeyError, and no draft mixed from two wizards            *)
(* (handlers/admin/*.py, data[...] in each last handler).                  *)
DraftIsComplete ==
    Busy = {} /\ ~ torn => Needs(state) \subseteq fresh \cap DOMAIN data

(* As long as no two updates of the admin overlap, every button can be     *)
(* drawn: _render_menu_button reads payload["url"] or payload["username"]  *)
(* by the button's type, and a KeyError there fails every /start of the    *)
(* bot's users.  Abandoned wizards and failed handlers do no harm.         *)
ButtonsRender ==
    overlaps = 0 => \A b \in buttons : b.type # "callback" => b.payload = b.type

(* A wizard that was opened creates at most one row; every further row     *)
(* takes an update that was handled while another was at work (a double    *)
(* tap on "Send now").                                                     *)
RowsAreBounded == made <= opened + overlaps

(* A tier belongs to the bot of the channel it wraps, unless it was picked *)
(* on the keyboard of an earlier wizard or in a torn one: pc_pick_channel  *)
(* does not compare the two.                                               *)
TierIsOfItsBot == \A c \in tiers \ astray : keeper[c] = owner[c]

(* What a gate requires, it can check and show: a channel of the tier's    *)
(* bot that still exists and is not itself behind a gate; and the tier     *)
(* wraps an existing private channel (check_access, handle_join_request).  *)
RequirementsAreCheckable ==
    \A r \in required :
        /\ r[1] \in tiers \cap live \cap private
        /\ r[2] \in live \ private
        /\ owner[r[2]] = keeper[r[1]]

(* To the outside, wizards that overlap, fail and are abandoned, keyboards *)
(* of any age and toggles that interleave with deletions are a catalogue   *)
(* in which every tap has one legal effect or none (Catalogue.tla).        *)
Promise == INSTANCE Catalogue
ImplementsCatalogue == Promise!Spec

-----------------------------------------------------------------------------
(* The inductive invariant. *)

(* What a handler's job must be like for the handlers to fit together: the *)
(* step leaves what the next state needs, and a button's payload is of its *)
(* type.                                                                   *)
FitsNext(j) ==
    /\ j.to = "stay" => /\ j.from = "any" /\ j.then = Nothing /\ j.reads = {}
                        /\ j.sets \in {Nothing, [payload |-> "callback"]}
    /\ j.to \notin {"none", "stay"} => /\ j.adds = "none"
            /\ IF j.from = "any"
               THEN /\ j.then = Nothing /\ Needs(j.to) \subseteq DOMAIN j.sets
                    /\ DOMAIN j.sets \subseteq {"target"}
                    /\ j.to \in {"bc_content", "ch_type", "pc_title", "mb_text", "edit", "rb_token"}
               ELSE /\ "target" \notin DOMAIN j.sets
                    /\ Needs(j.to) \subseteq Needs(j.from) \cup DOMAIN j.sets \cup DOMAIN j.then
    /\ j.to = "none" => j.sets = Nothing /\ j.then = Nothing /\ (j.from = "any" => j.adds = "none")

FitsRow(j) ==
    /\ j.pick # NoChannel <=> j.adds = "tier"
    /\ j.adds = "tier" => j.from = "pc_pick" /\ "target" \in j.reads
    /\ j.adds = "channel" => {"target", "channel_type"} \subseteq j.reads
    /\ j.adds = "button" => j.from = "mb_place" /\ {"btn_type", "payload"} \subseteq j.reads
    /\ j.adds # "none" => j.to = "none" /\ j.reads # {}

FitsButton(j) ==
    /\ j.from = "mb_type" =>
        \/ j.to = "mb_url" /\ j.sets = [btn_type |-> "url"]
        \/ j.to = "mb_username" /\ j.sets = [btn_type |-> "external_chat"]
        \/ j.to = "mb_place" /\ j.sets = [btn_type |-> "callback"]
    /\ j.from = "mb_url" => j.to = "mb_place" /\ j.sets = [payload |-> "url"]
    /\ j.from = "mb_username" => j.to = "mb_prefilled" /\ j.sets = [payload |-> "external_chat"]
    /\ j.from = "mb_prefilled" => j.to = "mb_place" /\ (j.reads = {} => DOMAIN j.sets = {"payload"})
    /\ j.to \in {"mb_url", "mb_username"} => j.from = "mb_type"
    /\ j.to = "mb_prefilled" => j.from = "mb_username"
    /\ j.to = "mb_place" => j.from \in {"mb_type", "mb_url", "mb_prefilled"}
    /\ j.then # Nothing <=> j.from = "mb_type" /\ j.to = "mb_place"
    /\ j.to # "stay" /\ DOMAIN j.sets \cap {"btn_type", "payload"} # {} =>
        j.from \in {"mb_type", "mb_url", "mb_username", "mb_prefilled"}
    /\ j.to = "pc_pick" <=> j.from = "pc_title"
    /\ j.from = "pc_title" => j.sets = [title |-> "given"]
    /\ j.to \notin {"none", "stay"} /\ j.reads # {} => j.from = "mb_prefilled" /\ j.reads = {"payload"}

(* Where a handler is tells what it has in hand. *)
JobsFit ==
    \A h \in Calls : LET j == job[h] IN
        /\ FitsNext(j) /\ FitsRow(j) /\ FitsButton(j)
        /\ pc[h] = "idle" => j = Idle
        /\ pc[h] = "fetch" => j.reads # {}
        /\ pc[h] \in {"read", "write"} => j.to # "none" /\ j.reads = {}
        /\ pc[h] = "look" => j.from = "pc_title"
        /\ pc[h] = "move" => j.to \notin {"none", "stay"} /\ j.reads = {}
        /\ pc[h] = "move" /\ j.from = "pc_title" => "target" \in DOMAIN snap[h]
        /\ pc[h] = "clear" => j.to = "none" \/ j.from = "pc_title"
        /\ pc[h] \in {"clear", "wipe", "commit"} /\ j.adds # "none" => j.reads \subseteq DOMAIN snap[h]
        /\ pc[h] = "commit" => j.adds # "none"
        /\ pc[h] \in {"wipe", "commit"} => j.to = "none" \/ j.from = "pc_title"

(* Keyboards offer private channels, for tiers, and the requirements a     *)
(* toggle adds are checkable.                                              *)
GatesFit ==
    /\ private \subseteq {c \in Channels : owner[c] # NoBot}
    /\ offered \subseteq private /\ tiers \subseteq private
    /\ \A h \in Calls : job[h].pick # NoChannel => job[h].pick \in offered
    /\ \A t \in toggles : t.channel \notin private /\ owner[t.channel] = keeper[t.tier]

(* As long as handlers do not overlap, nobody changes the FSM under a      *)
(* handler's hands.                                                        *)
OneAtATime ==
    ~ torn \/ overlaps = 0 =>
        /\ \A h, k \in Busy : h = k
        /\ \A h \in Busy :
            /\ pc[h] = "write" => snap[h] = data
            /\ pc[h] = "move" /\ job[h].from = "pc_title" => snap[h] = data
            /\ pc[h] \in {"fetch", "read", "write", "look", "move", "clear"} =>
                    job[h].from \in {"any", state}
            /\ pc[h] \in {"wipe", "commit"} => state = "none"

(* The last keyboard of channels is of the bot the wizard is for, and a    *)
(* pick on it too.                                                         *)
PicksFit ==
    /\ ~ torn /\ state = "pc_pick" /\ (\A h \in Busy : Opens(job[h]) => pc[h] # "move") =>
            "target" \in DOMAIN data /\ \A c \in latest : owner[c] = data.target
    /\ \A h \in Calls \ doubtful :
            job[h].adds = "tier" /\ pc[h] \in {"clear", "wipe", "commit"} =>
                owner[job[h].pick] = snap[h].target

(* The draft is complete for the state, or for the one a handler is about  *)
(* to set.                                                                 *)
Has(ks) == ks \subseteq fresh \cap DOMAIN data

DraftsFit ==
    ~ torn =>
        /\ Busy = {} => Has(Needs(state))
        /\ \A h \in Busy :
            /\ pc[h] \in {"fetch", "look", "clear"} => Has(Needs(state))
            /\ pc[h] \in {"read", "write"} => Has(Needs(state) \ DOMAIN job[h].sets)
            /\ pc[h] \in {"read", "write"} /\ job[h].to # "stay" => Has(Needs(state))
            /\ pc[h] = "look" => Has(Needs("pc_pick"))
            /\ pc[h] = "move" => Has(Needs(job[h].to) \ DOMAIN job[h].then)
            /\ pc[h] = "move" /\ ~ Opens(job[h]) => Has(Needs(state))

(* Handlers that owe their update to an opened wizard or to an overlap,    *)
(* before their row is built and after.                                    *)
Carriers == {h \in Busy : pc[h] \notin {"wipe", "commit"}
                          /\ (job[h].from # "any" \/ Opens(job[h]))}
Creators == {h \in Busy : pc[h] \in {"wipe", "commit"} /\ Creates(job[h])}

RowsFit ==
    /\ made + Cardinality(Creators) + Cardinality(Carriers) <= opened + overlaps
    /\ state # "none" => made + Cardinality(Creators) + 1 <= opened + overlaps

(* The type and the payload of a button are given together. *)
TypeIs(d, t) == "btn_type" \in DOMAIN d /\ d.btn_type = t
PayloadIs(d, t) == "payload" \in DOMAIN d /\ d.payload = t
Drawable(d) == \E t \in ButtonTypes : TypeIs(d, t) /\ (t = "callback" \/ PayloadIs(d, t))

Agrees(s, d) ==
    /\ s = "mb_url" => TypeIs(d, "url")
    /\ s = "mb_username" => TypeIs(d, "external_chat")
    /\ s = "mb_prefilled" => TypeIs(d, "external_chat") /\ PayloadIs(d, "external_chat")
    /\ s = "mb_place" => Drawable(d)

ButtonsFit ==
    overlaps = 0 =>
        /\ Agrees(state, data)
        /\ \A b \in buttons : b.type # "callback" => b.payload = b.type
        /\ \A h \in Busy :
            /\ pc[h] = "move" => Agrees(job[h].to, data)
            /\ pc[h] = "move" /\ job[h].then # Nothing => TypeIs(data, "callback")
            /\ job[h].to = "stay" /\ job[h].sets # Nothing => TypeIs(data, "callback")
            /\ job[h].to = "stay" /\ job[h].sets # Nothing => state = "mb_place"
            /\ job[h].from = "mb_prefilled" /\ job[h].to = "mb_place" /\ pc[h] \in {"read", "write"} =>
                    PayloadIs(job[h].sets, "external_chat")
            /\ pc[h] \in {"clear", "wipe", "commit"} /\ job[h].adds = "button" => Drawable(snap[h])

IInv ==
    /\ TypeOK /\ JobsFit /\ GatesFit /\ OneAtATime
    /\ RequirementsAreCheckable /\ TierIsOfItsBot
    /\ PicksFit /\ DraftsFit /\ RowsFit /\ ButtonsFit
=============================================================================
