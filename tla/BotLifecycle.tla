---------------------------- MODULE BotLifecycle ----------------------------
(***************************************************************************)
(* The life of the child bots: the admin registers a bot by its token and  *)
(* switches it on and off (services/bot_orchestration_service.py), the web *)
(* process brings the active bots online when it starts                    *)
(* (bot/webhook_app.py), and a user's update finds its bot by the id in    *)
(* the webhook's path (bot/bot_manager.py, middlewares/bot_context.py).    *)
(*                                                                         *)
(* Three stores hold what must fit together: the bots rows, the webhook    *)
(* Telegram keeps for each bot, and two caches, of Bot objects in the      *)
(* process and of row ids in Redis.  The webhook is changed before the row *)
(* is committed, and nothing undoes it after a rollback.                   *)
(*                                                                         *)
(* Telegram keeps an update in its queue until it is answered with 200,    *)
(* and may deliver it again at any time: after a failure, while a first    *)
(* handler of it is at work, after its commit when the answer was lost.    *)
(* The throttle comes before everything else and answers 200 too.          *)
(*                                                                         *)
(* A bot at Telegram is an account.  The owner may revoke its token and    *)
(* get a new one: tokens are numbered, only the last is valid.  The        *)
(* database wants tokens and usernames (accounts) to be unique.            *)
(*                                                                         *)
(* Bounds: Ids, the ids the sequence of bots may give out; Calls, on the   *)
(* admin's and the users' handlers at work; MaxFaults, on failed calls and *)
(* handlers, crashes and revoked tokens together; Clients; and each user   *)
(* has one update under way at a time, its late handlers included.         *)
(***************************************************************************)
EXTENDS Naturals, FiniteSets

CONSTANTS
    Accounts,       \* bots at Telegram
    Clients,        \* those the users write to (bound)
    Users,
    Ids,            \* ids for bots rows (bound)
    Calls,          \* slots for running handlers (bound)
    MaxFaults,      \* see above (bound)
    NoAccount, NoId, Nobody

ASSUME ClientsAreAccounts == Clients \subseteq Accounts
ASSUME MaxFaultsIsANumber == MaxFaults \in Nat
ASSUME NamesAreFree ==
    NoAccount \notin Accounts /\ NoId \notin Ids /\ Nobody \notin Users

VARIABLES
    owner, token, active,   \* bots rows: account and number of the token by id
    issued,                 \* ids the sequence has given out
    current,                \* at Telegram: the valid token of each account
    webhook,                \* at Telegram: the id in each bot's webhook
    server, todo,           \* the web process; bots it has yet to start
    cached,                 \* BotManager: ids with a Bot object
    context,                \* Redis: botctx, the row id of each account
    hot,                    \* Redis: the throttle keys, by user and bot
    to, queue,              \* a user's last update: the bot it is for, and
                            \* whether Telegram still waits for its 200
    outcome,                \* what became of it (history)
    pc, who, key, id,       \* the handlers: account, token, row,
    whose,                  \* and the user whose update it handles
    drift, alone,           \* history: rows whose last toggle failed or
                            \* overlapped another; toggles that did not
    faults

rows == <<owner, token, active, issued>>
telegram == <<current, webhook>>
process == <<server, todo, cached>>
traffic == <<hot, to, queue, outcome>>
call == <<pc, who, key, id, whose>>
vars == <<rows, telegram, process, context, traffic, call, drift, alone, faults>>

-----------------------------------------------------------------------------
Registered(a) == \E i \in Ids : owner[i] = a

(* The row's token is the one Telegram accepts. *)
Valid(i) == owner[i] # NoAccount /\ token[i] = current[owner[i]]

Toggling(i) == {h \in Calls : pc[h] \in {"switch", "store"} /\ id[h] = i}

Fault == faults < MaxFaults /\ faults' = faults + 1

Goto(h, next) == pc' = [pc EXCEPT ![h] = next]

(* Handlers hs are over.  A toggle that may have changed the webhook and   *)
(* will not be committed leaves the row adrift.                            *)
Forget(hs) ==
    /\ pc' = [h \in Calls |-> IF h \in hs THEN "idle" ELSE pc[h]]
    /\ who' = [h \in Calls |-> IF h \in hs THEN NoAccount ELSE who[h]]
    /\ key' = [h \in Calls |-> IF h \in hs THEN 0 ELSE key[h]]
    /\ id' = [h \in Calls |-> IF h \in hs THEN NoId ELSE id[h]]
    /\ whose' = [h \in Calls |-> IF h \in hs THEN Nobody ELSE whose[h]]
    /\ alone' = alone \ hs

Cut(hs) == {id[h] : h \in {k \in hs : pc[k] = "store"}}

-----------------------------------------------------------------------------
(* register: the token is looked up, checked with get_me ...               *)
Register(h, a, t) ==
    /\ server = "up"
    /\ pc[h] = "idle"
    /\ Cardinality(issued) + Cardinality({k \in Calls : pc[k] \in {"get_me", "insert"}})
         < Cardinality(Ids)
    /\ ~ \E i \in Ids : owner[i] = a /\ token[i] = t
    /\ Goto(h, "get_me")
    /\ who' = [who EXCEPT ![h] = a]
    /\ key' = [key EXCEPT ![h] = t]
    /\ UNCHANGED <<rows, telegram, process, context, traffic, id, whose, drift, alone, faults>>

GetMe(h) ==
    /\ pc[h] = "get_me"
    /\ key[h] = current[who[h]]
    /\ Goto(h, "insert")
    /\ UNCHANGED <<rows, telegram, process, context, traffic, who, key, id, whose, drift, alone,
                   faults>>

(* Mutants of Insert: an id that was rolled back is given out again; a     *)
(* bot that is registered can be registered once more.                     *)
InsertReusingIds(h) ==
    /\ pc[h] = "insert"
    /\ ~ Registered(who[h])
    /\ ~ \E k \in Calls : pc[k] \in {"hook", "commit"} /\ who[k] = who[h]
    /\ \E i \in {j \in Ids : owner[j] = NoAccount /\ \A k \in Calls : id[k] # j} :
        /\ issued' = issued \cup {i}
        /\ id' = [id EXCEPT ![h] = i]
    /\ Goto(h, "hook")
    /\ UNCHANGED <<owner, token, active, telegram, process, context, traffic, who, key, whose,
                   drift, alone, faults>>

InsertTwice(h) ==
    /\ pc[h] = "insert"
    /\ \E i \in Ids \ issued :
        /\ issued' = issued \cup {i}
        /\ id' = [id EXCEPT ![h] = i]
    /\ Goto(h, "hook")
    /\ UNCHANGED <<owner, token, active, telegram, process, context, traffic, who, key, whose,
                   drift, alone, faults>>

(* ... the row is inserted; a row of the same bot that is not committed    *)
(* yet makes the insert wait, one that is fails it ...                     *)
Insert(h) ==
    /\ pc[h] = "insert"
    /\ ~ Registered(who[h])
    /\ ~ \E k \in Calls : pc[k] \in {"hook", "commit"} /\ who[k] = who[h]
    /\ \E i \in Ids \ issued :
        /\ issued' = issued \cup {i}
        /\ id' = [id EXCEPT ![h] = i]
    /\ Goto(h, "hook")
    /\ UNCHANGED <<owner, token, active, telegram, process, context, traffic, who, key, whose,
                   drift, alone, faults>>

(* ... the webhook is set ...                                              *)
SetWebhook(h) ==
    /\ pc[h] = "hook"
    /\ key[h] = current[who[h]]
    /\ webhook' = [webhook EXCEPT ![who[h]] = id[h]]
    /\ Goto(h, "commit")
    /\ UNCHANGED <<rows, current, process, context, traffic, who, key, id, whose, drift, alone,
                   faults>>

(* ... and the middleware commits.                                         *)
CommitBot(h) ==
    /\ pc[h] = "commit"
    /\ owner' = [owner EXCEPT ![id[h]] = who[h]]
    /\ token' = [token EXCEPT ![id[h]] = key[h]]
    /\ active' = active \cup {id[h]}
    /\ Forget({h})
    /\ UNCHANGED <<issued, telegram, process, context, traffic, drift, faults>>

(* Telegram does not know the token (any more): the one failure that is    *)
(* caught, as a BotRegistrationError, and told to the admin.               *)
GetMeFails(h) ==
    /\ pc[h] = "get_me"
    /\ key[h] # current[who[h]]
    /\ Forget({h})
    /\ UNCHANGED <<rows, telegram, process, context, traffic, drift, faults>>

(* The bot is in the database with another token (the username is unique), *)
(* or the token was revoked since get_me.  Nobody catches these errors:    *)
(* rolled back, a 500, and the admin's update comes again.                 *)
RegisterRaises(h) ==
    /\ \/ pc[h] = "insert" /\ Registered(who[h])
       \/ pc[h] = "hook" /\ key[h] # current[who[h]]
    /\ Forget({h})
    /\ UNCHANGED <<rows, telegram, process, context, traffic, drift, faults>>

-----------------------------------------------------------------------------
(* toggle_active: the row is read, from a keyboard of any age ...          *)
Toggle(h, i) ==
    /\ server = "up"
    /\ pc[h] = "idle"
    /\ owner[i] # NoAccount
    /\ Goto(h, "switch")
    /\ id' = [id EXCEPT ![h] = i]
    /\ key' = [key EXCEPT ![h] = IF i \in active THEN 0 ELSE 1]
    /\ IF Toggling(i) = {}
       THEN alone' = alone \cup {h} /\ UNCHANGED drift
       ELSE alone' = alone \ Toggling(i) /\ drift' = drift \cup {i}
    /\ UNCHANGED <<rows, telegram, process, context, traffic, who, whose, faults>>

(* Mutant of Switch: an error of Telegram's is ignored.                    *)
SwitchAnyway(h) ==
    /\ pc[h] = "switch"
    /\ webhook' = [webhook EXCEPT ![owner[id[h]]] =
                     IF ~ Valid(id[h]) THEN @ ELSE IF key[h] = 1 THEN id[h] ELSE NoId]
    /\ Goto(h, "store")
    /\ UNCHANGED <<rows, current, process, context, traffic, who, key, id, whose, drift, alone,
                   faults>>

(* ... the webhook is set or deleted ...                                   *)
Switch(h) ==
    /\ pc[h] = "switch"
    /\ Valid(id[h])
    /\ webhook' = [webhook EXCEPT ![owner[id[h]]] = IF key[h] = 1 THEN id[h] ELSE NoId]
    /\ Goto(h, "store")
    /\ UNCHANGED <<rows, current, process, context, traffic, who, key, id, whose, drift, alone,
                   faults>>

(* ... and the row is flushed and committed.                               *)
Store(h) ==
    /\ pc[h] = "store"
    /\ active' = IF key[h] = 1 THEN active \cup {id[h]} ELSE active \ {id[h]}
    /\ drift' = IF h \in alone THEN drift \ {id[h]} ELSE drift
    /\ Forget({h})
    /\ UNCHANGED <<owner, token, issued, telegram, process, context, traffic, faults>>

(* Telegram refuses the call: the token is revoked. *)
SwitchFails(h) ==
    /\ pc[h] = "switch"
    /\ ~ Valid(id[h])
    /\ Forget({h})
    /\ UNCHANGED <<rows, telegram, process, context, traffic, drift, faults>>

(* A call to Telegram, the database or the handler fails: rolled back.  An *)
(* update it was for stays in Telegram's queue.                            *)
HandlerFails(h) ==
    /\ pc[h] # "idle"
    /\ Fault
    /\ drift' = drift \cup Cut({h})
    /\ Forget({h})
    /\ UNCHANGED <<rows, telegram, process, context, traffic>>

-----------------------------------------------------------------------------
(* The web process. *)

Crash ==
    /\ server # "down"
    /\ Fault
    /\ server' = "down" /\ todo' = {} /\ cached' = {}
    /\ drift' = drift \cup Cut(Calls)
    /\ Forget(Calls)
    /\ UNCHANGED <<rows, telegram, context, traffic>>

(* on_startup: the active bots are listed, and for each ... *)
Start ==
    /\ server = "down"
    /\ server' = "starting"
    /\ todo' = active
    /\ UNCHANGED <<rows, telegram, cached, context, traffic, call, drift, alone, faults>>

(* Mutant of StartBot: the loop does not advance.                          *)
StartBotAgain(i) ==
    /\ server = "starting"
    /\ i \in todo
    /\ Valid(i)
    /\ cached' = cached \cup {i}
    /\ webhook' = [webhook EXCEPT ![owner[i]] = i]
    /\ UNCHANGED <<rows, current, server, todo, context, traffic, call, drift, alone, faults>>

(* ... the webhook is set again.                                           *)
StartBot(i) ==
    /\ server = "starting"
    /\ i \in todo
    /\ Valid(i)
    /\ todo' = todo \ {i}
    /\ cached' = cached \cup {i}
    /\ webhook' = [webhook EXCEPT ![owner[i]] = i]
    /\ UNCHANGED <<rows, current, server, context, traffic, call, drift, alone, faults>>

(* Mutant of StartupFails: a bot that cannot be started is skipped.        *)
StartupSkips ==
    /\ server = "starting"
    /\ \E i \in todo : ~ Valid(i) /\ todo' = todo \ {i}
    /\ UNCHANGED <<rows, telegram, server, cached, context, traffic, call, drift, alone, faults>>

(* Nobody catches the error of one bot: the process ends, and is started   *)
(* again (restart: unless-stopped).                                        *)
StartupFails ==
    /\ server = "starting"
    /\ \E i \in todo : ~ Valid(i)
    /\ server' = "down" /\ todo' = {} /\ cached' = {}
    /\ UNCHANGED <<rows, telegram, context, traffic, call, drift, alone, faults>>

Serve ==
    /\ server = "starting"
    /\ todo = {}
    /\ server' = "up"
    /\ drift' = drift \ active
    /\ UNCHANGED <<rows, telegram, todo, cached, context, traffic, call, alone, faults>>

-----------------------------------------------------------------------------
(* Telegram and its users. *)

(* The owner of a bot revokes its token; whether the webhook survives is   *)
(* Telegram's affair.                                                      *)
Revoke(a) ==
    /\ Fault
    /\ current' = [current EXCEPT ![a] = @ + 1]
    /\ webhook' \in {webhook, [webhook EXCEPT ![a] = NoId]}
    /\ UNCHANGED <<rows, process, context, traffic, call, drift, alone>>

(* Only what nothing else has become of it yet, or that it was handled.    *)
Becomes(u, what) ==
    outcome' = [outcome EXCEPT ![u] = IF what = "handled" \/ @ = "none" THEN what ELSE @]

SendUpdate(u, a) ==
    /\ u \notin queue
    /\ \A h \in Calls : whose[h] # u
    /\ to' = [to EXCEPT ![u] = a]
    /\ queue' = queue \cup {u}
    /\ outcome' = [outcome EXCEPT ![u] = "none"]
    /\ UNCHANGED <<rows, telegram, process, context, hot, call, drift, alone, faults>>

(* Telegram delivers an update again and again, but not for ever. *)
GiveUp(u) ==
    /\ u \in queue
    /\ queue' = queue \ {u}
    /\ Becomes(u, "abandoned")
    /\ UNCHANGED <<rows, telegram, process, context, hot, to, call, drift, alone, faults>>

(* Mutants of Reaches: an object is made without a look at the row; none   *)
(* is made after the start.                                                *)
ReachesAny(u, i) ==
    /\ server = "up"
    /\ u \in queue
    /\ i = webhook[to[u]] /\ i # NoId
    /\ cached' = cached \cup {i}

ReachesStarted(u, i) ==
    /\ server = "up"
    /\ u \in queue
    /\ i = webhook[to[u]]
    /\ i \in cached
    /\ UNCHANGED cached

(* POST /webhook/{id}: bot_manager.get.  A Bot object in the cache is      *)
(* taken whatever the row says; without one, an inactive or unknown bot is *)
(* answered with 404, and the update stays in Telegram's queue.            *)
Reaches(u, i) ==
    /\ server = "up"
    /\ u \in queue
    /\ i = webhook[to[u]]
    /\ i \in cached \cup active
    /\ cached' = cached \cup {i}

(* ThrottlingMiddleware: the update leaves its key and goes on ...         *)
Deliver(h, u) ==
    /\ pc[h] = "idle"
    /\ \E i \in Ids :
        /\ Reaches(u, i)
        /\ <<u, owner[i]>> \notin hot
        /\ hot' = hot \cup {<<u, owner[i]>>}
        /\ id' = [id EXCEPT ![h] = i]
    /\ Goto(h, "context")
    /\ whose' = [whose EXCEPT ![h] = u]
    /\ UNCHANGED <<rows, telegram, server, todo, context, to, queue, outcome, who, key, drift,
                   alone, faults>>

(* ... or finds a key there, its own of a delivery before this one or that *)
(* of an earlier update, and is answered and dropped.                      *)
Throttled(u) ==
    /\ \E i \in Ids : Reaches(u, i) /\ <<u, owner[i]>> \in hot
    /\ queue' = queue \ {u}
    /\ Becomes(u, "dropped")
    /\ UNCHANGED <<rows, telegram, server, todo, context, hot, to, call, drift, alone, faults>>

(* The key expires 0.4 s after it was set. *)
Cool(u, a) ==
    /\ <<u, a>> \in hot
    /\ hot' = hot \ {<<u, a>>}
    /\ UNCHANGED <<rows, telegram, process, context, to, queue, outcome, call, drift, alone,
                   faults>>

(* BotContextMiddleware: the row by the id in Redis, or by the token of    *)
(* the Bot object, which is its own row: a row is never deleted and keeps  *)
(* its token.                                                              *)
Row(h) == IF context[owner[id[h]]] = NoId THEN id[h] ELSE context[owner[id[h]]]

Resolve(h) ==
    /\ pc[h] = "context"
    /\ context' = [context EXCEPT ![owner[id[h]]] = Row(h)]
    /\ UNCHANGED <<rows, telegram, process, hot, to, queue, who, key, id, whose, drift, alone,
                   faults>>

(* Mutant of Admit: the id in Redis is taken for an active bot.            *)
AdmitCached(h) ==
    /\ Resolve(h)
    /\ Row(h) \in active \/ context[owner[id[h]]] # NoId
    /\ Goto(h, "handler")
    /\ UNCHANGED outcome

(* An active bot's handler is called; its calls to Telegram fail if the    *)
(* token is revoked, and it may catch that.                                *)
Admit(h) ==
    /\ Resolve(h)
    /\ Row(h) \in active
    /\ Goto(h, "handler")
    /\ UNCHANGED outcome

(* An inactive bot's is not, and the update is answered.                   *)
Refuse(h) ==
    /\ Resolve(h)
    /\ Row(h) \notin active
    /\ Goto(h, "answer")
    /\ Becomes(whose[h], "dropped")

(* The handler returns and the middleware commits. *)
Handle(h) ==
    /\ pc[h] = "handler"
    /\ Goto(h, "answer")
    /\ Becomes(whose[h], "handled")
    /\ UNCHANGED <<rows, telegram, process, context, hot, to, queue, who, key, id, whose,
                   drift, alone, faults>>

(* The 200 ends the deliveries, unless it is lost. *)
Answer(h) ==
    /\ pc[h] = "answer"
    /\ queue' \in {queue, queue \ {whose[h]}}
    /\ Forget({h})
    /\ UNCHANGED <<rows, telegram, process, context, hot, to, outcome, drift, faults>>

(* me() or the handler raises, because the token is revoked: answered with *)
(* 500, and the update stays in Telegram's queue.                          *)
DeliveryFails(h) ==
    /\ pc[h] \in {"context", "handler"}
    /\ ~ Valid(id[h])
    /\ Forget({h})
    /\ UNCHANGED <<rows, telegram, process, context, traffic, drift, faults>>

(* _CONFIG_CACHE_TTL *)
Expire(a) ==
    /\ context[a] # NoId
    /\ context' = [context EXCEPT ![a] = NoId]
    /\ UNCHANGED <<rows, telegram, process, traffic, call, drift, alone, faults>>

-----------------------------------------------------------------------------
Rows == {i \in Ids : owner[i] # NoAccount}

(* A deployment with any bots registered before, on or off.                *)
Init ==
    /\ owner \in [Ids -> Accounts \cup {NoAccount}]
    /\ \A i, j \in Rows : owner[i] = owner[j] => i = j
    /\ token = [i \in Ids |-> IF i \in Rows THEN 1 ELSE 0]
    /\ active \in SUBSET Rows /\ issued = Rows
    /\ current = [a \in Accounts |-> 1]
    /\ webhook \in [Accounts -> active \cup {NoId}]
    /\ \A a \in Accounts : webhook[a] # NoId => owner[webhook[a]] = a
    /\ \A i \in active : webhook[owner[i]] = i
    /\ server = "down" /\ todo = {} /\ cached = {}
    /\ context = [a \in Accounts |-> NoId]
    /\ hot = {} /\ to = [u \in Users |-> NoAccount]
    /\ queue = {} /\ outcome = [u \in Users |-> "none"]
    /\ pc = [h \in Calls |-> "idle"] /\ who = [h \in Calls |-> NoAccount]
    /\ key = [h \in Calls |-> 0] /\ id = [h \in Calls |-> NoId]
    /\ whose = [h \in Calls |-> Nobody]
    /\ drift = {} /\ alone = {}
    /\ faults = 0

GoOn(h) ==
    \/ GetMe(h) \/ GetMeFails(h) \/ Insert(h) \/ SetWebhook(h) \/ CommitBot(h)
    \/ RegisterRaises(h) \/ Switch(h) \/ Store(h) \/ SwitchFails(h)

Respond(h) == Admit(h) \/ Refuse(h) \/ Handle(h) \/ Answer(h) \/ DeliveryFails(h)

Admin(h) ==
    \/ \E a \in Accounts : \E t \in 1 .. current[a] : Register(h, a, t)
    \/ \E i \in Ids : Toggle(h, i)

Boot == Start \/ (\E i \in Ids : StartBot(i)) \/ StartupFails \/ Serve

Traffic(u) ==
    \/ \E a \in Clients : SendUpdate(u, a)
    \/ \E a \in Accounts : Cool(u, a)
    \/ GiveUp(u) \/ Throttled(u)
    \/ \E h \in Calls : Deliver(h, u)

Next ==
    \/ \E h \in Calls : Admin(h) \/ GoOn(h) \/ Respond(h) \/ HandlerFails(h)
    \/ Boot \/ Crash
    \/ \E a \in Accounts : Revoke(a) \/ Expire(a)
    \/ \E u \in Users : Traffic(u)

Spec == Init /\ [][Next]_vars

(* Docker starts the process again; asyncio runs every handler on;         *)
(* throttle keys expire; Telegram delivers again what was not acknowledged *)
(* when there is room for a handler.  The users, the owners of tokens and  *)
(* the other caches' expiry owe nothing, and Telegram need not give up.    *)
Fairness ==
    /\ WF_vars(Boot)
    /\ \A h \in Calls : WF_vars(GoOn(h) \/ Respond(h))
    /\ \A u \in Users :
        /\ \A a \in Clients : WF_vars(Cool(u, a))
        /\ SF_vars(\E h \in Calls : Deliver(h, u))

FairSpec == Spec /\ Fairness

-----------------------------------------------------------------------------
(* Properties. *)

TypeOK ==
    /\ owner \in [Ids -> Accounts \cup {NoAccount}] /\ token \in [Ids -> Nat]
    /\ active \subseteq Rows /\ Rows \subseteq issued /\ issued \subseteq Ids
    /\ current \in [Accounts -> Nat] /\ webhook \in [Accounts -> issued \cup {NoId}]
    /\ server \in {"down", "starting", "up"}
    /\ todo \subseteq active /\ (server # "starting" => todo = {})
    /\ cached \subseteq Rows /\ (server = "down" => cached = {})
    /\ context \in [Accounts -> Rows \cup {NoId}]
    /\ hot \subseteq Users \X Accounts /\ to \in [Users -> Accounts \cup {NoAccount}]
    /\ queue \subseteq Users /\ \A u \in queue : to[u] \in Accounts
    /\ outcome \in [Users -> {"none", "handled", "dropped", "abandoned"}]
    /\ pc \in [Calls -> {"idle", "get_me", "insert", "hook", "commit", "switch", "store",
                         "context", "handler", "answer"}]
    /\ who \in [Calls -> Accounts \cup {NoAccount}] /\ key \in [Calls -> Nat]
    /\ id \in [Calls -> issued \cup {NoId}] /\ whose \in [Calls -> Users \cup {Nobody}]
    /\ drift \subseteq Rows /\ alone \subseteq Calls
    /\ faults \in 0 .. MaxFaults

Serving(h) == pc[h] \in {"context", "handler", "answer"}

(* An update finds the bot it was sent to: there is one row per bot, a     *)
(* webhook names an id that is this bot's or nobody's, the latter also in  *)
(* the future, and so do the caches.  Registrations that overlap or fail   *)
(* after set_webhook cannot make Telegram deliver to another bot           *)
(* (bot_orchestration_service.py 46-58, bot_context.py 45-54).             *)
WebhookLeadsHome ==
    /\ \A i, j \in Rows : owner[i] = owner[j] => i = j
    /\ \A a \in Accounts :
        /\ webhook[a] \in Rows => owner[webhook[a]] = a
        /\ context[a] # NoId => owner[context[a]] = a
    /\ \A h \in Calls : Serving(h) => owner[id[h]] = to[whose[h]]

(* A bot is on in the database exactly when Telegram has its webhook,      *)
(* unless it is being toggled, its last toggle failed after the call or    *)
(* overlapped another, or its token is revoked.  One undisturbed toggle    *)
(* repairs it, and for a bot that is on the next start does                *)
(* (webhook_app.py 102-103: "guards against drift").                       *)
AgreeAtRest ==
    \A i \in Rows : Toggling(i) = {} /\ i \notin drift /\ Valid(i)
        => (i \in active <=> webhook[owner[i]] = i)

(* The inductive invariant.  What the handlers have in hand, and that no   *)
(* update is about to be answered of which nothing has become:             *)
HandlersFit ==
    /\ server # "up" => \A h \in Calls : pc[h] = "idle"
    /\ \A u \in queue : outcome[u] # "abandoned"
    /\ \A h \in Calls :
        /\ pc[h] = "idle" => id[h] = NoId
        /\ Serving(h) => id[h] \in cached /\ whose[h] \in Users
        /\ pc[h] = "answer" => outcome[whose[h]] # "none"
        /\ pc[h] \in {"get_me", "insert", "hook", "commit"} =>
                who[h] \in Accounts /\ key[h] <= current[who[h]]
        /\ pc[h] \in {"hook", "commit"} =>
                id[h] \in issued \ Rows /\ ~ Registered(who[h])
        /\ pc[h] \in {"switch", "store"} => id[h] \in Rows
        /\ pc[h] = "commit" /\ key[h] = current[who[h]] => webhook[who[h]] = id[h]
    /\ \A i \in Rows : token[i] <= current[owner[i]]

(* Registrations do not meet: neither their accounts nor their ids, nor    *)
(* the id in another bot's webhook.                                        *)
Inserting == {h \in Calls : pc[h] \in {"hook", "commit"}}

RegistrationsApart ==
    /\ \A h, k \in Inserting : h # k => who[h] # who[k] /\ id[h] # id[k]
    /\ \A h \in Inserting, a \in Accounts : webhook[a] = id[h] => a = who[h]

(* A toggle that met no other has its row to itself, and what it told      *)
(* Telegram is what it will store; one that met another left drift.        *)
TogglesFit ==
    /\ \A h \in alone : pc[h] \in {"switch", "store"} /\ Toggling(id[h]) = {h}
    /\ \A h \in Calls : pc[h] \in {"switch", "store"} /\ h \notin alone => id[h] \in drift
    /\ \A h \in alone : pc[h] = "store" /\ Valid(id[h])
            => (key[h] = 1 <=> webhook[owner[id[h]]] = id[h])

(* Rows agree with Telegram up to the toggle's call.                       *)
Agree ==
    /\ \A i \in Rows \ drift :
        Valid(i) /\ (\A h \in Toggling(i) : pc[h] = "switch")
            => (i \in active <=> webhook[owner[i]] = i)
    /\ server = "starting" =>
        \A i \in active \ todo : Valid(i) => webhook[owner[i]] = i

IInv == TypeOK /\ WebhookLeadsHome /\ HandlersFit /\ RegistrationsApart /\ TogglesFit /\ Agree

(* One bot with a revoked token takes all bots down for good: once the     *)
(* process has stopped while such a bot is on, on_startup fails every      *)
(* time, and without the panel the bot cannot be switched off.             *)
Doomed ==
    /\ server # "up"
    /\ \E i \in active : ~ Valid(i) /\ (server = "starting" => i \in todo)

OutageIsFinal == [][Doomed => Doomed']_vars

(* The panel cannot switch such a bot off either: from the moment its      *)
(* token is revoked it stays on for good, through toggles from any         *)
(* keyboard, overlapping ones, rollbacks and restarts, unless a toggle had *)
(* told Telegram before (bot_orchestration_service.py 66-67).              *)
Stuck(i) ==
    i \in active /\ ~ Valid(i) /\ \A h \in Toggling(i) : pc[h] = "switch"

StuckForGood == [][\A i \in Ids : Stuck(i) => Stuck(i)']_vars

Promise == INSTANCE Directory
    WITH recent <- hot,
         work <- {u \in Users : \E h \in Calls : pc[h] = "handler" /\ whose[h] = u}

(* Tokens, webhooks, caches, restarts, failures, lost answers and repeated *)
(* deliveries in between change nothing about this: a bot has one row for  *)
(* ever, an update is handled, perhaps more than once, only by its own     *)
(* bot's row that was on when its handler was called, and it leaves        *)
(* Telegram's queue only handled, dropped by the throttle or because the   *)
(* bot was off, or given up.                                               *)
ImplementsDirectory == Promise!Spec

(* Otherwise the process comes back from every crash.                      *)
ComesBack == <>[](\A i \in active : Valid(i)) => []<>(server = "up")

(* A user's update to a bot that stays on does not wait for ever, whatever *)
(* was toggled, registered or restarted before: it is handled, unless the  *)
(* throttle or the bot that was off dropped it or Telegram gave it up.     *)
Settled(a) ==
    \E i \in active : owner[i] = a /\ Valid(i) /\ i \notin drift /\ Toggling(i) = {}

UpdateIsAnswered ==
    \A u \in Users :
        <>[](Settled(to[u]) /\ \A i \in active : Valid(i))
            => (u \in queue ~> outcome[u] # "none")
=============================================================================
