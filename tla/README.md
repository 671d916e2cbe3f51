# Verification of the multi-bot content platform

TLA+ models of the parts of this repository whose correctness depends on the
order of things: concurrent handlers, a job queue, a cache with a TTL, row
locks, rollbacks and Telegram's repeated deliveries. TLC checks the models on
small instances; TLAPS proves the main invariants for every value of the
constants. Paths below are relative to the repository root, line numbers are
those of the commit this was written against.

Three files of that commit (`app/bot/webhook_app.py`, `app/core/logging.py`,
`app/repositories/broadcast_repository.py`) contain unresolved merge-conflict
markers and do not parse. The HEAD side is modelled. SQLAlchemy's Enum columns
persist member *names* while migration 0001 creates lower-case values; the
models assume a schema that accepts what the ORM writes.

## 1. Inventory

One web process (aiohttp + aiogram 3.15, every update a coroutine), one worker
process (arq, up to `max_jobs` = 10 coroutines), PostgreSQL (READ COMMITTED),
Redis (FSM state, cache, throttle keys, captcha answers, arq's queue).
Telegram is the environment.

| Part | State | Operations | Hard behaviour |
|---|---|---|---|
| Broadcast campaigns (`handlers/admin/broadcast.py`, `bot/tasks.py`, `bot/worker_settings.py`, `services/broadcast_service.py`, `repositories/broadcast_repository.py`) | `broadcasts`, `broadcast_jobs`, `users.is_blocked_bot`, arq queue | `_finalize_broadcast`, `_enqueue`, `send_broadcast_task`, `send_now`, `sweep_scheduled_broadcasts`, `list_due`, `list_pending` | job visible before the commit that creates its row; duplicate jobs from the sweep; one commit for a whole audience; row lock held for minutes; 429; worker restarts |
| Private-channel gate (`handlers/user/join_request.py`, `handlers/user/private_channels.py`, `services/private_channel_service.py`) | `join_events`, `channel_requirements`, join requests held by Telegram | `on_chat_join_request`, `handle_join_request`, `check_access`, button | membership changes between the awaits; the same update handled twice; approval at Telegram before the commit |
| Subscription cache (`services/subscription_service.py`) | `sub:{chat}:{user}` in Redis, TTL 30 s | `is_subscribed`, `check_all` | concurrent fills, late store of an old answer, API error taken for "no" |
| Throttle, unit of work (`middlewares/throttling.py`, `middlewares/db_session.py`) | `throttle:{bot}:{user}`, one transaction per update | set-if-absent with expiry, commit or rollback | a dropped update is answered 200 and never comes back; a failed one is answered 500 and comes back |
| Captcha (`handlers/user/start.py`, `handlers/user/captcha.py`, `services/captcha_service.py`, `handlers/admin/captcha.py`) | `captcha:{bot}:{user}` in Redis (TTL 600 s), `users.captcha_passed`, bot configuration | `cmd_start`, `send_captcha`, `on_captcha_answer`, admin edits | second card overwrites the first; card deleted before the commit |
| Admin wizards (`handlers/admin/*.py`) | FSM state and data in Redis; `channels`, `private_channels`, `channel_requirements`, `menu_buttons` | one handler per step, deletions, requirement toggle | keyboards outlive the state; wizards abandoned half-way; `update_data` and `clear` are two awaits each, without isolation; double taps |
| Bot lifecycle (`services/bot_orchestration_service.py`, `bot/bot_manager.py`, `bot/webhook_app.py`, `middlewares/bot_context.py`) | `bots`, webhooks at Telegram, Bot cache in the process | register, toggle, startup, webhook routing | webhook call before the commit; two toggles at once; cache never invalidated; one revoked token at startup |
| Users, repositories | rows | `get_or_create` and queries | two first updates race to insert |
| Keyboards, statistics, configuration, logging, migrations | none of their own | pure functions, reads | division of counts that need not be ordered |

How they interact: Telegram posts an update to the webhook; the dispatcher runs
throttle, then the unit of work, then the bot context, then one handler. An
exception propagates, the transaction is rolled back, the answer is 500 and
Telegram posts the update again; everything else is answered 200. The admin's
handlers write the configuration that the user handlers read in transactions of
their own, and put jobs into arq's queue, which the worker takes from Redis and
reads back through PostgreSQL. `PROJECT.json` lists every hazard of these parts
at its line.

What makes each part correct: a campaign reaches each recipient, once, and its rows
say what happened; the gate admits only users who are in the required channels,
decides every request and records each decision; the captcha is passed only by a
right answer and locks nobody out; a wizard's draft is complete and its own, and
creates one row; a menu button can be drawn; a gate requires only what it can check;
an update is handled by the row of the bot it was sent to, and is not lost without a
reason; a bot's webhook and `is_active` agree. Five abstract modules say this of a
part as a whole, without the awaits, caches, transactions and failures of the code.

## 2. Modules

    Campaign        what a campaign promises            (abstract)
      ^ implemented by
    Broadcast       wizard's last handler, queue, sweep, worker, database
      MCBroadcast, BroadcastProofs
    Gate            what a private channel's gate promises   (abstract)
      ^ implemented by
    JoinGate        cache, gate, handlers, throttle, redelivery
      MCJoinGate, JoinGateProofs, JoinGateRefinement
    Challenge       what the captcha promises   (abstract)
      ^ implemented by
    Captcha         cards, expected answer, handlers, admin's edits
      MCCaptcha, CaptchaProofs
    Catalogue       what the admin panel promises of channels and tiers   (abstract)
      ^ implemented by
    AdminWizard     the admin's FSM, keyboards, and the rows wizards create
      MCAdminWizard, AdminWizardProofs
    Directory       what the platform promises of its bots   (abstract)
      ^ implemented by
    BotLifecycle    bots rows, webhooks, caches, start and stop of the process
      MCBotLifecycle, BotLifecycleProofs

### Broadcast

Composes the web handler, arq's queue, the cron sweep, up to `Tasks` concurrent
jobs, PostgreSQL and Telegram.

* `status`, `jobs`, `blocked` are the **committed** rows. What a transaction has
  written and not committed is in `stage`, `audience` (handler) and `out`
  (task). A task sees the committed PENDING rows minus its own decisions
  (`ListPending`).
* `Finalize`, `EnqueueNow`, `CommitFinalize` are three steps because
  `_finalize_broadcast` enqueues between its flush and the middleware's commit.
  `FailFinalize` rolls back and leaves the job in Redis.
* `SweepList` reads, `SweepEnqueue` enqueues one job per step: other processes
  run in between and the list goes stale.
* `TaskStarts` loads the row, `Claim` is the UPDATE to SENDING, which waits for
  the row's lock. SENDING is never committed, so every task's UPDATE is a real
  write and the lock orders the tasks of one campaign. `FetchBatch`, the four
  outcomes of a send, `FinishTask` (the only commit), `TaskFails` (rollback, no
  retry by arq), `WaitTimesOut` (arq's `job_timeout` while waiting for the lock),
  `WorkerCrash` (all open transactions roll back, arq runs the jobs again up to
  `MaxTries`).

`send_broadcast_task` does not look at `is_active`; the model has no such test
either. Content, formatting and the two seconds of a 429 are abstracted.

### Campaign

What readers of the rows may rely on: a campaign is published with all its
recipients PENDING, closed by one atomic step, sends nothing before or after,
and marks SENT only what arrived. `Broadcast!Abstract` instantiates it with
`reached` = the recipients with at least one delivery.

### Gate

Desks that take one open join request each, with one reading of the required
channels, and decide it in one step: admit, if every required channel that can be
verified had the person inside less than `Patience` ago; refuse, if there is any to
verify; or give up. The decision goes on record later, or the desk is left and
nothing does. There is no cache, delivery, throttle or await. `JoinGate!Promise`
instantiates it with a desk per handler, `open` = the requests Telegram holds, and
`Patience` = `TTL + 2 * Lifetime`. The verdict "unresolved" is a call whose answer was
lost: the decision may have happened.

### JoinGate

One private channel of an active bot, its requirements, and the handlers that
run concurrently in the web process.

* A handler's awaits are its steps: `Start` (throttle, loading the private
  channel with its requirements), `CacheHit` or `CacheMiss`, `GetChatMember`,
  `StoreAnswer` per channel, then `Approve`, `Decline` or `ResolveFails`, then
  `Commit`. `PressButton` starts the same check without a decision; it matters
  because it fills the cache.
* `Subscribe`, `Unsubscribe`, `TapLink`, `ToggleRequirement`, `Tick`, `Cool` may
  happen between any two of them.
* `inbox` holds the join-request updates Telegram has not had a 200 for.
  `Deliver` leaves the update there, so that it may be delivered again while the
  first handler is at work or after it failed (`HandlerFails`).
* `ResolveFails` covers both a refused call and one whose answer was lost after
  Telegram acted on it.
* Time is kept as ages (`left` of a cache entry, `age` of a handler, `gone` of an
  absence), so it needs no bound and the proofs range over all TTLs.
* `excused` is a history variable: the requests the code gives up by itself,
  because the throttle dropped their update or Telegram refused the decision.

Left out: chats that map to no private channel (declined at once), deletion of
a private channel, the analytics rows and the best-effort copy in
`user_subscriptions`, which nothing reads.

### Challenge

At most one open question per user; its answer was once the correct emoji. A known
user who names it while it is open has solved it and may be recorded to have passed,
or lose it again. `Captcha!Promise` maps `solved` to the users and taps of the
handlers past `Verify`; cards, deliveries and awaits are invisible.

### Captcha

The captcha of one child bot. `emojis`, `correct`, `known`, `passed` are
committed rows; `answer` (Redis), `shown` (the cards in the chat), `wizard` and
`pickers` (the admin's FSM state and keyboards) take part in no transaction, so
`RolledBack` leaves them as the failed handler made them.

* `/start` is `CmdStart` (configuration and user row are read), `Arm`
  (`redis.set`), `Show`, `Commit`. A tap is `OnCaptchaAnswer`, `Verify`
  (`redis.get`), then `DeleteCard` and `CommitPassed`, or `Arm`, `Refresh` and
  `Commit`. The welcome message between deletion and commit has no state; its
  failure is `HandlerFails`.
* `TelegramRefuses`: an edit that changes nothing (the shuffle may repeat the
  order) or a card that is gone. The handler fails and the tap is delivered
  again, until Telegram gives it up or the throttle drops it (`Discard`).
* `ReceiveEmojis` and `SetCorrect` are the admin's edits, one at a time.
  `SetCorrect` accepts any keyboard still in the chat. A tap that finds no user
  row (its `/start` was rolled back) is `SessionExpired`.

Left out: caption and photo, and `captcha_attempts`, which nothing reads. The
user may tap while handlers of earlier taps run; a card's number is used again
only when no handler works on it.

### Catalogue

Channels, tiers and requirements as the admin means them: one step per tap that
had its effect. A channel keeps its bot and type, an id is never given out again, a
tier wraps a private channel without one, a requirement is an ungated channel of the
tier's own bot, and deletions cascade at once. `AdminWizard!Promise` maps every
variable to the one of the same name.

### AdminWizard

The one admin chat: its FSM in Redis (`state`, `data`), the rows of channels,
tiers (private channels), requirements and menu buttons, and the keyboards that
stay in the chat (`offered`; every wizard can be opened at any time).

* A handler that only moves the FSM is data: the record `Step(from, reads, sets,
  to, then)` names the state it is filtered by, the keys it takes with
  `data[...]`, what `update_data` writes, the state it sets, and what is written
  after that (`menu_buttons.py:131`). `Last(from, reads, row)` is a wizard's last
  handler. `BroadcastSteps`, `ChannelSteps`, `TierSteps`, `MenuSteps`,
  `RegisterSteps`, `FinishEdit` and `Openings` are the tables; `Arrive` starts
  any of them whose state fits when the update arrives, which is the only time
  aiogram looks.
* The awaits of a handler are its steps: `Fetch` (`get_data`), `Read` and `Write`
  (`update_data`), `Move` (`set_state`), `Clear` and `Wipe` (`clear`), then
  `Commit` by the middleware, or `CommitFails` (a constraint), `FetchFails`
  (KeyError, AttributeError), `Refuse` (told no, nothing changed) or `Abort` (an
  exception or a kill at any await). `Look` and `OfferChannels` are the lookup
  of `pc_add_title`.
* `DeleteChannel`, `DeleteTier`, `DeleteButton`, `ReadRequirement` and
  `WriteRequirement` need no FSM. Deletions cascade as the foreign keys say; a
  toggle that has read a deleted row fails (its record goes with the row).
* `fresh`, `latest`, `torn`, `astray`, `doubtful`, `made`, `opened`, `overlaps`
  are history. `torn` becomes true when two handlers overlap or one is cut
  between its writes, and false when a lone handler has cleared the FSM.

The one-message edits of `welcome.py` and `captcha.py` share one state, `edit`.
All values but bots, button types and channel types are `"given"`. Left out: the
handlers that only show something, `menu_toggle` (`is_visible` is in no
property), rows and positions.

### Directory

One entry per bot for ever, switched on and off in one step. A user's update is
handled, maybe more than once, only by the entry of the bot it was sent to, which was
on when the work began. It leaves Telegram's queue when it was handled, or was dropped:
by an entry that was off, or because it came too soon after another one of the same
user to the same bot (its own earlier delivery included); or when Telegram gives it up.
`BotLifecycle!Promise` maps `owner`, `active`, `to`, `queue` and `outcome` to
themselves, `recent` to the throttle keys and `work` to the users whose update a
handler has in hand; webhooks, tokens, Bot objects, the context cache, processes,
deliveries and failures are invisible.

### BotLifecycle

Child bots are accounts at Telegram with numbered tokens, the last of which is
valid; `owner`, `token`, `active` are the `bots` rows by id, `webhook` what
Telegram keeps, `cached` and `context` the two caches, `hot` the throttle keys. Of
each user's last update, `to` is the bot it is for, `queue` says whether Telegram still
waits for a 200, `outcome` (history) what became of it.

* `Register`, `GetMe`, `Insert`, `SetWebhook`, `CommitBot` are the awaits of
  `register`: the webhook is set before the commit, and a rolled back id stays
  used. `Toggle`, `Switch`, `Store` are those of `toggle_active`. `HandlerFails`
  rolls back at any of them; nothing undoes the webhook.
* `Start`, `StartBot`, `Serve` are `on_startup`, `StartupFails` is an error for
  one bot, which ends the process; `Crash` may come at any time.
* `GetMeFails` is the one failure of a registration that is caught and told to the
  admin (`BotRegistrationError`); `RegisterRaises`, a username that is taken at the
  insert or a token refused at `set_webhook`, nobody catches: rollback and a 500.
* An update shares the slots `Calls` with the admin's handlers and is step by step
  what they are: `Reaches` is the webhook with `BotManager.get`; the throttle lets it
  pass and leaves a key (`Deliver`) or answers 200 at once (`Throttled`); `Admit` and
  `Refuse` are the bot context, `Handle` the handler's return with the middleware's
  commit, `Answer` the 200, which may be lost.
* `Deliver` leaves the update in `queue`: Telegram may deliver it again while its first
  handler is at work, after it failed (`DeliveryFails`, a revoked token;
  `HandlerFails`, anything else; `Crash`), or after its commit when the 200 was lost. A
  redelivery that meets the key of the attempt before it is dropped by the throttle,
  although the bot is on. `GiveUp` is Telegram's.
* `SendUpdate` may repeat without end once the user's last update is out of the queue
  and its handlers are over, so an update meets caches and keys of earlier ones.
* With a revoked token a handler may fail or, as those do that catch
  `TelegramAPIError`, return and be answered 200 (`Handle`).
* `drift` and `alone` are history: rows whose last toggle failed after its call
  or overlapped another, and toggles that met no other.

Left out: the master bot (assumed to answer); the content of the configuration,
which is loaded anew for every update; updates without a user, which pass the throttle;
two updates of one user at once, but for those of different deliveries of one; two
handlers of a bot that fill the context cache between each other's read and write
(both write the one id there is).

## 3. Runs

| Run | Instance | Shows |
|---|---|---|
| `broadcast_safety` | 2 campaigns, 2 users, 2 jobs, batches of 1, 2 tries, 1 failure | types; resends only after a rollback; rows of a campaign agree; SENT means delivered; nobody hears of an uncommitted campaign; a closed campaign is final; who was SKIPPED is in the audience of no later campaign; the inductive invariant; Broadcast implements Campaign |
| `broadcast_liveness` | 1 campaign, 2 users, 2 jobs, 1 try, 1 failure | a due scheduled campaign is sent in the end, although jobs fail and are dropped |
| `broadcast_resend` | 1, 1, 1; 1 failure | **violation** of `NoDoubleSend` |
| `broadcast_lost_draft` | 1, 1, 1; no failure | **violation** of `DraftHasTask` |
| `gate_decisions` | 1 user, 1 channel, 2 handlers, 1 request, 1 fault, TTL 1 | audit rows claim no more than happened; no open request is forgotten; each is decided in the end; JoinGate implements Gate |
| `gate_freshness` | 1 user, 2 channels (one link-only), 2 handlers, TTL 2, Lifetime 1 | how old a membership can be that lets a user in; the inductive invariant |
| `gate_stale` | 1 user, 1 channel, 1 handler | **violation** of `ApprovalIsOfTheMoment` |
| `gate_audit` | 1 user, 1 channel, 1 handler, 1 fault | **violation** of `AuditIsComplete` |
| `captcha` | 1 user, 2 emojis, 2 handlers, 1 card, 1 event | a pass is earned by a correct emoji, and final; Captcha implements Challenge; a persistent user passes; the inductive invariant |
| `captcha_lockout` | 1 user, 1 handler, 2 edits | **violation** of `RetriesCanSucceed` |
| `admin_wizard` | 2 bots, 2 channels, 2 handlers, 2 events (wizards opened, aborts, deletions), 1 overlap | drafts are complete and of their own wizard; buttons can be drawn; rows are earned; tiers and requirements fit their bots; AdminWizard implements Catalogue; the inductive invariant |
| `bot_lifecycle` | 2 bots, 2 ids, 2 handlers, 1 fault, 1 user who writes to 1 bot without end | updates find their bot; BotLifecycle implements Directory; rows and webhooks agree at rest; the inductive invariant; a bot whose token is revoked stays on, and keeps all bots down once the process stops; otherwise the process comes back; an update does not wait for ever |

Why the bounds suffice. Two jobs of one campaign are the least at which a
duplicate waits for the lock; two campaigns the least at which jobs of
different ones interleave and share `blocked`; two users with batches of one
make the loop of `send_now` go round; one failure separates "once" from "once
plus failures". Two handlers are the least at which one fills the cache under
another and a redelivery overlaps its first handler (a late handler of one request that decides
the next one needs two requests: the proofs cover it); TTL 2 with Lifetime 1 is
the least at which the bound `TTL + 2 * Lifetime` differs from each of its
parts (with a bound one smaller `gate_freshness` fails). Symmetry is used in
safety runs only. The proofs remove the bounds for the properties they cover.
In `captcha` two handlers are the least at which one answers while another has
read an older row, configuration or answer, and one event is an edit, an expiry
or a failure at each point of every behaviour; several cards at once and longer
sequences of edits are covered by the proofs, not by the liveness run.
In `admin_wizard` two wizards opened are the least at which one is opened inside
the other, one opened and one event the least at which a handler is cut or a row
deleted under it, one overlap the least at which two handlers write the same
dictionary; two bots and two channels separate a tier's bot from its channel's.
The run begins with one private channel (`MCSpec`; a second comes from the channel
wizard), so that the two wizards suffice to make a tier; the proofs are of `Spec`,
with any channels before. In `bot_lifecycle` two handlers are two toggles of a bot,
two registrations of it, two deliveries of an update, or one of each kind; one fault is
a failed handler, a rollback after the webhook call, a crash or a revoked token, at any
point; the proofs cover longer mixtures. `MCSpec` takes ids and free slots in order
(they are interchangeable) and has two more bounds. `TogglesOfClients`: the bot the user
writes to is the one that is toggled; the other one is on or off from the start, or is
registered on the way. `OneSlotForUsers`: two handlers of the admin's overlap only while
no update is under way and no throttle key is left; with both slots taken an update could
only wait anyway. One user is enough: two would meet only in the slots and the context
cache. It does not check for deadlock: with every user answered, every id used
and no fault left the system may rest.
`Tasks`, `MaxFailures`, `Calls`, `MaxRequests`, `MaxFaults`, `MaxCards`,
`MaxEvents`, `MaxOverlaps`, `Ids`, `Clients` and `Screens`
are bounds of the models, `TogglesOfClients` and `OneSlotForUsers` of `MCBotLifecycle`;
`Lifetime` is an assumption (no handler runs longer; the code sets no limit); the
others are settings of the code. The gate is about one user's requests, handlers and
cache entries; users meet only in `required`, `faults` and the handler slots, which
is why one user is enough.

### Disagreements with the documentation

* *Resumable broadcasts* (`README.md:122`) "doesn't lose progress or
  double-send": `send_broadcast_task` commits once at the end
  (`app/bot/tasks.py:35`), so a restart forgets every SENT mark and the next
  task sends again. What holds instead is `BoundedDelivery`: one delivery plus
  one per aborted task.
* "Send now" (`app/handlers/admin/broadcast.py:148`): the job reaches Redis
  before the row is committed; a fast worker finds no row, ends the job, and the
  sweep never looks at a DRAFT.
* The gate re-validates "at that exact moment" (`README.md:64`): a cached answer
  may be a TTL old, and the one who stored it may have been late. What holds is
  `ApprovalIsFresh`: the user was in every verifiable required channel less than
  `TTL + 2 * Lifetime` ago.
* "Audit trail of every join-request decision" (`app/models/analytics.py:29`):
  the approval takes effect before its row is committed. What holds is
  `AuditIsSound`: no row without a decision.
* "Wrong answers never lock the user out" (`app/services/captcha_service.py:11`):
  `set_correct` (`app/handlers/admin/captcha.py:137`) does not test the emoji
  against the options, so a keyboard from before an edit makes an emoji correct
  that no card shows. What holds is `NeverLockedOut`, for as long as the correct
  emoji is one of the options.
* "Send the token again, or /start to cancel." (`app/handlers/admin/bots.py:81`)
  after a failed registration: the state stays `waiting_display_name`, so the next
  message is taken as the display name and the old token is tried once more
  (`Refuse` in AdminWizard leaves the state alone). No property states it.
* The expected answer is kept "for this exact card" (`app/handlers/user/start.py:55`):
  the key names the bot and the user, not the card, so a second card's answer replaces
  the first one's (`Arm` in Captcha). What holds is `ImplementsChallenge`: a tap is
  compared with what Redis holds then.
* After a requirement's toggle, `app/handlers/admin/private_channels.py:191` shows the
  keyboard again with `pc_reqs_menu(call, session)`, which takes the last number of the
  button for a tier's id (`:151`); in the toggle's button that is the channel's. The
  admin sees another tier's requirements, or, when no tier has that id, "Updated." is
  answered, `None.bot_id` raises and the toggle is rolled back. AdminWizard has this as
  `DropRequirement`; no property promises that a toggle takes effect.
* `on_startup` "guards against drift" (`app/bot/webhook_app.py:103`): it does, for
  bots that are on and whose tokens are valid (`AgreeAtRest`). One active bot with
  a revoked token aborts it for all bots, and the panel that could switch the bot
  off is served by the same process (`OutageIsFinal`).

## 4. Fairness

Only what the runtime repeats by itself is fair.

* Broadcast: the cron starts a sweep every minute and its enqueues succeed again
  and again (weak on `SweepList`, strong on `SweepEnqueue`, which competes for
  job slots); the handler's commit happens; arq serves its queue in order, so a
  queued job starts when slots keep becoming free (strong); PostgreSQL serves a
  row's waiters in order (strong on `Claim`); Telegram does not answer 429 for
  ever (strong on a send with another outcome).
* JoinGate: asyncio runs a started handler (weak), throttle keys expire (weak),
  Telegram repeats a delivery until it is answered (strong on `Deliver`, because
  throttling and busy slots disable it now and then).
* Captcha: handlers run on (strong, because `Show` waits while another handler
  works on the only card), Telegram repeats a delivery and gives it up in the
  end. The user is assumed to be persistent: to send `/start` and to try every
  emoji again and again, also when the process has room for a handler. Without
  that nobody would pass.
* BotLifecycle: Docker starts the process again and `on_startup` goes on (weak on
  `Boot`); asyncio runs every handler on, the admin's and the users' (weak on `GoOn` and
  `Respond`); throttle keys expire (weak on `Cool`); Telegram delivers again what was
  not answered with 200 (strong on `Deliver`, which busy slots and a throttle key
  disable now and then; weak would not do, since a user's next update sets a new key).
  Telegram need not give an update up, but may. `ComesBack` and `UpdateIsAnswered` say
  "from some time on the tokens of the active bots are valid" and "the bot stays on":
  without that the code does not promise it.
* Not forced otherwise: users, admin, the clock, faults, crashes, failures.

`ScheduledEventuallySent` needs `MaxFailures` to be finite: a campaign that
always outlives `job_timeout` is never sent. `RequestIsDecided` excludes
requests in `excused`: those stay open for ever, and the code has nothing that
would come back to them.

## 5. Proofs

The five `*Proofs` modules and `JoinGateRefinement` hold the theorems, all checked to
the last leaf. They use the named assumptions on the constants and nothing else; bounds
are arbitrary natural numbers, users, channels and campaigns arbitrary sets
(`Users` finite in Broadcast, where a batch is counted; `Calls` finite in
JoinGate and AdminWizard, where handlers are counted).

A refinement theorem says of every behaviour that it looks like one of the abstract
module: the initial states map to initial states and every step to a step or a
stutter. Each is proved with one lemma per visible action, and one step that shows
all others leave the mapped variables alone.

**Broadcast.** `BoundedDelivery` is not inductive: it says nothing of who
remembers a delivery. `IInv` adds
* `OneSender`: at most one task of a campaign is past `Claim` (the row lock);
* `TaskView`: what is in a task's batch, or decided by it, is still PENDING in
  the committed rows, and what it marked sent was delivered;
* `PublishedByCommit`: rows exist exactly after the handler's commit;
* `DeliveriesAccounted`: deliveries are paid for by failures, but for the one
  that a committed row or the one sender remembers.

A rollback turns the remembered delivery into a failure, a commit moves it from
the task to the row; both keep the sum. From `IInv` follow `DeliveryIsBounded`,
`LedgerIsAtomic`, `LedgerIsTrue`, `NoGhosts`, `ClosedCampaignIsFinal` (an action
property) and `BroadcastImplementsCampaign` (`CommitFinalize` publishes, a message
Telegram takes delivers, the one `FinishTask` that finds the campaign open closes it).

These parts are `CampaignInv`; `IInv` is `CampaignInv` and `SkippedIsBlocked`, which ties
rows of different tables: whoever has a SKIPPED job has the flag. The commit of a
task writes both, and no step takes a flag back. `SkippedAreLeftOut` then shows the
action property `LeftOutForGood`, since `Finalize` composes the audience without the
flagged.

**JoinGate.** `ApprovalsAreFresh` follows a "yes" on its way. It is 0 old at
Telegram (`MemberIsInside`), at most `age` when it is stored (`AnswerIsRecent`),
at most `Lifetime + TTL - left` in the cache (`EntryIsRecent`), less than
`Lifetime + TTL + age` once a handler has ticked a channel off
(`CheckIsRecent`). A tick ages both sides alike; a stored entry was less than a
handler's run old. `AuditIsAlwaysSound` needs `RequestsAccounted`: decisions on
record, decisions in flight and the open request together never exceed the
requests made; a rollback only lowers the sum. `NoRequestForgotten` needs
`UpdatesAccounted`: a handler about to answer an update has closed the request,
or excused it, or is late and another update exists.

`JoinGateImplementsGate` needs `ChecksAreNeeded` besides: what a handler still has to
look up, or holds against its user, is of its own reading of the requirements and can
be verified, and an idle handler serves nobody. Then an approval with nothing missing
has a recent "yes" for every channel of that reading (`YesIsRecent`), which is the guard
of `Admit`; a decline has a missing channel, which is the guard of `Refuse`; and a
request Telegram no longer holds can be neither. A handler of the in-bot
button maps to a free desk, a cache step to a stutter, a tick of the clock to `Pass`.

**Captcha.** `PassesAreEarned` follows the right answer: the configuration's
correct emoji, each handler's copy of it, the answer in Redis and a tap that has
been verified were all correct once (`OnlyOfferedAnswers`); `CommitPassed` then
records such a tap. `PassesAreFinal` needs no invariant: every action of every
handler keeps `captcha_passed`. `CaptchaImplementsChallenge` says more: the emoji is
compared with what Redis holds for this user, not with the configuration, which may
have changed, and is recorded for the same user, whose row exists
(`AnswersAreOfTheKnown`: rows are never deleted and a tap without one ends). `Verify`
solves, `Arm` asks, `CommitPassed` records, and a handler that ends otherwise loses
what it had solved.

**AdminWizard.** The handlers are data, so the proof has two halves. `HandlersFit`
shows of every record in the tables that it reads no more than its state promises
(`Needs`), leaves what the next state needs, and gives a button's type and payload
together (`FitsNext`, `FitsRow`, `FitsButton`). The second half is about any such
record: `JobsFit` says what a handler has in hand at each await, `OneAtATime` that
without an overlap nobody changes the FSM under it, `DraftsFit` that the draft is
complete for the state, or for the one the handler is about to set, and
`ButtonsFit` the same of a button's type and payload. `RowsFit` counts the
handlers that owe their update to an opened wizard or an overlap before their row
is built and after; one who clears the FSM leaves no second. `PicksFit` ties the
last keyboard of channels to the wizard's bot, `GatesFit` what keyboards and
half-done toggles may name.
`WizardsImplementCatalogue` shows what these are for: a commit enters a row that the
catalogue allows, because the draft holds a bot and only private channels are ever on a
keyboard; a toggle that was read before anything else was deleted adds a requirement
that is still legal when it is written. Other theorems: `DraftsAreComplete`,
`ButtonsAreDrawn`, `RowsAreEarned`, `TiersBelong`, `GatesAreCheckable`.

**BotLifecycle.** `Routing` needs `RegistrationsApart`: two registrations in flight
differ in account and id, and an id that is in a webhook but not yet in the
database belongs to the registration that is still running or to nobody for ever,
because the sequence never gives it out again. `Agreement` needs `TogglesFit` (a
toggle that met no other has its row to itself, and what it told Telegram is what
it will store) and `Agree`, its form while a toggle or the startup is under way.
`BotsImplementDirectory` rests on `Routing`: whether the row was found through the
cached id or by its token, it is the one row of the bot the update was sent to, so the
key the throttle sets and the `is_active` that is tested are that bot's. A 200 after a
handler is `Acknowledge`, because a handler about to answer has made something of its
update (`HandlersFit`); a handler that fails or is killed is `ComeToNothing`, unless
another one has the same update in hand, which is a stutter. A registration that
commits finds neither the id nor the bot in use.
`OutageLasts` and `RevokedStaysOn` are action properties. While the process is down no
handler of the panel is left (`HandlersFit`), a token that is not the last one never
becomes it again, and a toggle stores only after Telegram has taken its call.

Model-checked only: liveness (`ScheduledEventuallySent`, `RequestIsDecided`,
`NeverLockedOut`, `ComesBack`, `UpdateIsAnswered`), which the prover cannot reach,
and the five violations. All invariants and action properties of the passing runs
are also proved.

## 6. Not modelled

* **Statistics**: reads and divides; it keeps no state.
* **Keyboards**, but for what a menu button's payload must hold: layout.
* **Configuration, logging, ORM base, migrations, deployment**: settings and
  plumbing; the constraints of the tables are guards of the actions.
* **`get_or_create`'s race**, two first updates of a user: the second insert fails
  its handler, which is rolled back and delivered again, as `HandlerFails` in
  JoinGate and Captcha already may at any point.
* **Several bots at one gate**: the cache key without a bot, and one chat
  registered under two bots. Both need Telegram's rights per bot, about which the
  code says nothing.
* **Lock order of two campaigns in `users`**: PostgreSQL's abort is `TaskFails`.
* **A user who comes back** after blocking a bot: `LeftOutForGood` says that such a
  user is left out of every later campaign like one who stays away; whether a user
  is back is no state of the model.
