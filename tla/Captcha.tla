------------------------------- MODULE Captcha -------------------------------
(***************************************************************************)
(* The emoji captcha of one child bot: /start with send_captcha, the       *)
(* callback on_captcha_answer, the expected answer in Redis, and the       *)
(* admin's handlers that edit the options and the correct emoji.           *)
(*                                                                         *)
(* A handler has ONE transaction; it reads the configuration and the user  *)
(* row at its start and commits at its end.  Redis and Telegram take part  *)
(* in no transaction: the expected answer, the cards in the chat and the   *)
(* admin's wizard state keep what a rolled back handler did to them.       *)
(*                                                                         *)
(* An update is a record: a tap on an emoji of a card, or /start, whose    *)
(* card is 0.  Telegram delivers it until it is answered with 200.         *)
(*                                                                         *)
(* captcha_attempts is left out: nothing reads it.  The order in which a   *)
(* card shows its options is left out, but for the edit that fails because *)
(* a shuffle has changed nothing.                                          *)
(*                                                                         *)
(* Bounds: Calls, Screens, MaxCards, MaxEvents.                    *)
(***************************************************************************)
EXTENDS Naturals, FiniteSets

CONSTANTS
    Users,          \* the bot's users; a row exists from the first /start on
    Emojis,         \* every emoji an admin may use
    Default,        \* the correct one of a new bot
    Calls,          \* slots for running handlers (bound)
    Screens,        \* messages with a "pick the correct emoji" keyboard (bound)
    MaxCards,       \* captcha cards in a chat (bound)
    MaxEvents,      \* edits of the configuration, answers that outlive their
                    \* 600 s and handlers that fail by chance (bound)
    Nobody, NoEmoji

ASSUME BoundsAreNumbers == MaxCards \in Nat /\ MaxEvents \in Nat
ASSUME DefaultIsAnEmoji == Default \in Emojis
ASSUME NamesAreFree == Nobody \notin Users /\ NoEmoji \notin Emojis

VARIABLES
    emojis, correct,    \* bot_configs, committed
    known, passed,      \* users rows, committed; those with captcha_passed
    answer,             \* captcha_state:{bot}:{user} in Redis
    shown,              \* [Users -> [cards -> the options on it, {} if none]]
    inbox,              \* the updates not answered with 200
    wizard, pickers,    \* the admin's FSM state; the keyboards in the chat
    pc, who, serves, options, right,
                        \* the handlers; options and right is what they read
    offered, won,       \* history: the emojis that were ever correct, and
                        \* the emoji a user has passed with
    events

config == <<emojis, correct>>
rows == <<known, passed>>
chat == <<shown, inbox>>
admin == <<wizard, pickers>>
call == <<pc, who, serves, options, right>>
history == <<offered, won>>
vars == <<config, rows, answer, chat, admin, call, history, events>>

Cards == 1 .. MaxCards
StartUpdate == [card |-> 0, emoji |-> NoEmoji]
Taps == [card : Cards, emoji : Emojis]
Updates == Taps \cup {StartUpdate}
OptionLists == (SUBSET Emojis) \ {{}}

Init ==
    /\ emojis = Emojis
    /\ correct = Default
    /\ known = {}
    /\ passed = {}
    /\ answer = [u \in Users |-> NoEmoji]
    /\ shown = [u \in Users |-> [c \in Cards |-> {}]]
    /\ inbox = [u \in Users |-> {}]
    /\ wizard = "none"
    /\ pickers = [s \in Screens |-> {}]
    /\ pc = [h \in Calls |-> "idle"]
    /\ who = [h \in Calls |-> Nobody]
    /\ serves = [h \in Calls |-> StartUpdate]
    /\ options = [h \in Calls |-> {}]
    /\ right = [h \in Calls |-> NoEmoji]
    /\ offered = {Default}
    /\ won = [u \in Users |-> NoEmoji]
    /\ events = 0

Busy == {h \in Calls : pc[h] # "idle"}
Event == events < MaxEvents /\ events' = events + 1
Starting(u) == {h \in Busy : who[h] = u /\ serves[h] = StartUpdate}

-----------------------------------------------------------------------------
(* The admin.  A keyboard stays in the chat until it is used.  No wizard   *)
(* is begun that the bound on events would not let end.                    *)

AskEmojis ==
    /\ events < MaxEvents
    /\ wizard' = "emojis"
    /\ UNCHANGED <<config, rows, answer, chat, pickers, call, history, events>>

AskCorrect(s) ==
    /\ events < MaxEvents
    /\ wizard' = "correct"
    /\ pickers' = [pickers EXCEPT ![s] = emojis]
    /\ UNCHANGED <<config, rows, answer, chat, call, history, events>>

Edit(new, e) ==
    /\ Event
    /\ emojis' = new
    /\ correct' = e
    /\ offered' = offered \cup {e}
    /\ UNCHANGED <<rows, answer, chat, call, won>>

(* Repeated emojis count as several, so one alone may remain. *)
ReceiveEmojis(new) ==
    /\ wizard = "emojis"
    /\ \E first \in new : Edit(new, IF correct \in new THEN correct ELSE first)
    /\ wizard' = "none"
    /\ UNCHANGED pickers

(* Any keyboard in the chat will do, whatever options it was made of. *)
SetCorrect(s, e) ==
    /\ wizard = "correct"
    /\ e \in pickers[s]
    /\ Edit(emojis, e)
    /\ wizard' = "none"
    /\ pickers' = [pickers EXCEPT ![s] = {}]

(* The handler fails after state.clear(), or another wizard step clears it. *)
WizardCleared ==
    /\ wizard # "none"
    /\ wizard' = "none"
    /\ UNCHANGED <<config, rows, answer, chat, pickers, call, history, events>>

-----------------------------------------------------------------------------
(* The user, Redis and Telegram. *)

Sends(u, r) ==
    /\ r \notin inbox[u]
    /\ inbox' = [inbox EXCEPT ![u] = @ \cup {r}]
    /\ UNCHANGED <<config, rows, answer, shown, admin, call, history, events>>

PressStart(u) == Sends(u, StartUpdate)

Tap(u, c, e) == e \in shown[u][c] /\ Sends(u, [card |-> c, emoji |-> e])

(* The throttle drops the update, or Telegram gives it up at last. *)
Discard(u, r) ==
    /\ r \in inbox[u]
    /\ inbox' = [inbox EXCEPT ![u] = @ \ {r}]
    /\ UNCHANGED <<config, rows, answer, shown, admin, call, history, events>>

(* 600 s have passed since the last set. *)
AnswerExpires(u) ==
    /\ answer[u] # NoEmoji
    /\ Event
    /\ answer' = [answer EXCEPT ![u] = NoEmoji]
    /\ UNCHANGED <<config, rows, chat, admin, call, history>>

-----------------------------------------------------------------------------
(* The handlers. *)

(* Mutant of Begin: the configuration is not loaded. *)
BeginUnconfigured(h, u, r, next) ==
    /\ pc[h] = "idle"
    /\ r \in inbox[u]
    /\ pc' = [pc EXCEPT ![h] = next]
    /\ who' = [who EXCEPT ![h] = u]
    /\ serves' = [serves EXCEPT ![h] = r]
    /\ UNCHANGED <<options, right>>
    /\ UNCHANGED <<config, rows, answer, chat, admin, history, events>>

(* An update passes the throttle; the bot's configuration is loaded. *)
Begin(h, u, r, next) ==
    /\ pc[h] = "idle"
    /\ r \in inbox[u]
    /\ pc' = [pc EXCEPT ![h] = next]
    /\ who' = [who EXCEPT ![h] = u]
    /\ serves' = [serves EXCEPT ![h] = r]
    /\ options' = [options EXCEPT ![h] = emojis]
    /\ right' = [right EXCEPT ![h] = correct]
    /\ UNCHANGED <<config, rows, answer, chat, admin, history, events>>

(* Mutant of CmdStart: only the first /start shows a card. *)
CmdStartOnce(h, u) ==
    /\ u \in known \/ Starting(u) = {}
    /\ Begin(h, u, StartUpdate, IF u \in known THEN "commit" ELSE "arm")

(* get_or_create: a first /start makes a second one wait at the unique     *)
(* index; it fails when the first has committed, and is delivered again.   *)
CmdStart(h, u) ==
    /\ u \in known \/ Starting(u) = {}
    /\ Begin(h, u, StartUpdate, IF u \in passed THEN "commit" ELSE "arm")

OnCaptchaAnswer(h, u, r) == u \in known /\ r \in Taps /\ Begin(h, u, r, "verify")

(* No row of the user: "Session expired, please press /start again." *)
SessionExpired(u, r) ==
    /\ u \notin known
    /\ r \in inbox[u] \cap Taps
    /\ inbox' = [inbox EXCEPT ![u] = @ \ {r}]
    /\ UNCHANGED <<config, rows, answer, shown, admin, call, history, events>>

Goto(h, next) ==
    /\ pc' = [pc EXCEPT ![h] = next]
    /\ UNCHANGED <<who, serves, options, right>>

(* Mutant of Verify: without an expected answer every emoji is right. *)
VerifyAllowsMissing(h) ==
    /\ pc[h] = "verify"
    /\ Goto(h, IF answer[who[h]] \in {serves[h].emoji, NoEmoji} THEN "delete" ELSE "arm")
    /\ UNCHANGED <<config, rows, answer, chat, admin, history, events>>

(* Mutant of Verify: the tap is compared with the configuration.           *)
VerifyAgainstConfig(h) ==
    /\ pc[h] = "verify"
    /\ Goto(h, IF serves[h].emoji = right[h] THEN "delete" ELSE "arm")
    /\ UNCHANGED <<config, rows, answer, chat, admin, history, events>>

(* redis.get and the comparison; a wrong answer goes on to a new attempt. *)
Verify(h) ==
    /\ pc[h] = "verify"
    /\ Goto(h, IF serves[h].emoji = answer[who[h]] THEN "delete" ELSE "arm")
    /\ UNCHANGED <<config, rows, answer, chat, admin, history, events>>

(* redis.set with the answer the handler read from the configuration. *)
Arm(h) ==
    /\ pc[h] = "arm"
    /\ answer' = [answer EXCEPT ![who[h]] = right[h]]
    /\ Goto(h, IF serves[h] = StartUpdate THEN "show" ELSE "refresh")
    /\ UNCHANGED <<config, rows, chat, admin, history, events>>

(* send_photo or send_message with the keyboard.  The new card may take    *)
(* the number of one that no handler is at work on; what is left of that   *)
(* card and its taps is lost, as if the user had removed it from the chat. *)
Show(h) ==
    /\ pc[h] = "show"
    /\ \E c \in Cards :
          /\ \A k \in Busy : who[k] = who[h] => serves[k].card # c
          /\ shown' = [shown EXCEPT ![who[h]][c] = options[h]]
          /\ inbox' = [inbox EXCEPT ![who[h]] = {r \in @ : r.card # c}]
    /\ Goto(h, "commit")
    /\ UNCHANGED <<config, rows, answer, admin, history, events>>

CardOf(h) == shown[who[h]][serves[h].card]

(* edit_reply_markup on the card that was tapped. *)
Refresh(h) ==
    /\ pc[h] = "refresh"
    /\ CardOf(h) # {}
    /\ shown' = [shown EXCEPT ![who[h]][serves[h].card] = options[h]]
    /\ Goto(h, "commit")
    /\ UNCHANGED <<config, rows, answer, inbox, admin, history, events>>

DeleteCard(h) ==
    /\ pc[h] = "delete"
    /\ CardOf(h) # {}
    /\ shown' = [shown EXCEPT ![who[h]][serves[h].card] = {}]
    /\ Goto(h, "pass")
    /\ UNCHANGED <<config, rows, answer, inbox, admin, history, events>>

Forget(h) ==
    /\ pc' = [pc EXCEPT ![h] = "idle"]
    /\ who' = [who EXCEPT ![h] = Nobody]
    /\ serves' = [serves EXCEPT ![h] = StartUpdate]
    /\ options' = [options EXCEPT ![h] = {}]
    /\ right' = [right EXCEPT ![h] = NoEmoji]

(* The middleware's commit, and the 200 that ends the delivery. *)
Answered(h) ==
    /\ inbox' = [inbox EXCEPT ![who[h]] = @ \ {serves[h]}]
    /\ Forget(h)
    /\ UNCHANGED <<config, answer, shown, admin, offered, events>>

(* Mutant of Commit: a wrong answer writes captcha_passed as well. *)
CommitUnpasses(h) ==
    /\ pc[h] = "commit"
    /\ known' = known \cup {who[h]}
    /\ passed' = IF serves[h] \in Taps THEN passed \ {who[h]} ELSE passed
    /\ UNCHANGED won
    /\ Answered(h)

(* A /start or a wrong answer: the user row, but not captcha_passed. *)
Commit(h) ==
    /\ pc[h] = "commit"
    /\ known' = known \cup {who[h]}
    /\ UNCHANGED <<passed, won>>
    /\ Answered(h)

(* A right answer; the welcome message has been sent before. *)
CommitPassed(h) ==
    /\ pc[h] = "pass"
    /\ passed' = passed \cup {who[h]}
    /\ won' = [won EXCEPT ![who[h]] = serves[h].emoji]
    /\ UNCHANGED known
    /\ Answered(h)

RolledBack(h) ==
    /\ Forget(h)
    /\ UNCHANGED <<config, rows, answer, chat, admin, history>>

(* Telegram refuses an edit that changes nothing, and what is asked of a   *)
(* card that is gone: the handler fails, and the update comes again.       *)
TelegramRefuses(h) ==
    /\ \/ pc[h] \in {"refresh", "delete"} /\ CardOf(h) = {}
       \/ pc[h] = "refresh" /\ CardOf(h) = options[h]
    /\ RolledBack(h)
    /\ UNCHANGED events

(* The process dies, a call to Telegram or Redis or the commit fails. *)
HandlerFails(h) ==
    /\ h \in Busy
    /\ Event
    /\ RolledBack(h)

-----------------------------------------------------------------------------
HandlerStep(h) ==
    \/ Verify(h)
    \/ Arm(h)
    \/ Show(h)
    \/ Refresh(h)
    \/ DeleteCard(h)
    \/ Commit(h)
    \/ CommitPassed(h)
    \/ TelegramRefuses(h)

Deliver(u, r) ==
    \E h \in Calls : (r = StartUpdate /\ CmdStart(h, u)) \/ OnCaptchaAnswer(h, u, r)

AdminStep ==
    \/ AskEmojis
    \/ \E s \in Screens : AskCorrect(s) \/ \E e \in Emojis : SetCorrect(s, e)
    \/ \E new \in OptionLists : ReceiveEmojis(new)
    \/ WizardCleared

UserStep(u) ==
    \/ PressStart(u)
    \/ \E c \in Cards, e \in Emojis : Tap(u, c, e)
    \/ AnswerExpires(u)
    \/ \E r \in Updates : Deliver(u, r) \/ SessionExpired(u, r) \/ Discard(u, r)

Next ==
    \/ AdminStep
    \/ \E u \in Users : UserStep(u)
    \/ \E h \in Calls : HandlerStep(h) \/ HandlerFails(h)

Spec == Init /\ [][Next]_vars

(* asyncio runs a handler on, Telegram repeats a delivery and gives it up  *)
(* in the end.  The last two conjuncts are the persistent user: one who    *)
(* never stops sending /start and trying every emoji of every card, also   *)
(* when the process has room for another handler.                          *)
Fairness ==
    /\ \A h \in Calls : SF_vars(HandlerStep(h))
    /\ \A u \in Users, r \in Updates :
          /\ SF_vars(Deliver(u, r))
          /\ WF_vars(Discard(u, r))
    /\ \A u \in Users :
          /\ SF_vars(Busy # Calls /\ PressStart(u))
          /\ \A c \in Cards, e \in Emojis : SF_vars(Busy # Calls /\ Tap(u, c, e))

FairSpec == Spec /\ Fairness

-----------------------------------------------------------------------------
(* Every variable has its type. *)
WorldTypes ==
    /\ emojis \in OptionLists
    /\ correct \in Emojis
    /\ known \in SUBSET Users
    /\ passed \in SUBSET Users
    /\ answer \in [Users -> Emojis \cup {NoEmoji}]
    /\ shown \in [Users -> [Cards -> SUBSET Emojis]]
    /\ inbox \in [Users -> SUBSET Updates]
    /\ wizard \in {"none", "emojis", "correct"}
    /\ pickers \in [Screens -> SUBSET Emojis]
    /\ offered \in SUBSET Emojis
    /\ won \in [Users -> Emojis \cup {NoEmoji}]
    /\ events \in 0 .. MaxEvents

CallTypes ==
    /\ pc \in [Calls -> {"idle", "verify", "arm", "show", "refresh", "delete", "commit", "pass"}]
    /\ who \in [Calls -> Users \cup {Nobody}]
    /\ serves \in [Calls -> Updates]
    /\ options \in [Calls -> SUBSET Emojis]
    /\ right \in [Calls -> Emojis \cup {NoEmoji}]
    /\ \A h \in Busy : who[h] \in Users /\ options[h] # {} /\ right[h] \in Emojis
    /\ \A h \in Calls : pc[h] \in {"verify", "refresh", "delete", "pass"} => serves[h] \in Taps

TypeOK == WorldTypes /\ CallTypes

(* A user has passed only with an emoji that was at some time the correct  *)
(* one, never with another one because an answer expired, a card was older *)
(* than the answer in Redis, or two handlers overwrote each other's.       *)
PassedByARightAnswer == \A u \in passed : won[u] \in offered

(* Once passed, always passed: a late wrong answer, from another card or   *)
(* in a handler that began before the pass, does not take it back.         *)
PassIsFinal == [][passed \subseteq passed']_vars

(* What makes PassedByARightAnswer inductive: wherever a right answer is   *)
(* kept or under way, it was the correct emoji of the configuration once.  *)
OnlyOfferedAnswers ==
    /\ correct \in offered
    /\ \A u \in Users : answer[u] \in offered \cup {NoEmoji}
    /\ \A h \in Busy : right[h] \in offered
    /\ \A h \in Calls : pc[h] \in {"delete", "pass"} => serves[h].emoji \in offered

AnswersInv ==
    /\ TypeOK
    /\ OnlyOfferedAnswers
    /\ PassedByARightAnswer

(* Who answers a card is on record: a handler that finds no row ends, and  *)
(* no row is ever deleted.                                                 *)
AnswersAreOfTheKnown ==
    \A h \in Calls : pc[h] \in {"verify", "delete", "pass"} => who[h] \in known

(* The inductive invariant of the proofs. *)
IInv == AnswersInv /\ AnswersAreOfTheKnown

(* Handlers whose tap was verified and that have not committed. *)
Verified == {h \in Calls : pc[h] \in {"delete", "pass"}}
solved == {<<who[h], serves[h].emoji>> : h \in Verified}

(* Whatever card was tapped, however old, and whichever handler set the    *)
(* answer last: a pass is recorded for the user who named the answer that  *)
(* was in Redis at that moment (on_captcha_answer; Challenge.tla).         *)
Promise == INSTANCE Challenge
ImplementsChallenge == Promise!Spec

(* captcha_service.py: "Wrong answers never lock the user out (per spec:   *)
(* unlimited retries)".  If from some time on the correct emoji is one of  *)
(* the options, a persistent user passes, whatever cards, expired answers, *)
(* failed handlers and edits have left behind.                             *)
NeverLockedOut ==
    <>[](correct \in emojis) => \A u \in Users : <>(u \in passed)

(* The same sentence without the condition: when everything is at rest, a  *)
(* card on which no tap can ever pass is not what the user is left with.   *)
AtRest(u) ==
    /\ Busy = {}
    /\ inbox[u] = {}
    /\ answer[u] = correct

RetriesCanSucceed ==
    \A u \in Users : AtRest(u) =>
        \A c \in Cards : shown[u][c] # {} =>
            correct \in emojis \/ answer[u] \in shown[u][c]
=============================================================================
