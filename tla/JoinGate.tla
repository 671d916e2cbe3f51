------------------------------ MODULE JoinGate ------------------------------
(***************************************************************************)
(* The gate of one private channel: SubscriptionService with its Redis     *)
(* cache, PrivateChannelService, the chat_join_request handler and the     *)
(* in-bot button that runs the same check, against Telegram.               *)
(*                                                                         *)
(* A handler checks the required channels one after another.  Every await  *)
(* in between (redis.get, getChatMember, redis.set, approve or decline,    *)
(* the commit) is a point where users join and leave channels, the admin   *)
(* toggles requirements, cache entries expire and other handlers run.      *)
(*                                                                         *)
(* Time is kept as ages, so that it needs no bound: left is what remains   *)
(* of a cache entry's TTL, age how long a handler has been running, gone   *)
(* how long a user has been out of a channel (0 inside it).                *)
(*                                                                         *)
(* Bounds: Calls caps the handlers at work at one time, MaxRequests a      *)
(* user's join requests, MaxFaults the handlers that fail.  Lifetime is an *)
(* assumption on the environment, not in the code: no handler runs longer. *)
(*                                                                         *)
(* A request is <<user, number>>; Telegram resolves requests by user, its  *)
(* updates carry the one they are about.                                   *)
(***************************************************************************)
EXTENDS Integers, FiniteSets

CONSTANTS
    Users,
    Channels,       \* the channels that may be required
    LinkOnly,       \* those of them without tg_chat_id
    Calls,          \* slots for running handlers (bound)
    TTL,            \* SUBSCRIPTION_CHECK_CACHE_TTL (30 s)
    Lifetime,       \* the longest run of a handler (assumption)
    MaxRequests,    \* join requests per user (bound)
    MaxFaults,      \* failed handlers (bound)
    Nobody, Nowhere

ASSUME CallsAreFinite == IsFiniteSet(Calls)
ASSUME LinkOnlyAreChannels == LinkOnly \subseteq Channels
ASSUME TimesAreNumbers == TTL \in Nat \ {0} /\ Lifetime \in Nat
ASSUME BoundsAreNumbers == MaxRequests \in Nat /\ MaxFaults \in Nat
ASSUME NamesAreFree == Nobody \notin Users /\ Nowhere \notin Channels

VARIABLES
    member,         \* [Channels -> who is in the channel, at Telegram]
    gone,           \* [Channels -> [Users -> time since last inside, capped]]
    required,       \* the channel_requirements rows, committed
    cache,          \* sub:{chat}:{user} in Redis: value, left
    request,        \* the users whose join request Telegram holds open
    inside,         \* the users Telegram has let in
    inbox,          \* the requests whose update is not answered with 200
    excused,        \* the requests whose update was throttled, or whose
                    \* decision Telegram refused (history)
    hot,            \* the users with a throttle key in Redis
    asked,          \* how many requests a user has made
    approvals,      \* committed join_events with approved = true
    declines,       \* committed join_events with approved = false
    faults,         \* how many handlers have failed
    pc, who, serves, age, need, todo, missing, at, answer, decision
                    \* the running handlers; serves is the number of the
                    \* join request, 0 for a button

telegram == <<member, gone, request, inside, inbox, asked>>
filter == <<hot, excused>>
database == <<required, approvals, declines>>
call == <<pc, who, serves, age, need, todo, missing, at, answer, decision>>
vars == <<telegram, filter, database, cache, faults, call>>

(* Longer absences are all alike. *)
Long == TTL + 2 * Lifetime

Older(n) == IF n < Long THEN n + 1 ELSE Long

Init ==
    /\ member = [c \in Channels |-> {}]
    /\ gone = [c \in Channels |-> [u \in Users |-> Long]]
    /\ required \in SUBSET Channels
    /\ cache = [c \in Channels |-> [u \in Users |-> [value |-> FALSE, left |-> 0]]]
    /\ request = {}
    /\ inside = {}
    /\ inbox = {}
    /\ excused = {}
    /\ hot = {}
    /\ asked = [u \in Users |-> 0]
    /\ approvals = [u \in Users |-> 0]
    /\ declines = [u \in Users |-> 0]
    /\ faults = 0
    /\ pc = [h \in Calls |-> "idle"]
    /\ who = [h \in Calls |-> Nobody]
    /\ serves = [h \in Calls |-> 0]
    /\ age = [h \in Calls |-> 0]
    /\ need = [h \in Calls |-> {}]
    /\ todo = [h \in Calls |-> {}]
    /\ missing = [h \in Calls |-> {}]
    /\ at = [h \in Calls |-> Nowhere]
    /\ answer = [h \in Calls |-> FALSE]
    /\ decision = [h \in Calls |-> "none"]

Busy == {h \in Calls : pc[h] # "idle"}

-----------------------------------------------------------------------------
(* Telegram's users, the admin and the clock. *)

Subscribe(c, u) ==
    /\ u \notin member[c]
    /\ member' = [member EXCEPT ![c] = @ \cup {u}]
    /\ gone' = [gone EXCEPT ![c][u] = 0]
    /\ UNCHANGED <<request, inside, inbox, asked, filter, database, cache, faults, call>>

Unsubscribe(c, u) ==
    /\ u \in member[c]
    /\ member' = [member EXCEPT ![c] = @ \ {u}]
    /\ UNCHANGED <<gone, request, inside, inbox, asked, filter, database, cache, faults, call>>

(* The user taps the permanent invite link. *)
TapLink(u) ==
    /\ u \notin request \cup inside
    /\ asked[u] < MaxRequests
    /\ request' = request \cup {u}
    /\ asked' = [asked EXCEPT ![u] = @ + 1]
    /\ inbox' = inbox \cup {<<u, asked'[u]>>}
    /\ UNCHANGED <<member, gone, inside, filter, database, cache, faults, call>>

(* pc_req_toggle, or the deletion of a channel with its requirements. *)
ToggleRequirement(c) ==
    /\ required' = IF c \in required THEN required \ {c} ELSE required \cup {c}
    /\ UNCHANGED <<telegram, filter, approvals, declines, cache, faults, call>>

Tick ==
    /\ \A h \in Busy : age[h] < Lifetime
    /\ age' = [h \in Calls |-> IF h \in Busy THEN age[h] + 1 ELSE 0]
    /\ gone' = [c \in Channels |->
                  [u \in Users |-> IF u \in member[c] THEN 0 ELSE Older(gone[c][u])]]
    /\ cache' = [c \in Channels |-> [u \in Users |->
                  [cache[c][u] EXCEPT !.left = IF @ > 0 THEN @ - 1 ELSE 0]]]
    /\ UNCHANGED <<member, request, inside, inbox, asked, filter, database, faults>>
    /\ UNCHANGED <<pc, who, serves, need, todo, missing, at, answer, decision>>

-----------------------------------------------------------------------------
(* The handlers. *)

(* The throttle key expires 0.4 s after it was set. *)
Cool(u) ==
    /\ u \in hot
    /\ hot' = hot \ {u}
    /\ UNCHANGED <<telegram, excused, database, cache, faults, call>>

(* The update passes the throttle and leaves its key; the private channel  *)
(* is loaded with its requirements, of which the link-only ones count as   *)
(* satisfied and are not looked up.                                        *)
Start(h, u, n) ==
    /\ pc[h] = "idle"
    /\ u \notin hot
    /\ hot' = hot \cup {u}
    /\ pc' = [pc EXCEPT ![h] = "check"]
    /\ who' = [who EXCEPT ![h] = u]
    /\ serves' = [serves EXCEPT ![h] = n]
    /\ age' = [age EXCEPT ![h] = 0]
    /\ need' = [need EXCEPT ![h] = required]
    /\ todo' = [todo EXCEPT ![h] = required \ LinkOnly]
    /\ UNCHANGED <<missing, at, answer, decision>>
    /\ UNCHANGED <<telegram, excused, database, cache, faults>>

PressButton(h, u) == Start(h, u, 0)

(* Telegram delivers an update until it is answered: after a failure, and  *)
(* also while a first handler of it is still at work.                      *)
Deliver(h, u, n) == <<u, n>> \in inbox /\ Start(h, u, n)

(* An update of a user whose key is still there is answered and dropped. *)
Throttled(u, n) ==
    /\ <<u, n>> \in inbox
    /\ u \in hot
    /\ inbox' = inbox \ {<<u, n>>}
    /\ excused' = excused \cup {<<u, n>>}
    /\ UNCHANGED <<member, gone, request, inside, asked, hot, database, cache, faults, call>>

(* Mutant of Hit: an expired entry is as good as a fresh one. *)
HitOrStale(c, u) == cache[c][u].left > 0 \/ cache[c][u].value

(* redis.get finds an entry that has not expired. *)
Hit(c, u) == cache[c][u].left > 0

Checked(h, c, ok) ==
    /\ todo' = [todo EXCEPT ![h] = @ \ {c}]
    /\ missing' = [missing EXCEPT ![h] = IF ok THEN @ ELSE @ \cup {c}]

CacheHit(h, c) ==
    /\ pc[h] = "check"
    /\ c \in todo[h]
    /\ Hit(c, who[h])
    /\ Checked(h, c, cache[c][who[h]].value)
    /\ UNCHANGED <<pc, who, serves, age, need, at, answer, decision>>
    /\ UNCHANGED <<telegram, filter, database, cache, faults>>

CacheMiss(h, c) ==
    /\ pc[h] = "check"
    /\ c \in todo[h]
    /\ ~ Hit(c, who[h])
    /\ pc' = [pc EXCEPT ![h] = "ask"]
    /\ at' = [at EXCEPT ![h] = c]
    /\ UNCHANGED <<who, serves, age, need, todo, missing, answer, decision>>
    /\ UNCHANGED <<telegram, filter, database, cache, faults>>

(* Mutant of GetChatMember: the channel asked about is forgotten. *)
GetChatMemberOfAny(h) ==
    /\ pc[h] = "ask"
    /\ \E ok \in BOOLEAN : /\ ok => who[h] \in member[at[h]]
                           /\ answer' = [answer EXCEPT ![h] = ok]
    /\ pc' = [pc EXCEPT ![h] = "store"]
    /\ at' = [at EXCEPT ![h] = Nowhere]
    /\ UNCHANGED <<who, serves, age, need, todo, missing, decision>>
    /\ UNCHANGED <<telegram, filter, database, cache, faults>>

(* getChatMember; a TelegramAPIError is taken for "not a member". *)
GetChatMember(h) ==
    /\ pc[h] = "ask"
    /\ \E ok \in BOOLEAN : /\ ok => who[h] \in member[at[h]]
                           /\ answer' = [answer EXCEPT ![h] = ok]
    /\ pc' = [pc EXCEPT ![h] = "store"]
    /\ UNCHANGED <<who, serves, age, need, todo, missing, at, decision>>
    /\ UNCHANGED <<telegram, filter, database, cache, faults>>

(* redis.set with the TTL; the copy in user_subscriptions is best effort   *)
(* and nothing reads it.                                                   *)
StoreAnswer(h) ==
    /\ pc[h] = "store"
    /\ cache' = [cache EXCEPT ![at[h]][who[h]] = [value |-> answer[h], left |-> TTL]]
    /\ Checked(h, at[h], answer[h])
    /\ pc' = [pc EXCEPT ![h] = "check"]
    /\ at' = [at EXCEPT ![h] = Nowhere]
    /\ answer' = [answer EXCEPT ![h] = FALSE]
    /\ UNCHANGED <<who, serves, age, need, decision>>
    /\ UNCHANGED <<telegram, filter, database, faults>>

Forget(h) ==
    /\ pc' = [pc EXCEPT ![h] = "idle"]
    /\ who' = [who EXCEPT ![h] = Nobody]
    /\ serves' = [serves EXCEPT ![h] = 0]
    /\ age' = [age EXCEPT ![h] = 0]
    /\ need' = [need EXCEPT ![h] = {}]
    /\ todo' = [todo EXCEPT ![h] = {}]
    /\ missing' = [missing EXCEPT ![h] = {}]
    /\ at' = [at EXCEPT ![h] = Nowhere]
    /\ answer' = [answer EXCEPT ![h] = FALSE]
    /\ decision' = [decision EXCEPT ![h] = "none"]

(* The button shows the link or what is missing: advice, no access. *)
ShowResult(h) ==
    /\ pc[h] = "check"
    /\ serves[h] = 0
    /\ todo[h] = {}
    /\ Forget(h)
    /\ UNCHANGED <<telegram, filter, database, cache, faults>>

Resolves(h, d) ==
    /\ pc[h] = "check"
    /\ serves[h] > 0
    /\ todo[h] = {}
    /\ pc' = [pc EXCEPT ![h] = "commit"]
    /\ decision' = [decision EXCEPT ![h] = d]
    /\ UNCHANGED <<who, serves, age, need, todo, missing, at, answer>>
    /\ UNCHANGED <<member, gone, inbox, asked, hot, database, cache, faults>>

(* Telegram acts on approveChatJoinRequest or declineChatJoinRequest. *)
Takes(h) ==
    /\ who[h] \in request
    /\ request' = request \ {who[h]}
    /\ inside' = IF missing[h] = {} THEN inside \cup {who[h]} ELSE inside

Approve(h) ==
    /\ missing[h] = {}
    /\ Resolves(h, "approved")
    /\ Takes(h)
    /\ UNCHANGED excused

Decline(h) ==
    /\ missing[h] # {}
    /\ Resolves(h, "declined")
    /\ Takes(h)
    /\ UNCHANGED excused

(* Mutant of ResolveFails: the JoinEvent is added although the API failed. *)
ResolveFailsLogged(h) ==
    /\ Resolves(h, IF missing[h] = {} THEN "approved" ELSE "declined")
    /\ excused' = excused \cup {<<who[h], serves[h]>>}
    /\ UNCHANGED <<request, inside>>

(* A TelegramAPIError, always when the request is no longer open, and also *)
(* when only Telegram's answer was lost: the handler returns False and     *)
(* writes no JoinEvent.                                                    *)
ResolveFails(h) ==
    /\ Resolves(h, "unresolved")
    /\ excused' = excused \cup {<<who[h], serves[h]>>}
    /\ Takes(h) \/ UNCHANGED <<request, inside>>

(* The middleware's commit, and the 200 that ends the delivery. *)
Commit(h) ==
    /\ pc[h] = "commit"
    /\ approvals' = IF decision[h] = "approved"
                    THEN [approvals EXCEPT ![who[h]] = @ + 1] ELSE approvals
    /\ declines' = IF decision[h] = "declined"
                   THEN [declines EXCEPT ![who[h]] = @ + 1] ELSE declines
    /\ inbox' = inbox \ {<<who[h], serves[h]>>}
    /\ Forget(h)
    /\ UNCHANGED <<member, gone, request, inside, asked, filter, required, cache, faults>>

(* Mutant of HandlerFails: the failed handler is answered with 200. *)
HandlerFailsSilently(h) ==
    /\ h \in Busy
    /\ faults < MaxFaults
    /\ faults' = faults + 1
    /\ inbox' = inbox \ {<<who[h], serves[h]>>}
    /\ Forget(h)
    /\ UNCHANGED <<member, gone, request, inside, asked, filter, database, cache>>

(* The process dies, or the database refuses a statement or the commit:    *)
(* rollback and a 500, so the update is delivered again.                   *)
HandlerFails(h) ==
    /\ h \in Busy
    /\ faults < MaxFaults
    /\ faults' = faults + 1
    /\ Forget(h)
    /\ UNCHANGED <<telegram, filter, database, cache>>

-----------------------------------------------------------------------------
HandlerStep(h) ==
    \/ \E c \in Channels : CacheHit(h, c) \/ CacheMiss(h, c)
    \/ GetChatMember(h)
    \/ StoreAnswer(h)
    \/ ShowResult(h)
    \/ Approve(h)
    \/ Decline(h)
    \/ ResolveFails(h)
    \/ Commit(h)

Next ==
    \/ \E u \in Users, c \in Channels \ LinkOnly : Subscribe(c, u) \/ Unsubscribe(c, u)
    \/ \E u \in Users : TapLink(u) \/ Cool(u)
    \/ \E c \in Channels : ToggleRequirement(c)
    \/ Tick
    \/ \E h \in Calls, u \in Users : PressButton(h, u)
    \/ \E u \in Users, n \in 1 .. MaxRequests :
          Throttled(u, n) \/ \E h \in Calls : Deliver(h, u, n)
    \/ \E h \in Calls : HandlerStep(h) \/ HandlerFails(h)

Spec == Init /\ [][Next]_vars

(* asyncio runs every handler to its end, throttle keys expire, and        *)
(* Telegram repeats a delivery until it is answered.  Users, admin, clock  *)
(* and faults are not forced.                                              *)
Fairness ==
    /\ \A h \in Calls : WF_vars(HandlerStep(h))
    /\ \A u \in Users : WF_vars(Cool(u))
    /\ \A u \in Users, n \in 1 .. MaxRequests :
          SF_vars(\E h \in Calls : Deliver(h, u, n))

FairSpec == Spec /\ Fairness

-----------------------------------------------------------------------------
(* Every variable has its type. *)
WorldTypes ==
    /\ member \in [Channels -> SUBSET Users]
    /\ gone \in [Channels -> [Users -> 0 .. Long]]
    /\ required \in SUBSET Channels
    /\ cache \in [Channels -> [Users -> [value : BOOLEAN, left : 0 .. TTL]]]
    /\ request \in SUBSET Users
    /\ inside \in SUBSET Users
    /\ inbox \in SUBSET (Users \X (1 .. MaxRequests))
    /\ excused \in SUBSET (Users \X (1 .. MaxRequests))
    /\ hot \in SUBSET Users
    /\ asked \in [Users -> 0 .. MaxRequests]
    /\ approvals \in [Users -> Nat]
    /\ declines \in [Users -> Nat]
    /\ faults \in 0 .. MaxFaults

CallTypes ==
    /\ pc \in [Calls -> {"idle", "check", "ask", "store", "commit"}]
    /\ who \in [Calls -> Users \cup {Nobody}]
    /\ \A h \in Calls : pc[h] # "idle" => who[h] \in Users
    /\ serves \in [Calls -> 0 .. MaxRequests]
    /\ age \in [Calls -> 0 .. Lifetime]
    /\ need \in [Calls -> SUBSET Channels]
    /\ todo \in [Calls -> SUBSET Channels]
    /\ missing \in [Calls -> SUBSET Channels]
    /\ at \in [Calls -> Channels \cup {Nowhere}]
    /\ \A h \in Calls : pc[h] \in {"ask", "store"} => at[h] \in Channels
    /\ answer \in [Calls -> BOOLEAN]
    /\ decision \in [Calls -> {"none", "approved", "declined", "unresolved"}]

TypeOK == WorldTypes /\ CallTypes

Verifiable(h) == need[h] \ LinkOnly

(* The handler has asked Telegram to let the user in. *)
Admits(h) == decision[h] # "none" /\ missing[h] = {}

(* A user who is let in was in every required channel at some moment of    *)
(* the last TTL plus two handler runs: the age of the cache entry, of the  *)
(* call that stored it late, and of the handler that read it.  No mixture  *)
(* of concurrent handlers stretches it further.                            *)
ApprovalIsFresh ==
    \A h \in Calls : Admits(h) =>
        \A c \in Verifiable(h) : gone[c][who[h]] < TTL + 2 * Lifetime

(* join_events never claims more than happened: one committed decision per *)
(* join request at most, however often its update is delivered, and an     *)
(* approval only of a user who was let in.                                 *)
AuditIsSound ==
    \A u \in Users :
        /\ approvals[u] + declines[u] <= asked[u]
        /\ approvals[u] > 0 => u \in inside

(* An open join request is never forgotten: its update is still to be      *)
(* answered, unless the throttle dropped that very update or Telegram      *)
(* refused that very decision.  Failed handlers, repeated deliveries and   *)
(* late handlers of an earlier request do not lose it.                     *)
RequestNotForgotten ==
    \A u \in request : <<u, asked[u]>> \in inbox \cup excused

(* Such a request is decided in the end. *)
RequestIsDecided ==
    \A u \in Users : u \in request ~> (u \notin request \/ <<u, asked[u]>> \in excused)

(* What makes ApprovalIsFresh inductive: how old a "yes" can be while it   *)
(* travels from Telegram's answer through the cache to the decision.       *)
MemberIsInside == \A c \in Channels, u \in Users : u \in member[c] => gone[c][u] = 0

AnswerIsRecent ==
    \A h \in Calls : pc[h] = "store" /\ answer[h] => gone[at[h]][who[h]] <= age[h]

EntryIsRecent ==
    \A c \in Channels, u \in Users :
        Hit(c, u) /\ cache[c][u].value => gone[c][u] <= Lifetime + TTL - cache[c][u].left

CheckIsRecent ==
    \A h \in Busy : \A c \in Verifiable(h) \ (todo[h] \cup missing[h]) :
        gone[c][who[h]] < Lifetime + TTL + age[h]

YesIsRecent == MemberIsInside /\ AnswerIsRecent /\ EntryIsRecent /\ CheckIsRecent

(* A decision is taken after the last check, and a confirmed approval      *)
(* holds at Telegram.                                                      *)
DecisionIsSound ==
    \A h \in Calls :
        /\ decision[h] # "none" <=> pc[h] = "commit"
        /\ decision[h] # "none" => todo[h] = {} /\ serves[h] > 0
        /\ decision[h] = "approved" => who[h] \in inside

(* Handlers whose decision Telegram has taken and that are not committed. *)
InFlight(u) ==
    {h \in Calls : who[h] = u /\ decision[h] \in {"approved", "declined"}}

(* Every request is open, decided in flight, on record, or lost to a       *)
(* rollback: never two of these at once.                                   *)
RequestsAccounted ==
    \A u \in Users :
        approvals[u] + declines[u] + Cardinality(InFlight(u))
            + (IF u \in request THEN 1 ELSE 0) <= asked[u]

(* A handler that is about to answer an update leaves no open request to   *)
(* that update alone.                                                      *)
UpdatesAccounted ==
    /\ \A r \in inbox : r[2] <= asked[r[1]]
    /\ \A h \in Busy :
          /\ serves[h] <= asked[who[h]]
          /\ pc[h] = "commit" =>
                \/ <<who[h], serves[h]>> \in excused
                \/ who[h] \notin request
                \/ serves[h] < asked[who[h]]

(* A handler looks up, and holds against its user, only channels of its    *)
(* own reading of the requirements: not one that was added later, and not  *)
(* one whose members cannot be looked up.                                  *)
ChecksAreNeeded ==
    \A h \in Calls :
        /\ todo[h] \cup missing[h] \subseteq Verifiable(h)
        /\ pc[h] \in {"ask", "store"} => at[h] \in Verifiable(h)
        /\ pc[h] = "idle" => serves[h] = 0 /\ missing[h] = {}

(* The inductive invariant of the proofs. *)
IInv ==
    /\ TypeOK
    /\ ChecksAreNeeded
    /\ YesIsRecent
    /\ DecisionIsSound
    /\ AuditIsSound
    /\ RequestsAccounted
    /\ RequestNotForgotten
    /\ UpdatesAccounted

(* The desks of Gate.tla are the handlers of join requests. *)
desk ==
    [h \in Calls |->
        IF serves[h] > 0
        THEN [who |-> who[h], need |-> need[h], verdict |-> decision[h]]
        ELSE [who |-> Nobody, need |-> {}, verdict |-> "none"]]

Promise == INSTANCE Gate WITH Desks <- Calls, Patience <- Long, open <- request

(* The handlers with their cache, awaits, failures and repeated deliveries *)
(* keep the promise of the gate: who is let in was seen in every channel   *)
(* of one reading of the requirements, who is refused had one to be in,    *)
(* and the record says what Telegram was told.                             *)
ImplementsGate == Promise!Spec

(* README: handle_join_request "re-validates every required-channel        *)
(* subscription **at that exact moment**": a user who is let in was in     *)
(* every required channel at some moment of the handler's own run.         *)
ApprovalIsOfTheMoment ==
    \A h \in Calls : Admits(h) =>
        \A c \in Verifiable(h) : gone[c][who[h]] <= age[h]

(* models/analytics.py: JoinEvent is the "Audit trail of every join-       *)
(* request decision": once nothing is left to do for a user who was let    *)
(* in, the approval is on record.                                          *)
AuditIsComplete ==
    \A u \in Users :
        (u \in inside /\ <<u, asked[u]>> \notin inbox /\ \A h \in Busy : who[h] # u)
            => approvals[u] > 0
=============================================================================
