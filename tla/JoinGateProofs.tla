--------------------------- MODULE JoinGateProofs ---------------------------
(***************************************************************************)
(* Proofs about JoinGate.tla, for every set of users and channels, any     *)
(* finite number of concurrent handlers and every TTL and handler time.    *)
(***************************************************************************)
EXTENDS JoinGate, FiniteSetTheorems, TLAPS

(* Every step is one of these; the proofs go through them one by one. *)
LEMMA StepCases ==
    ASSUME Next
    PROVE  \/ \E u \in Users, c \in Channels : Subscribe(c, u) \/ Unsubscribe(c, u)
           \/ \E u \in Users : TapLink(u) \/ Cool(u)
           \/ \E c \in Channels : ToggleRequirement(c)
           \/ Tick
           \/ \E h \in Calls, u \in Users, n \in 0 .. MaxRequests :
                 /\ Start(h, u, n)
                 /\ n = 0 \/ <<u, n>> \in inbox
           \/ \E u \in Users, n \in 1 .. MaxRequests : Throttled(u, n)
           \/ \E h \in Calls, c \in Channels : CacheHit(h, c) \/ CacheMiss(h, c)
           \/ \E h \in Calls :
                 \/ GetChatMember(h)
                 \/ StoreAnswer(h)
                 \/ ShowResult(h)
                 \/ Approve(h)
                 \/ Decline(h)
                 \/ ResolveFails(h)
                 \/ Commit(h)
                 \/ HandlerFails(h)
<1> DEFINE Started == \E h \in Calls, u \in Users, n \in 0 .. MaxRequests :
                         Start(h, u, n) /\ (n = 0 \/ <<u, n>> \in inbox)
<1>1. ASSUME NEW h \in Calls, NEW u \in Users, PressButton(h, u) PROVE Started
  <2>1. 0 \in 0 .. MaxRequests /\ Start(h, u, 0)
    BY <1>1, BoundsAreNumbers DEF PressButton
  <2>2. QED
    BY Zenon, <2>1
<1>2. ASSUME NEW h \in Calls, NEW u \in Users, NEW n \in 1 .. MaxRequests, Deliver(h, u, n)
      PROVE  Started
  <2>1. n \in 0 .. MaxRequests /\ Start(h, u, n) /\ <<u, n>> \in inbox
    BY <1>2, BoundsAreNumbers DEF Deliver
  <2>2. QED
    BY Zenon, <2>1
<1> HIDE DEF Started
<1>3. CASE \E u \in Users, c \in Channels \ LinkOnly : Subscribe(c, u) \/ Unsubscribe(c, u)
  BY Zenon, <1>3
<1>4. CASE \E h \in Calls : HandlerStep(h) \/ HandlerFails(h)
  BY Zenon, <1>4 DEF HandlerStep
<1>5. CASE \E u \in Users, n \in 1 .. MaxRequests :
             Throttled(u, n) \/ \E h \in Calls : Deliver(h, u, n)
  <2>1. Started \/ \E u \in Users, n \in 1 .. MaxRequests : Throttled(u, n)
    BY Zenon, <1>2, <1>5
  <2>2. QED
    BY Zenon, <2>1 DEF Started
<1>6. CASE \E h \in Calls, u \in Users : PressButton(h, u)
  <2>1. Started
    BY Zenon, <1>1, <1>6
  <2>2. QED
    BY Zenon, <2>1 DEF Started
<1>7. QED
  BY Zenon, <1>3, <1>4, <1>5, <1>6 DEF Next

LEMMA LongIsNat == Long \in Nat /\ 0 \in 0 .. Long /\ TTL \in 0 .. TTL
  BY TimesAreNumbers DEF Long

-----------------------------------------------------------------------------
LEMMA TypeInit == Init => TypeOK
<1> USE BoundsAreNumbers, TimesAreNumbers, LongIsNat
<1>1. Long \in 0 .. Long
  OBVIOUS
<1>2. QED
  BY <1>1 DEF Init, TypeOK, WorldTypes, CallTypes

(* A handler that ends leaves well-typed handlers behind. *)
LEMMA ForgetTypes == ASSUME CallTypes, NEW h \in Calls, Forget(h) PROVE CallTypes'
<1> USE BoundsAreNumbers, TimesAreNumbers
<1>1. /\ pc' \in [Calls -> {"idle", "check", "ask", "store", "commit"}]
      /\ who' \in [Calls -> Users \cup {Nobody}]
      /\ decision' \in [Calls -> {"none", "approved", "declined", "unresolved"}]
  BY DEF CallTypes, Forget
<1>2. serves' \in [Calls -> 0 .. MaxRequests] /\ age' \in [Calls -> 0 .. Lifetime]
  BY DEF CallTypes, Forget
<1>3. /\ need' \in [Calls -> SUBSET Channels]
      /\ todo' \in [Calls -> SUBSET Channels]
      /\ missing' \in [Calls -> SUBSET Channels]
  BY DEF CallTypes, Forget
<1>4. at' \in [Calls -> Channels \cup {Nowhere}] /\ answer' \in [Calls -> BOOLEAN]
  BY DEF CallTypes, Forget
<1>5. \A g \in Calls : /\ pc'[g] # "idle" => who'[g] \in Users
                       /\ pc'[g] \in {"ask", "store"} => at'[g] \in Channels
  BY DEF CallTypes, Forget
<1>6. QED
  BY <1>1, <1>2, <1>3, <1>4, <1>5 DEF CallTypes

LEMMA TypeStep == TypeOK /\ [Next]_vars => TypeOK'
<1> SUFFICES ASSUME TypeOK, [Next]_vars PROVE TypeOK'
  OBVIOUS
<1> USE BoundsAreNumbers, TimesAreNumbers, LongIsNat
<1>w. WorldTypes /\ CallTypes
  BY DEF TypeOK
<1>k. UNCHANGED call => CallTypes'
  BY <1>w DEF CallTypes, call
<1>1. CASE UNCHANGED vars
  BY <1>1, <1>w, <1>k DEF TypeOK, WorldTypes, vars, telegram, filter, database
<1>2. ASSUME NEW c \in Channels, NEW u \in Users, Subscribe(c, u) \/ Unsubscribe(c, u)
      PROVE  TypeOK'
  <2>1. member' \in [Channels -> SUBSET Users]
    <3>1. \E S \in SUBSET Users : member' = [member EXCEPT ![c] = S]
      <4>1. member[c] \cup {u} \in SUBSET Users /\ member[c] \ {u} \in SUBSET Users
        BY <1>w DEF WorldTypes
      <4>2. QED
        BY Zenon, <1>2, <4>1 DEF Subscribe, Unsubscribe
    <3>2. QED
      BY <1>w, <3>1 DEF WorldTypes
  <2>2. gone' \in [Channels -> [Users -> 0 .. Long]]
    <3>1. [gone[c] EXCEPT ![u] = 0] \in [Users -> 0 .. Long]
      BY <1>w DEF WorldTypes
    <3>2. CASE Subscribe(c, u)
      BY <1>w, <3>1, <3>2 DEF WorldTypes, Subscribe
    <3>3. CASE Unsubscribe(c, u)
      BY <1>w, <3>3 DEF WorldTypes, Unsubscribe
    <3>4. QED
      BY <1>2, <3>2, <3>3
  <2>3. QED
    BY <1>2, <1>w, <1>k, <2>1, <2>2
    DEF TypeOK, WorldTypes, Subscribe, Unsubscribe, filter, database
<1>3. ASSUME NEW u \in Users, TapLink(u) PROVE TypeOK'
  <2>1. asked' \in [Users -> 0 .. MaxRequests] /\ asked'[u] \in 1 .. MaxRequests
    BY <1>3, <1>w DEF WorldTypes, TapLink
  <2>2. QED
    BY <1>3, <1>w, <1>k, <2>1 DEF TypeOK, WorldTypes, TapLink, filter, database
<1>4. ASSUME NEW u \in Users, Cool(u) PROVE TypeOK'
  BY <1>4, <1>w, <1>k DEF TypeOK, WorldTypes, Cool, telegram, database
<1>5. ASSUME NEW c \in Channels, ToggleRequirement(c) PROVE TypeOK'
  BY <1>5, <1>w, <1>k DEF TypeOK, WorldTypes, ToggleRequirement, telegram, filter
<1>6. CASE Tick
  <2>1. age' \in [Calls -> 0 .. Lifetime]
    BY <1>6, <1>w DEF CallTypes, Tick, Busy
  <2>2. \A n \in 0 .. Long : Older(n) \in 0 .. Long
    BY DEF Older
  <2>3. gone' \in [Channels -> [Users -> 0 .. Long]]
    BY <1>6, <1>w, <2>2 DEF WorldTypes, Tick
  <2>4. \A e \in [value : BOOLEAN, left : 0 .. TTL] :
           [e EXCEPT !.left = IF @ > 0 THEN @ - 1 ELSE 0] \in [value : BOOLEAN, left : 0 .. TTL]
    OBVIOUS
  <2>5. cache' \in [Channels -> [Users -> [value : BOOLEAN, left : 0 .. TTL]]]
    BY <1>6, <1>w, <2>4 DEF WorldTypes, Tick
  <2>6. QED
    BY <1>6, <1>w, <2>1, <2>3, <2>5 DEF TypeOK, WorldTypes, CallTypes, Tick, filter, database
<1>7. ASSUME NEW h \in Calls, NEW u \in Users, NEW n \in 0 .. MaxRequests, Start(h, u, n)
      PROVE  TypeOK'
  <2>1. WorldTypes'
    BY <1>7, <1>w DEF WorldTypes, Start, telegram, database
  <2>2. required \in SUBSET Channels /\ required \ LinkOnly \in SUBSET Channels
    BY <1>w DEF WorldTypes
  <2>3. CallTypes'
    BY <1>7, <1>w, <2>2 DEF CallTypes, Start
  <2>4. QED
    BY <2>1, <2>3 DEF TypeOK
<1>8. ASSUME NEW u \in Users, NEW n \in 1 .. MaxRequests, Throttled(u, n) PROVE TypeOK'
  BY <1>8, <1>w, <1>k DEF TypeOK, WorldTypes, Throttled, database
<1>9. ASSUME NEW h \in Calls, NEW c \in Channels, CacheHit(h, c) \/ CacheMiss(h, c)
      PROVE  TypeOK'
  <2>1. WorldTypes'
    BY <1>9, <1>w DEF WorldTypes, CacheHit, CacheMiss, telegram, filter, database
  <2>2. todo' \in [Calls -> SUBSET Channels] /\ missing' \in [Calls -> SUBSET Channels]
    BY <1>9, <1>w DEF CallTypes, CacheHit, CacheMiss, Checked
  <2>3. /\ pc' \in [Calls -> {"idle", "check", "ask", "store", "commit"}]
        /\ at' \in [Calls -> Channels \cup {Nowhere}]
        /\ \A g \in Calls : /\ pc'[g] # "idle" => pc[g] # "idle"
                            /\ pc'[g] \in {"ask", "store"} => at'[g] \in Channels
    BY <1>9, <1>w DEF CallTypes, CacheHit, CacheMiss
  <2>4. UNCHANGED <<who, serves, age, need, answer, decision>>
    BY <1>9 DEF CacheHit, CacheMiss
  <2>5. QED
    BY <1>w, <2>1, <2>2, <2>3, <2>4 DEF TypeOK, CallTypes
<1>10. ASSUME NEW h \in Calls, GetChatMember(h) PROVE TypeOK'
  <2>1. WorldTypes'
    BY <1>10, <1>w DEF WorldTypes, GetChatMember, telegram, filter, database
  <2>2. answer' \in [Calls -> BOOLEAN]
    <3>1. PICK ok \in BOOLEAN : answer' = [answer EXCEPT ![h] = ok]
      BY Zenon, <1>10 DEF GetChatMember
    <3>2. answer \in [Calls -> BOOLEAN]
      BY <1>w DEF CallTypes
    <3>3. QED
      BY <3>1, <3>2
  <2>3. pc' = [pc EXCEPT ![h] = "store"] /\ pc[h] = "ask"
    BY Zenon, <1>10 DEF GetChatMember
  <2>4. UNCHANGED <<who, serves, age, need, todo, missing, at, decision>>
    BY Zenon, <1>10 DEF GetChatMember
  <2>5. QED
    BY <1>w, <2>1, <2>2, <2>3, <2>4 DEF TypeOK, CallTypes
<1>11. ASSUME NEW h \in Calls, StoreAnswer(h) PROVE TypeOK'
  <2>1. at[h] \in Channels /\ who[h] \in Users /\ answer[h] \in BOOLEAN
    BY <1>11, <1>w DEF CallTypes, StoreAnswer
  <2>2. cache' \in [Channels -> [Users -> [value : BOOLEAN, left : 0 .. TTL]]]
    <3> DEFINE e == [value |-> answer[h], left |-> TTL]
    <3>1. e \in [value : BOOLEAN, left : 0 .. TTL]
      BY <2>1
    <3>2. [cache[at[h]] EXCEPT ![who[h]] = e] \in [Users -> [value : BOOLEAN, left : 0 .. TTL]]
      BY <1>w, <2>1, <3>1 DEF WorldTypes
    <3>3. QED
      BY <1>11, <1>w, <2>1, <3>2 DEF WorldTypes, StoreAnswer
  <2>3. WorldTypes'
    BY <1>11, <1>w, <2>2 DEF WorldTypes, StoreAnswer, telegram, filter, database
  <2>4. CallTypes'
    BY <1>11, <1>w, <2>1 DEF CallTypes, StoreAnswer, Checked
  <2>5. QED
    BY <2>3, <2>4 DEF TypeOK
<1>12. ASSUME NEW h \in Calls, Approve(h) \/ Decline(h) \/ ResolveFails(h) PROVE TypeOK'
  <2>1. /\ \E d \in {"approved", "declined", "unresolved"} : Resolves(h, d)
        /\ request' \subseteq request
        /\ inside' \subseteq inside \cup {who[h]}
        /\ excused' \subseteq excused \cup {<<who[h], serves[h]>>}
    BY <1>12 DEF Approve, Decline, ResolveFails, Takes
  <2>2. who[h] \in Users /\ serves[h] \in 1 .. MaxRequests
    BY <1>w, <2>1 DEF CallTypes, Resolves
  <2>3. WorldTypes'
    BY <1>w, <2>1, <2>2 DEF WorldTypes, Resolves, database
  <2>4. CallTypes'
    BY <1>w, <2>1 DEF CallTypes, Resolves
  <2>5. QED
    BY <2>3, <2>4 DEF TypeOK
<1>13. ASSUME NEW h \in Calls, ShowResult(h) \/ Commit(h) \/ HandlerFails(h) PROVE TypeOK'
  <2>1. CallTypes'
    BY <1>13, <1>w, ForgetTypes DEF ShowResult, Commit, HandlerFails
  <2>2. /\ UNCHANGED <<member, gone, request, inside, asked, filter, required, cache>>
        /\ inbox' \subseteq inbox
    BY <1>13 DEF ShowResult, Commit, HandlerFails, telegram, filter, database
  <2>3. approvals' \in [Users -> Nat] /\ declines' \in [Users -> Nat]
    <3>1. CASE Commit(h)
      <4>1. who[h] \in Users
        BY <1>w, <3>1 DEF CallTypes, Commit
      <4>2. QED
        BY <1>w, <3>1, <4>1 DEF WorldTypes, Commit
    <3>2. CASE ShowResult(h) \/ HandlerFails(h)
      BY <1>w, <3>2 DEF WorldTypes, ShowResult, HandlerFails, database
    <3>3. QED
      BY <1>13, <3>1, <3>2
  <2>4. faults' \in 0 .. MaxFaults
    BY <1>13, <1>w DEF WorldTypes, ShowResult, Commit, HandlerFails
  <2>5. QED
    BY <1>w, <2>1, <2>2, <2>3, <2>4 DEF TypeOK, WorldTypes, filter
<1>14. QED
  BY <1>1, <1>2, <1>3, <1>4, <1>5, <1>6, <1>7, <1>8, <1>9, <1>10, <1>11, <1>12, <1>13,
     StepCases

(* Every variable keeps its type. *)
THEOREM TypeCorrect == Spec => []TypeOK
  BY TypeInit, TypeStep, PTL DEF Spec

-----------------------------------------------------------------------------
(* How old a "yes" can be. *)

LEMMA YesInit == Init => YesIsRecent
  BY DEF Init, YesIsRecent, MemberIsInside, AnswerIsRecent, EntryIsRecent, CheckIsRecent,
         Hit, Busy

(* The steps of one handler h that leaves every other handler, Telegram's  *)
(* members and the clock alone keep the other handlers' checks recent.     *)
LEMMA YesLocal ==
    ASSUME TypeOK, TypeOK', YesIsRecent, NEW h \in Calls,
           UNCHANGED <<member, gone>>,
           EntryIsRecent',
           \A g \in Calls \ {h} :
              /\ pc'[g] = pc[g] /\ who'[g] = who[g] /\ age'[g] = age[g] /\ at'[g] = at[g]
              /\ answer'[g] = answer[g] /\ need'[g] = need[g] /\ todo'[g] = todo[g]
              /\ missing'[g] = missing[g],
           pc'[h] = "store" /\ answer'[h] => gone[at'[h]][who'[h]] <= age'[h],
           pc'[h] # "idle" =>
              \A c \in (need'[h] \ LinkOnly) \ (todo'[h] \cup missing'[h]) :
                  gone[c][who'[h]] < Lifetime + TTL + age'[h]
    PROVE  YesIsRecent'
<1>1. MemberIsInside'
  BY DEF YesIsRecent, MemberIsInside
<1>2. AnswerIsRecent'
  BY DEF YesIsRecent, AnswerIsRecent
<1>3. CheckIsRecent'
  BY DEF YesIsRecent, CheckIsRecent, Verifiable, Busy
<1>4. QED
  BY <1>1, <1>2, <1>3 DEF YesIsRecent

LEMMA YesStep == TypeOK /\ TypeOK' /\ YesIsRecent /\ [Next]_vars => YesIsRecent'
<1> SUFFICES ASSUME TypeOK, TypeOK', YesIsRecent, [Next]_vars PROVE YesIsRecent'
  OBVIOUS
<1> USE BoundsAreNumbers, TimesAreNumbers, LongIsNat
<1>t. WorldTypes /\ CallTypes /\ WorldTypes' /\ CallTypes'
  BY DEF TypeOK
<1>y. MemberIsInside /\ AnswerIsRecent /\ EntryIsRecent /\ CheckIsRecent
  BY DEF YesIsRecent
<1>i. \A c \in Channels, u \in Users :
         gone[c][u] \in Nat /\ gone'[c][u] \in Nat /\ cache[c][u].left \in 0 .. TTL
  BY <1>t DEF WorldTypes
<1>j. \A h \in Calls : age[h] \in 0 .. Lifetime
  BY <1>t DEF CallTypes
<1>u. UNCHANGED <<member, gone, cache, call>> => YesIsRecent'
  BY <1>y DEF YesIsRecent, MemberIsInside, AnswerIsRecent, EntryIsRecent, CheckIsRecent,
              Hit, Verifiable, Busy, call
<1>c. UNCHANGED <<gone, cache>> => EntryIsRecent'
  BY <1>y DEF EntryIsRecent, Hit
<1>1. CASE UNCHANGED vars
  BY <1>1, <1>u DEF vars, telegram
<1>2. ASSUME NEW c \in Channels, NEW u \in Users, Subscribe(c, u) \/ Unsubscribe(c, u)
      PROVE  YesIsRecent'
  <2>1. UNCHANGED <<cache, call>>
    BY <1>2 DEF Subscribe, Unsubscribe
  <2>2. \A d \in Channels, v \in Users :
           /\ gone'[d][v] <= gone[d][v]
           /\ v \in member'[d] => v \in member[d] \/ gone'[d][v] = 0
    <3>1. CASE Subscribe(c, u)
      BY <1>t, <1>i, <3>1 DEF Subscribe, WorldTypes
    <3>2. CASE Unsubscribe(c, u)
      BY <1>t, <1>i, <3>2 DEF Unsubscribe, WorldTypes
    <3>3. QED
      BY <1>2, <3>1, <3>2
  <2>3. MemberIsInside'
    BY <1>y, <1>i, <2>2 DEF MemberIsInside
  <2>4. AnswerIsRecent'
    <3>1. ASSUME NEW h \in Calls, pc[h] = "store", answer[h]
          PROVE  gone'[at[h]][who[h]] <= age[h]
      <4>1. at[h] \in Channels /\ who[h] \in Users
        BY <1>t, <3>1 DEF CallTypes
      <4>2. QED
        BY <1>y, <1>i, <1>j, <2>2, <3>1, <4>1 DEF AnswerIsRecent
    <3>2. QED
      BY <2>1, <3>1 DEF AnswerIsRecent, call
  <2>5. EntryIsRecent'
    BY <1>y, <1>i, <2>1, <2>2 DEF EntryIsRecent, Hit
  <2>6. CheckIsRecent'
    <3>1. ASSUME NEW h \in Busy, NEW d \in Verifiable(h) \ (todo[h] \cup missing[h])
          PROVE  gone'[d][who[h]] < Lifetime + TTL + age[h]
      <4>1. h \in Calls /\ d \in Channels /\ who[h] \in Users
        BY <1>t, <3>1 DEF CallTypes, Busy, Verifiable
      <4>2. QED
        BY <1>y, <1>i, <1>j, <2>2, <3>1, <4>1 DEF CheckIsRecent
    <3>2. QED
      BY <2>1, <3>1 DEF CheckIsRecent, call, Busy, Verifiable
  <2>7. QED
    BY <2>3, <2>4, <2>5, <2>6 DEF YesIsRecent
<1>3. ASSUME NEW u \in Users, TapLink(u) \/ Cool(u) PROVE YesIsRecent'
  BY <1>3, <1>u DEF TapLink, Cool, telegram
<1>4. ASSUME NEW c \in Channels, ToggleRequirement(c) PROVE YesIsRecent'
  BY <1>4, <1>u DEF ToggleRequirement, telegram
<1>5. CASE Tick
  <2>1. UNCHANGED <<member, pc, who, need, todo, missing, at, answer>>
    BY <1>5 DEF Tick
  <2>2. \A h \in Busy : age'[h] = age[h] + 1
    BY <1>5, <1>t DEF Tick, Busy, CallTypes
  <2>3. \A c \in Channels, u \in Users :
           /\ gone'[c][u] <= gone[c][u] + 1
           /\ u \in member[c] => gone'[c][u] = 0
    <3>1. ASSUME NEW c \in Channels, NEW u \in Users
          PROVE  gone'[c][u] = IF u \in member[c] THEN 0 ELSE Older(gone[c][u])
      BY <1>5 DEF Tick
    <3>2. \A n \in 0 .. Long : Older(n) <= n + 1
      BY DEF Older
    <3>3. \A c \in Channels, u \in Users : gone[c][u] \in 0 .. Long
      BY <1>t DEF WorldTypes
    <3>4. QED
      BY <1>i, <3>1, <3>2, <3>3
  <2>4. \A c \in Channels, u \in Users :
           cache'[c][u].left > 0 =>
              /\ cache[c][u].left = cache'[c][u].left + 1
              /\ cache'[c][u].value = cache[c][u].value
    <3>1. ASSUME NEW c \in Channels, NEW u \in Users
          PROVE  cache'[c][u] = [cache[c][u] EXCEPT !.left = IF @ > 0 THEN @ - 1 ELSE 0]
      BY <1>5 DEF Tick
    <3>2. ASSUME NEW e \in [value : BOOLEAN, left : 0 .. TTL],
                 NEW f, f = [e EXCEPT !.left = IF @ > 0 THEN @ - 1 ELSE 0], f.left > 0
          PROVE  e.left = f.left + 1 /\ f.value = e.value
      <4>1. e.left \in 0 .. TTL /\ f.left = IF e.left > 0 THEN e.left - 1 ELSE 0
        BY <3>2
      <4>2. f.value = e.value
        BY <3>2
      <4>3. QED
        BY <3>2, <4>1, <4>2
    <3>3. \A c \in Channels, u \in Users :
             cache[c][u] \in [value : BOOLEAN, left : 0 .. TTL]
      BY <1>t DEF WorldTypes
    <3>4. QED
      BY <3>1, <3>2, <3>3
  <2>5. MemberIsInside'
    BY <2>1, <2>3 DEF MemberIsInside
  <2>6. AnswerIsRecent'
    <3>1. ASSUME NEW h \in Calls, pc[h] = "store", answer[h]
          PROVE  gone'[at[h]][who[h]] <= age'[h]
      <4>1. at[h] \in Channels /\ who[h] \in Users /\ h \in Busy
        BY <1>t, <3>1 DEF CallTypes, Busy
      <4>2. QED
        BY <1>y, <1>i, <1>j, <2>2, <2>3, <3>1, <4>1 DEF AnswerIsRecent
    <3>2. QED
      BY <2>1, <3>1 DEF AnswerIsRecent
  <2>7. EntryIsRecent'
    <3>1. ASSUME NEW c \in Channels, NEW u \in Users, cache'[c][u].left > 0, cache'[c][u].value
          PROVE  gone'[c][u] <= Lifetime + TTL - cache'[c][u].left
      <4>1. cache[c][u].left = cache'[c][u].left + 1 /\ cache[c][u].value
        BY <2>4, <3>1
      <4>2. cache'[c][u].left \in 0 .. TTL
        BY <1>t DEF WorldTypes
      <4>3. gone[c][u] <= Lifetime + TTL - cache[c][u].left
        BY <1>y, <3>1, <4>1, <4>2 DEF EntryIsRecent, Hit
      <4>4. QED
        BY <1>i, <2>3, <4>1, <4>2, <4>3
    <3>2. QED
      BY <3>1 DEF EntryIsRecent, Hit
  <2>8. CheckIsRecent'
    <3>1. ASSUME NEW h \in Busy, NEW d \in Verifiable(h) \ (todo[h] \cup missing[h])
          PROVE  gone'[d][who[h]] < Lifetime + TTL + age'[h]
      <4>1. h \in Calls /\ d \in Channels /\ who[h] \in Users
        BY <1>t, <3>1 DEF CallTypes, Busy, Verifiable
      <4>2. QED
        BY <1>y, <1>i, <1>j, <2>2, <2>3, <3>1, <4>1 DEF CheckIsRecent
    <3>2. QED
      BY <2>1, <3>1 DEF CheckIsRecent, Busy, Verifiable
  <2>9. QED
    BY <2>5, <2>6, <2>7, <2>8 DEF YesIsRecent
<1>6. ASSUME NEW h \in Calls, NEW u \in Users, NEW n \in 0 .. MaxRequests, Start(h, u, n)
      PROVE  YesIsRecent'
  <2>1. UNCHANGED <<member, gone, cache, at, answer, missing>>
    BY <1>6 DEF Start, telegram
  <2>2. /\ pc'[h] = "check" /\ need'[h] = required /\ todo'[h] = required \ LinkOnly
        /\ \A g \in Calls \ {h} :
              /\ pc'[g] = pc[g] /\ who'[g] = who[g] /\ age'[g] = age[g]
              /\ need'[g] = need[g] /\ todo'[g] = todo[g]
    BY <1>6, <1>t DEF Start, CallTypes
  <2>3. QED
    BY <1>c, <2>1, <2>2, YesLocal
<1>7. ASSUME NEW u \in Users, NEW n \in 1 .. MaxRequests, Throttled(u, n) PROVE YesIsRecent'
  BY <1>7, <1>u DEF Throttled
<1>8. ASSUME NEW h \in Calls, NEW c \in Channels, CacheHit(h, c) PROVE YesIsRecent'
  <2>1. UNCHANGED <<member, gone, cache, pc, who, age, need, at, answer>>
    BY <1>8 DEF CacheHit, telegram
  <2>2. /\ pc[h] = "check" /\ who[h] \in Users
        /\ cache[c][who[h]].left > 0
        /\ todo'[h] = todo[h] \ {c}
        /\ missing'[h] = IF cache[c][who[h]].value THEN missing[h] ELSE missing[h] \cup {c}
        /\ \A g \in Calls \ {h} : todo'[g] = todo[g] /\ missing'[g] = missing[g]
    BY <1>8, <1>t DEF CacheHit, Checked, CallTypes, Hit
  <2>3. cache[c][who[h]].value => gone[c][who[h]] < Lifetime + TTL + age[h]
    BY <1>y, <1>i, <1>j, <2>2 DEF EntryIsRecent, Hit
  <2>4. \A d \in (need[h] \ LinkOnly) \ (todo'[h] \cup missing'[h]) :
           gone[d][who[h]] < Lifetime + TTL + age[h]
    BY <1>y, <2>2, <2>3 DEF CheckIsRecent, Verifiable, Busy
  <2>5. QED
    BY <1>c, <2>1, <2>2, <2>4, YesLocal
<1>9. ASSUME NEW h \in Calls, NEW c \in Channels, CacheMiss(h, c) PROVE YesIsRecent'
  <2>1. UNCHANGED <<member, gone, cache, who, age, need, todo, missing, answer>>
    BY <1>9 DEF CacheMiss, telegram
  <2>2. /\ pc[h] = "check" /\ pc'[h] = "ask"
        /\ \A g \in Calls \ {h} : pc'[g] = pc[g] /\ at'[g] = at[g]
    BY <1>9, <1>t DEF CacheMiss, CallTypes
  <2>3. QED
    BY <1>c, <1>y, <2>1, <2>2, YesLocal DEF CheckIsRecent, Verifiable, Busy
<1>10. ASSUME NEW h \in Calls, GetChatMember(h) PROVE YesIsRecent'
  <2>1. UNCHANGED <<member, gone, cache, who, age, need, todo, missing, at>>
    BY <1>10 DEF GetChatMember, telegram
  <2>2. /\ pc[h] = "ask" /\ at[h] \in Channels /\ who[h] \in Users
        /\ answer'[h] => who[h] \in member[at[h]]
        /\ \A g \in Calls \ {h} : pc'[g] = pc[g] /\ answer'[g] = answer[g]
    BY <1>10, <1>t DEF GetChatMember, CallTypes
  <2>3. answer'[h] => gone[at[h]][who[h]] <= age[h]
    BY <1>y, <1>j, <2>2 DEF MemberIsInside
  <2>4. QED
    BY <1>c, <1>y, <2>1, <2>2, <2>3, YesLocal DEF CheckIsRecent, Verifiable, Busy
<1>11. ASSUME NEW h \in Calls, StoreAnswer(h) PROVE YesIsRecent'
  <2>1. UNCHANGED <<member, gone, who, age, need>>
    BY <1>11 DEF StoreAnswer, telegram
  <2>2. /\ pc[h] = "store" /\ at[h] \in Channels /\ who[h] \in Users
        /\ pc'[h] = "check"
        /\ todo'[h] = todo[h] \ {at[h]}
        /\ missing'[h] = IF answer[h] THEN missing[h] ELSE missing[h] \cup {at[h]}
        /\ \A g \in Calls \ {h} :
              /\ pc'[g] = pc[g] /\ at'[g] = at[g] /\ answer'[g] = answer[g]
              /\ todo'[g] = todo[g] /\ missing'[g] = missing[g]
    BY <1>11, <1>t DEF StoreAnswer, Checked, CallTypes
  <2>3. answer[h] => gone[at[h]][who[h]] <= age[h]
    BY <1>y, <2>2 DEF AnswerIsRecent
  <2>4. \A c \in Channels, u \in Users :
           \/ cache'[c][u] = cache[c][u]
           \/ c = at[h] /\ u = who[h] /\ cache'[c][u] = [value |-> answer[h], left |-> TTL]
    BY <1>11, <1>t, <2>2 DEF StoreAnswer, WorldTypes
  <2>5. EntryIsRecent'
    <3>1. ASSUME NEW c \in Channels, NEW u \in Users, cache'[c][u].left > 0, cache'[c][u].value
          PROVE  gone[c][u] <= Lifetime + TTL - cache'[c][u].left
      <4>1. CASE cache'[c][u] = cache[c][u]
        BY <1>y, <3>1, <4>1 DEF EntryIsRecent, Hit
      <4>2. CASE c = at[h] /\ u = who[h] /\ cache'[c][u] = [value |-> answer[h], left |-> TTL]
        BY <1>i, <1>j, <2>3, <3>1, <4>2
      <4>3. QED
        BY <2>4, <4>1, <4>2
    <3>2. QED
      BY <2>1, <3>1 DEF EntryIsRecent, Hit
  <2>6. \A d \in (need[h] \ LinkOnly) \ (todo'[h] \cup missing'[h]) :
           gone[d][who[h]] < Lifetime + TTL + age[h]
    BY <1>y, <1>i, <1>j, <2>2, <2>3 DEF CheckIsRecent, Verifiable, Busy
  <2>7. QED
    BY <2>1, <2>2, <2>5, <2>6, YesLocal
<1>12. ASSUME NEW h \in Calls, Approve(h) \/ Decline(h) \/ ResolveFails(h)
       PROVE  YesIsRecent'
  <2>1. /\ UNCHANGED <<member, gone, cache, who, age, need, todo, missing, at, answer>>
        /\ pc[h] = "check" /\ pc' = [pc EXCEPT ![h] = "commit"]
    BY <1>12 DEF Approve, Decline, ResolveFails, Resolves, Takes
  <2>2. pc'[h] = "commit" /\ \A g \in Calls \ {h} : pc'[g] = pc[g]
    BY <1>t, <2>1 DEF CallTypes
  <2>3. QED
    BY <1>c, <1>y, <2>1, <2>2, YesLocal DEF CheckIsRecent, Verifiable, Busy
<1>13. ASSUME NEW h \in Calls, ShowResult(h) \/ Commit(h) \/ HandlerFails(h)
       PROVE  YesIsRecent'
  <2>1. UNCHANGED <<member, gone, cache>> /\ Forget(h)
    BY <1>13 DEF ShowResult, Commit, HandlerFails, telegram
  <2>2. /\ pc'[h] = "idle"
        /\ \A g \in Calls \ {h} :
              /\ pc'[g] = pc[g] /\ who'[g] = who[g] /\ age'[g] = age[g] /\ at'[g] = at[g]
              /\ answer'[g] = answer[g] /\ need'[g] = need[g] /\ todo'[g] = todo[g]
              /\ missing'[g] = missing[g]
    BY <1>t, <2>1 DEF Forget, CallTypes
  <2>3. QED
    BY <1>c, <2>1, <2>2, YesLocal
<1>14. QED
  BY <1>1, <1>2, <1>3, <1>4, <1>5, <1>6, <1>7, <1>8, <1>9, <1>10, <1>11, <1>12, <1>13,
     StepCases

-----------------------------------------------------------------------------
(* Decisions, and the approvals on record. *)

LEMMA DecisionInit == Init => DecisionIsSound
  BY DEF Init, DecisionIsSound

LEMMA DecisionStep == TypeOK /\ DecisionIsSound /\ [Next]_vars => DecisionIsSound'
<1> SUFFICES ASSUME TypeOK, DecisionIsSound, [Next]_vars PROVE DecisionIsSound'
  OBVIOUS
<1>t. CallTypes
  BY DEF TypeOK
<1>u. UNCHANGED <<inside, call>> => DecisionIsSound'
  BY DEF DecisionIsSound, call
<1>1. CASE UNCHANGED vars
  BY <1>1, <1>u DEF vars, telegram
<1>2. ASSUME NEW c \in Channels, NEW u \in Users, Subscribe(c, u) \/ Unsubscribe(c, u)
      PROVE  DecisionIsSound'
  BY <1>2, <1>u DEF Subscribe, Unsubscribe
<1>3. ASSUME NEW u \in Users, TapLink(u) \/ Cool(u) PROVE DecisionIsSound'
  BY <1>3, <1>u DEF TapLink, Cool, telegram
<1>4. ASSUME NEW c \in Channels, ToggleRequirement(c) PROVE DecisionIsSound'
  BY <1>4, <1>u DEF ToggleRequirement, telegram
<1>5. CASE Tick
  BY <1>5 DEF Tick, DecisionIsSound
<1>6. ASSUME NEW h \in Calls, NEW u \in Users, NEW n \in 0 .. MaxRequests, Start(h, u, n)
      PROVE  DecisionIsSound'
  <2>1. UNCHANGED <<inside, decision, missing>> /\ decision[h] = "none"
    BY <1>6 DEF Start, telegram, DecisionIsSound
  <2>2. /\ pc'[h] = "check"
        /\ \A g \in Calls \ {h} :
              /\ pc'[g] = pc[g] /\ who'[g] = who[g] /\ todo'[g] = todo[g]
              /\ serves'[g] = serves[g]
    BY <1>6, <1>t DEF Start, CallTypes
  <2>3. QED
    BY <2>1, <2>2 DEF DecisionIsSound
<1>7. ASSUME NEW u \in Users, NEW n \in 1 .. MaxRequests, Throttled(u, n) PROVE DecisionIsSound'
  BY <1>7, <1>u DEF Throttled
<1>8. ASSUME NEW h \in Calls, NEW c \in Channels, CacheHit(h, c) \/ CacheMiss(h, c)
      PROVE  DecisionIsSound'
  <2>1. /\ UNCHANGED <<inside, decision, who, serves>>
        /\ pc[h] = "check" /\ decision[h] = "none"
    BY <1>8 DEF CacheHit, CacheMiss, telegram, DecisionIsSound
  <2>2. /\ pc'[h] \in {"check", "ask"}
        /\ \A g \in Calls \ {h} :
              pc'[g] = pc[g] /\ todo'[g] = todo[g] /\ missing'[g] = missing[g]
    BY <1>8, <1>t DEF CacheHit, CacheMiss, Checked, CallTypes
  <2>3. QED
    BY <2>1, <2>2 DEF DecisionIsSound
<1>9. ASSUME NEW h \in Calls, GetChatMember(h) \/ StoreAnswer(h) PROVE DecisionIsSound'
  <2>1. /\ UNCHANGED <<inside, decision, who, serves>>
        /\ pc[h] \in {"ask", "store"} /\ decision[h] = "none"
    BY <1>9 DEF GetChatMember, StoreAnswer, telegram, DecisionIsSound
  <2>2. /\ pc'[h] \in {"store", "check"}
        /\ \A g \in Calls \ {h} :
              pc'[g] = pc[g] /\ todo'[g] = todo[g] /\ missing'[g] = missing[g]
    BY <1>9, <1>t DEF GetChatMember, StoreAnswer, Checked, CallTypes
  <2>3. QED
    BY <2>1, <2>2 DEF DecisionIsSound
<1>10. ASSUME NEW h \in Calls, Approve(h) \/ Decline(h) \/ ResolveFails(h)
       PROVE  DecisionIsSound'
  <2>1. /\ UNCHANGED <<who, serves, todo, missing>>
        /\ inside \subseteq inside'
        /\ todo[h] = {} /\ serves[h] > 0
    BY <1>10 DEF Approve, Decline, ResolveFails, Resolves, Takes
  <2>2. /\ pc'[h] = "commit" /\ decision'[h] \in {"approved", "declined", "unresolved"}
        /\ \A g \in Calls \ {h} : pc'[g] = pc[g] /\ decision'[g] = decision[g]
    BY <1>10, <1>t DEF Approve, Decline, ResolveFails, Resolves, Takes, CallTypes
  <2>3. decision'[h] = "approved" => who[h] \in inside'
    BY <1>10, <1>t DEF Approve, Decline, ResolveFails, Resolves, Takes, CallTypes
  <2>4. QED
    BY <2>1, <2>2, <2>3 DEF DecisionIsSound
<1>11. ASSUME NEW h \in Calls, ShowResult(h) \/ Commit(h) \/ HandlerFails(h)
       PROVE  DecisionIsSound'
  <2>1. UNCHANGED inside /\ Forget(h)
    BY <1>11 DEF ShowResult, Commit, HandlerFails, telegram
  <2>2. /\ pc'[h] = "idle" /\ decision'[h] = "none"
        /\ \A g \in Calls \ {h} :
              /\ pc'[g] = pc[g] /\ who'[g] = who[g] /\ decision'[g] = decision[g]
              /\ todo'[g] = todo[g] /\ serves'[g] = serves[g]
    BY <1>t, <2>1 DEF Forget, CallTypes
  <2>3. QED
    BY <2>1, <2>2 DEF DecisionIsSound
<1>12. QED
  BY <1>1, <1>2, <1>3, <1>4, <1>5, <1>6, <1>7, <1>8, <1>9, <1>10, <1>11, StepCases

(* A decision is recent. *)
LEMMA FreshFollows == TypeOK /\ YesIsRecent /\ DecisionIsSound => ApprovalIsFresh
<1> SUFFICES ASSUME TypeOK, YesIsRecent, DecisionIsSound,
                    NEW h \in Calls, Admits(h), NEW c \in Verifiable(h)
             PROVE  gone[c][who[h]] < TTL + 2 * Lifetime
  BY DEF ApprovalIsFresh
<1>1. pc[h] = "commit" /\ todo[h] = {} /\ missing[h] = {}
  BY DEF DecisionIsSound, Admits
<1>2. c \in Channels /\ who[h] \in Users /\ age[h] \in 0 .. Lifetime
  BY <1>1 DEF TypeOK, CallTypes, Verifiable
<1>3. gone[c][who[h]] \in 0 .. Long
  BY <1>2 DEF TypeOK, WorldTypes
<1>4. gone[c][who[h]] < Lifetime + TTL + age[h]
  BY <1>1 DEF YesIsRecent, CheckIsRecent, Busy
<1>5. QED
  BY <1>2, <1>3, <1>4, TimesAreNumbers, LongIsNat

(* No user is let in on a membership older than the cache entry, the call  *)
(* that stored it and the handler that read it.                            *)
THEOREM ApprovalsAreFresh == Spec => []ApprovalIsFresh
<1>1. Init => TypeOK /\ YesIsRecent /\ DecisionIsSound
  BY TypeInit, YesInit, DecisionInit
<1>2. TypeOK /\ YesIsRecent /\ DecisionIsSound /\ [Next]_vars
         => TypeOK' /\ YesIsRecent' /\ DecisionIsSound'
  BY TypeStep, YesStep, DecisionStep
<1>3. QED
  BY <1>1, <1>2, FreshFollows, PTL DEF Spec

-----------------------------------------------------------------------------
(* The book-keeping of join requests. *)

LEMMA InFlightIsFinite ==
    ASSUME NEW u
    PROVE  /\ IsFiniteSet(InFlight(u)) /\ Cardinality(InFlight(u)) \in Nat
           /\ Cardinality(InFlight(u)') \in Nat
<1>1. InFlight(u) \subseteq Calls /\ InFlight(u)' \subseteq Calls
  BY DEF InFlight
<1>2. QED
  BY <1>1, CallsAreFinite, FS_Subset, FS_CardinalityType

LEMMA AccountInit == Init => RequestsAccounted /\ AuditIsSound
<1> SUFFICES ASSUME Init PROVE RequestsAccounted /\ AuditIsSound
  OBVIOUS
<1>1. \A u : InFlight(u) = {}
  BY DEF Init, InFlight
<1>2. Cardinality({}) = 0
  BY FS_EmptySet
<1>3. \A u : Cardinality(InFlight(u)) = 0
  BY <1>1, <1>2
<1>4. RequestsAccounted
  BY <1>3 DEF Init, RequestsAccounted
<1>5. AuditIsSound
  BY DEF Init, AuditIsSound
<1>6. QED
  BY <1>4, <1>5

(* What a user's requests add up to: on record, in flight, and open. *)
Recorded(u) == approvals[u] + declines[u]
Open(u) == IF u \in request THEN 1 ELSE 0

LEMMA AccountStep ==
    TypeOK /\ TypeOK' /\ DecisionIsSound /\ RequestsAccounted /\ [Next]_vars => RequestsAccounted'
<1> SUFFICES ASSUME TypeOK, TypeOK', DecisionIsSound, RequestsAccounted, [Next]_vars,
                    NEW v \in Users
             PROVE  (Recorded(v) + Cardinality(InFlight(v)) + Open(v) <= asked[v])'
  BY DEF RequestsAccounted, Recorded, Open
<1>t. WorldTypes /\ CallTypes /\ WorldTypes' /\ CallTypes'
  BY DEF TypeOK
<1>n. /\ Recorded(v) \in Nat /\ Recorded(v)' \in Nat
      /\ Open(v) \in Nat /\ Open(v)' \in Nat
      /\ asked[v] \in Nat /\ asked'[v] \in Nat
      /\ Cardinality(InFlight(v)) \in Nat /\ Cardinality(InFlight(v))' \in Nat
  <2>1. Cardinality(InFlight(v)) \in Nat /\ Cardinality(InFlight(v))' \in Nat
    BY InFlightIsFinite
  <2>2. Recorded(v) \in Nat /\ Recorded(v)' \in Nat
    BY <1>t DEF WorldTypes, Recorded
  <2>3. asked[v] \in Nat /\ asked'[v] \in Nat
    BY <1>t, BoundsAreNumbers DEF WorldTypes
  <2>4. Open(v) \in Nat /\ Open(v)' \in Nat
    BY DEF Open
  <2>5. QED
    BY <2>1, <2>2, <2>3, <2>4
<1>a. Recorded(v) + Cardinality(InFlight(v)) + Open(v) <= asked[v]
  BY DEF RequestsAccounted, Recorded, Open
<1>g. SUFFICES Recorded(v)' + Cardinality(InFlight(v)') + Open(v)' <= asked'[v]
  OBVIOUS
<1>f. ASSUME UNCHANGED <<approvals, declines, request, asked>>, InFlight(v)' = InFlight(v)
      PROVE  Recorded(v)' + Cardinality(InFlight(v)') + Open(v)' <= asked'[v]
  BY <1>a, <1>f DEF Recorded, Open
<1>u. ASSUME UNCHANGED <<approvals, declines, request, asked, who, decision>>
      PROVE  Recorded(v)' + Cardinality(InFlight(v)') + Open(v)' <= asked'[v]
  BY <1>f, <1>u DEF InFlight
<1>1. CASE UNCHANGED vars
  BY <1>1, <1>u DEF vars, telegram, database, call
<1>2. ASSUME NEW c \in Channels, NEW u \in Users, Subscribe(c, u) \/ Unsubscribe(c, u)
      PROVE  Recorded(v)' + Cardinality(InFlight(v)') + Open(v)' <= asked'[v]
  BY <1>2, <1>u DEF Subscribe, Unsubscribe, database, call
<1>3. ASSUME NEW u \in Users, TapLink(u)
      PROVE  Recorded(v)' + Cardinality(InFlight(v)') + Open(v)' <= asked'[v]
  <2>1. UNCHANGED <<approvals, declines, who, decision>>
    BY <1>3 DEF TapLink, database, call
  <2>2. InFlight(v)' = InFlight(v) /\ Recorded(v)' = Recorded(v)
    BY <2>1 DEF InFlight, Recorded
  <2>3. CASE u = v
    <3>1. asked'[v] = asked[v] + 1 /\ Open(v) = 0 /\ Open(v)' = 1
      BY <1>3, <1>t, <2>3 DEF TapLink, WorldTypes, Open
    <3>2. QED
      BY <1>a, <1>n, <2>2, <3>1
  <2>4. CASE u # v
    <3>1. asked'[v] = asked[v] /\ Open(v)' = Open(v)
      BY <1>3, <1>t, <2>4 DEF TapLink, WorldTypes, Open
    <3>2. QED
      BY <1>a, <1>n, <2>2, <3>1
  <2>5. QED
    BY <2>3, <2>4
<1>4. ASSUME NEW u \in Users, Cool(u)
      PROVE  Recorded(v)' + Cardinality(InFlight(v)') + Open(v)' <= asked'[v]
  BY <1>4, <1>u DEF Cool, telegram, database, call
<1>5. ASSUME NEW c \in Channels, ToggleRequirement(c)
      PROVE  Recorded(v)' + Cardinality(InFlight(v)') + Open(v)' <= asked'[v]
  BY <1>5, <1>u DEF ToggleRequirement, telegram, call
<1>6. CASE Tick
  BY <1>6, <1>u DEF Tick, database
<1>7. ASSUME NEW h \in Calls, NEW u \in Users, NEW n \in 0 .. MaxRequests, Start(h, u, n)
      PROVE  Recorded(v)' + Cardinality(InFlight(v)') + Open(v)' <= asked'[v]
  <2>1. UNCHANGED <<approvals, declines, request, asked, decision>> /\ decision[h] = "none"
    BY <1>7 DEF Start, telegram, database, DecisionIsSound
  <2>2. \A g \in Calls \ {h} : who'[g] = who[g]
    BY <1>7, <1>t DEF Start, CallTypes
  <2>3. InFlight(v)' = InFlight(v)
    BY <2>1, <2>2 DEF InFlight
  <2>4. QED
    BY <1>f, <2>1, <2>3
<1>8. ASSUME NEW h \in Calls, NEW c \in Channels, CacheHit(h, c) \/ CacheMiss(h, c)
      PROVE  Recorded(v)' + Cardinality(InFlight(v)') + Open(v)' <= asked'[v]
  BY <1>8, <1>u DEF CacheHit, CacheMiss, telegram, database
<1>9. ASSUME NEW h \in Calls, GetChatMember(h) \/ StoreAnswer(h)
      PROVE  Recorded(v)' + Cardinality(InFlight(v)') + Open(v)' <= asked'[v]
  BY <1>9, <1>u DEF GetChatMember, StoreAnswer, telegram, database
<1>10. ASSUME NEW h \in Calls, Approve(h) \/ Decline(h)
       PROVE  Recorded(v)' + Cardinality(InFlight(v)') + Open(v)' <= asked'[v]
  <2>1. /\ UNCHANGED <<approvals, declines, asked, who>>
        /\ pc[h] = "check" /\ decision[h] = "none"
        /\ who[h] \in request /\ request' = request \ {who[h]}
    BY <1>10 DEF Approve, Decline, Resolves, Takes, database, DecisionIsSound
  <2>2. /\ decision'[h] \in {"approved", "declined"}
        /\ \A g \in Calls \ {h} : decision'[g] = decision[g]
    BY <1>10, <1>t DEF Approve, Decline, Resolves, Takes, CallTypes
  <2>3. Recorded(v)' = Recorded(v)
    BY <2>1 DEF Recorded
  <2>4. CASE who[h] = v
    <3>1. InFlight(v)' = InFlight(v) \cup {h} /\ h \notin InFlight(v)
      BY <2>1, <2>2, <2>4 DEF InFlight
    <3>2. Cardinality(InFlight(v)') = Cardinality(InFlight(v)) + 1
      BY <3>1, InFlightIsFinite, FS_AddElement
    <3>3. Open(v) = 1 /\ Open(v)' = 0
      BY <2>1, <2>4 DEF Open
    <3>4. QED
      BY <1>a, <1>n, <2>1, <2>3, <3>2, <3>3
  <2>5. CASE who[h] # v
    <3>1. InFlight(v)' = InFlight(v) /\ Open(v)' = Open(v)
      BY <2>1, <2>2, <2>5 DEF InFlight, Open
    <3>2. QED
      BY <1>a, <1>n, <2>1, <2>3, <3>1
  <2>6. QED
    BY <2>4, <2>5
<1>11. ASSUME NEW h \in Calls, ResolveFails(h)
       PROVE  Recorded(v)' + Cardinality(InFlight(v)') + Open(v)' <= asked'[v]
  <2>1. /\ UNCHANGED <<approvals, declines, asked, who>> /\ decision[h] = "none"
        /\ request' \subseteq request
    BY <1>11 DEF ResolveFails, Resolves, Takes, database, DecisionIsSound
  <2>2. decision'[h] = "unresolved" /\ \A g \in Calls \ {h} : decision'[g] = decision[g]
    BY <1>11, <1>t DEF ResolveFails, Resolves, CallTypes
  <2>3. InFlight(v)' = InFlight(v) /\ Recorded(v)' = Recorded(v) /\ Open(v)' <= Open(v)
    BY <2>1, <2>2 DEF InFlight, Recorded, Open
  <2>4. QED
    BY <1>a, <1>n, <2>1, <2>3
<1>12. ASSUME NEW h \in Calls, ShowResult(h) \/ HandlerFails(h)
       PROVE  Recorded(v)' + Cardinality(InFlight(v)') + Open(v)' <= asked'[v]
  <2>1. UNCHANGED <<approvals, declines, request, asked>> /\ Forget(h)
    BY <1>12 DEF ShowResult, HandlerFails, telegram, database
  <2>2. InFlight(v)' \subseteq InFlight(v)
    BY <1>t, <2>1 DEF Forget, InFlight, CallTypes
  <2>3. Cardinality(InFlight(v)') <= Cardinality(InFlight(v))
    BY <2>2, InFlightIsFinite, FS_Subset
  <2>4. Recorded(v)' = Recorded(v) /\ Open(v)' = Open(v)
    BY <2>1 DEF Recorded, Open
  <2>5. QED
    BY <1>a, <1>n, <2>1, <2>3, <2>4
<1>13. ASSUME NEW h \in Calls, Commit(h)
       PROVE  Recorded(v)' + Cardinality(InFlight(v)') + Open(v)' <= asked'[v]
  <2>1. /\ UNCHANGED <<request, asked>> /\ Forget(h)
        /\ pc[h] = "commit" /\ who[h] \in Users
    BY <1>13, <1>t DEF Commit, CallTypes
  <2>2. /\ decision'[h] = "none" /\ who'[h] = Nobody
        /\ \A g \in Calls \ {h} : decision'[g] = decision[g] /\ who'[g] = who[g]
    BY <1>t, <2>1 DEF Forget, CallTypes
  <2>3. Open(v)' = Open(v)
    BY <2>1 DEF Open
  <2>4. CASE h \in InFlight(v)
    <3>1. InFlight(v)' = InFlight(v) \ {h}
      BY <2>2, <2>4 DEF InFlight
    <3>2. Cardinality(InFlight(v)') = Cardinality(InFlight(v)) - 1
      BY <2>4, <3>1, InFlightIsFinite, FS_RemoveElement
    <3>3. who[h] = v /\ decision[h] \in {"approved", "declined"}
      BY <2>4 DEF InFlight
    <3>4. Recorded(v)' = Recorded(v) + 1
      <4>1. approvals[v] \in Nat /\ declines[v] \in Nat
        BY <1>t DEF WorldTypes
      <4>2. CASE decision[h] = "approved"
        <5>1. approvals'[v] = approvals[v] + 1 /\ declines' = declines
          BY <1>13, <1>t, <3>3, <4>2 DEF Commit, WorldTypes
        <5>2. QED
          BY <4>1, <5>1 DEF Recorded
      <4>3. CASE decision[h] = "declined"
        <5>1. declines'[v] = declines[v] + 1 /\ approvals' = approvals
          BY <1>13, <1>t, <3>3, <4>3 DEF Commit, WorldTypes
        <5>2. QED
          BY <4>1, <5>1 DEF Recorded
      <4>4. QED
        BY <3>3, <4>2, <4>3
    <3>5. QED
      BY <1>a, <1>n, <2>1, <2>3, <3>2, <3>4
  <2>5. CASE h \notin InFlight(v)
    <3>1. InFlight(v)' \subseteq InFlight(v)
      BY <2>2 DEF InFlight
    <3>2. Cardinality(InFlight(v)') <= Cardinality(InFlight(v))
      BY <3>1, InFlightIsFinite, FS_Subset
    <3>3. Recorded(v)' = Recorded(v)
      <4>1. who[h] # v \/ decision[h] \notin {"approved", "declined"}
        BY <2>5 DEF InFlight
      <4>2. QED
        BY <1>13, <1>t, <4>1 DEF Commit, WorldTypes, Recorded
    <3>4. QED
      BY <1>a, <1>n, <2>1, <2>3, <3>2, <3>3
  <2>6. QED
    BY <2>4, <2>5
<1>14. ASSUME NEW u \in Users, NEW n \in 1 .. MaxRequests, Throttled(u, n)
       PROVE  Recorded(v)' + Cardinality(InFlight(v)') + Open(v)' <= asked'[v]
  BY <1>14, <1>u DEF Throttled, database, call
<1>15. QED
  BY <1>1, <1>2, <1>3, <1>4, <1>5, <1>6, <1>7, <1>8, <1>9, <1>10, <1>11, <1>12, <1>13, <1>14,
     StepCases

(* No more decisions on record than requests, and approvals only of users  *)
(* who were let in.                                                        *)
LEMMA AuditStep ==
    TypeOK /\ TypeOK' /\ DecisionIsSound /\ RequestsAccounted' /\ AuditIsSound /\ [Next]_vars
        => AuditIsSound'
<1> SUFFICES ASSUME TypeOK, TypeOK', DecisionIsSound, RequestsAccounted', AuditIsSound,
                    [Next]_vars, NEW v \in Users
             PROVE  /\ approvals'[v] + declines'[v] <= asked'[v]
                    /\ approvals'[v] > 0 => v \in inside'
  BY DEF AuditIsSound
<1>t. WorldTypes /\ CallTypes /\ WorldTypes' /\ CallTypes'
  BY DEF TypeOK
<1>1. approvals'[v] + declines'[v] <= asked'[v]
  <2>1. (approvals[v] + declines[v] + Cardinality(InFlight(v)) + Open(v) <= asked[v])'
    BY DEF RequestsAccounted, Open
  <2>2. /\ approvals'[v] \in Nat /\ declines'[v] \in Nat /\ asked'[v] \in Nat
        /\ Cardinality(InFlight(v)') \in Nat /\ Open(v)' \in Nat
    BY <1>t, BoundsAreNumbers, InFlightIsFinite DEF WorldTypes, Open
  <2>3. QED
    BY <2>1, <2>2
<1>2. inside \subseteq inside' /\ (UNCHANGED approvals \/ \E h \in Calls : Commit(h))
  <2>1. CASE UNCHANGED vars
    BY <2>1 DEF vars, telegram, database
  <2>2. ASSUME NEW c \in Channels, NEW u \in Users, Subscribe(c, u) \/ Unsubscribe(c, u)
        PROVE  UNCHANGED <<inside, approvals>>
    BY <2>2 DEF Subscribe, Unsubscribe, database
  <2>3. ASSUME NEW u \in Users, TapLink(u) \/ Cool(u) PROVE UNCHANGED <<inside, approvals>>
    BY <2>3 DEF TapLink, Cool, telegram, database
  <2>4. ASSUME NEW c \in Channels, ToggleRequirement(c) PROVE UNCHANGED <<inside, approvals>>
    BY <2>4 DEF ToggleRequirement, telegram
  <2>5. CASE Tick
    BY <2>5 DEF Tick, database
  <2>6. ASSUME NEW h \in Calls, NEW u \in Users, NEW n \in 0 .. MaxRequests, Start(h, u, n)
        PROVE  UNCHANGED <<inside, approvals>>
    BY <2>6 DEF Start, telegram, database
  <2>7. ASSUME NEW u \in Users, NEW n \in 1 .. MaxRequests, Throttled(u, n)
        PROVE  UNCHANGED <<inside, approvals>>
    BY <2>7 DEF Throttled, database
  <2>8. ASSUME NEW h \in Calls, NEW c \in Channels, CacheHit(h, c) \/ CacheMiss(h, c)
        PROVE  UNCHANGED <<inside, approvals>>
    BY <2>8 DEF CacheHit, CacheMiss, telegram, database
  <2>9. ASSUME NEW h \in Calls, GetChatMember(h) \/ StoreAnswer(h) \/ ShowResult(h)
                                  \/ HandlerFails(h)
        PROVE  UNCHANGED <<inside, approvals>>
    BY <2>9 DEF GetChatMember, StoreAnswer, ShowResult, HandlerFails, telegram, database
  <2>10. ASSUME NEW h \in Calls, Approve(h) \/ Decline(h) \/ ResolveFails(h)
         PROVE  inside \subseteq inside' /\ UNCHANGED approvals
    BY <2>10 DEF Approve, Decline, ResolveFails, Resolves, Takes, database
  <2>11. ASSUME NEW h \in Calls, Commit(h) PROVE UNCHANGED inside
    BY <2>11 DEF Commit
  <2>12. QED
    BY <2>1, <2>2, <2>3, <2>4, <2>5, <2>6, <2>7, <2>8, <2>9, <2>10, <2>11, StepCases
<1>3. approvals'[v] > 0 => v \in inside'
  <2>1. CASE UNCHANGED approvals
    BY <1>2, <2>1 DEF AuditIsSound
  <2>2. ASSUME NEW h \in Calls, Commit(h), approvals'[v] > 0 PROVE v \in inside'
    <3>1. approvals'[v] = approvals[v] \/ (who[h] = v /\ decision[h] = "approved")
      BY <1>t, <2>2 DEF Commit, WorldTypes
    <3>2. QED
      BY <1>2, <2>2, <3>1 DEF AuditIsSound, DecisionIsSound
  <2>3. QED
    BY <1>2, <2>1, <2>2
<1>4. QED
  BY <1>1, <1>3

(* join_events is sound, for any number of users, requests and handlers.   *)
THEOREM AuditIsAlwaysSound == Spec => []AuditIsSound
<1>1. Init => TypeOK /\ DecisionIsSound /\ RequestsAccounted /\ AuditIsSound
  BY TypeInit, DecisionInit, AccountInit
<1>2. TypeOK /\ DecisionIsSound /\ RequestsAccounted /\ AuditIsSound /\ [Next]_vars
         => TypeOK' /\ DecisionIsSound' /\ RequestsAccounted' /\ AuditIsSound'
  BY TypeStep, DecisionStep, AccountStep, AuditStep
<1>3. QED
  BY <1>1, <1>2, PTL DEF Spec

-----------------------------------------------------------------------------
(* No open request is forgotten. *)

LEMMA UpdatesInit == Init => UpdatesAccounted /\ RequestNotForgotten
  BY DEF Init, UpdatesAccounted, RequestNotForgotten, Busy

LEMMA UpdatesStep ==
    TypeOK /\ TypeOK' /\ UpdatesAccounted /\ [Next]_vars => UpdatesAccounted'
<1> SUFFICES ASSUME TypeOK, TypeOK', UpdatesAccounted, [Next]_vars PROVE UpdatesAccounted'
  OBVIOUS
<1> USE BoundsAreNumbers
<1>t. WorldTypes /\ CallTypes /\ WorldTypes' /\ CallTypes'
  BY DEF TypeOK
<1>u. UNCHANGED <<inbox, asked, excused, request, pc, who, serves>> => UpdatesAccounted'
  BY DEF UpdatesAccounted, Busy
<1>1. CASE UNCHANGED vars
  BY <1>1, <1>u DEF vars, telegram, filter, call
<1>2. ASSUME NEW c \in Channels, NEW u \in Users, Subscribe(c, u) \/ Unsubscribe(c, u)
      PROVE  UpdatesAccounted'
  BY <1>2, <1>u DEF Subscribe, Unsubscribe, filter, call
<1>3. ASSUME NEW u \in Users, TapLink(u) PROVE UpdatesAccounted'
  <2>1. UNCHANGED <<excused, call>>
    BY <1>3 DEF TapLink, filter
  <2>2. /\ asked'[u] = asked[u] + 1 /\ asked'[u] \in Nat /\ asked[u] \in Nat
        /\ \A v \in Users \ {u} : asked'[v] = asked[v]
    BY <1>3, <1>t DEF TapLink, WorldTypes
  <2>3. request' = request \cup {u} /\ inbox' = inbox \cup {<<u, asked'[u]>>}
    BY <1>3 DEF TapLink
  <2>4. \A r \in inbox' : r[2] <= asked'[r[1]]
    <3>1. ASSUME NEW r \in inbox PROVE r[2] <= asked'[r[1]]
      <4>1. r[1] \in Users /\ r[2] \in Nat /\ asked[r[1]] \in Nat
        BY <1>t DEF WorldTypes
      <4>2. r[2] <= asked[r[1]]
        BY DEF UpdatesAccounted
      <4>3. QED
        BY <2>2, <4>1, <4>2
    <3>2. QED
      BY <2>2, <2>3, <3>1
  <2>5. ASSUME NEW h \in Busy
        PROVE  /\ serves[h] <= asked'[who[h]]
               /\ pc[h] = "commit" =>
                     \/ <<who[h], serves[h]>> \in excused
                     \/ who[h] \notin request'
                     \/ serves[h] < asked'[who[h]]
    <3>1. who[h] \in Users /\ serves[h] \in Nat /\ serves[h] <= asked[who[h]]
      <4>1. h \in Calls /\ pc[h] # "idle"
        BY DEF Busy
      <4>2. who[h] \in Users /\ serves[h] \in Nat
        BY <1>t, <4>1 DEF CallTypes
      <4>3. serves[h] <= asked[who[h]]
        BY DEF UpdatesAccounted
      <4>4. QED
        BY <4>2, <4>3
    <3>2. CASE who[h] = u
      <4>1. asked'[who[h]] = asked[who[h]] + 1 /\ asked[who[h]] \in Nat
        BY <2>2, <3>2
      <4>2. serves[h] < asked'[who[h]] /\ serves[h] <= asked'[who[h]]
        BY <3>1, <4>1
      <4>3. QED
        BY <4>2
    <3>3. CASE who[h] # u
      BY <2>2, <2>3, <3>1, <3>3 DEF UpdatesAccounted
    <3>4. QED
      BY <3>2, <3>3
  <2>6. QED
    BY <2>1, <2>4, <2>5 DEF UpdatesAccounted, Busy, call
<1>4. ASSUME NEW u \in Users, Cool(u) PROVE UpdatesAccounted'
  BY <1>4, <1>u DEF Cool, telegram, call
<1>5. ASSUME NEW c \in Channels, ToggleRequirement(c) PROVE UpdatesAccounted'
  BY <1>5, <1>u DEF ToggleRequirement, telegram, filter, call
<1>6. CASE Tick
  BY <1>6, <1>u DEF Tick, filter
<1>7. ASSUME NEW h \in Calls, NEW u \in Users, NEW n \in 0 .. MaxRequests, Start(h, u, n),
             n = 0 \/ <<u, n>> \in inbox
      PROVE  UpdatesAccounted'
  <2>1. UNCHANGED <<inbox, asked, excused, request>>
    BY <1>7 DEF Start, telegram
  <2>2. /\ pc'[h] = "check" /\ who'[h] = u /\ serves'[h] = n
        /\ \A g \in Calls \ {h} : pc'[g] = pc[g] /\ who'[g] = who[g] /\ serves'[g] = serves[g]
    BY <1>7, <1>t DEF Start, CallTypes
  <2>3. n <= asked[u]
    BY <1>7, <1>t DEF UpdatesAccounted, WorldTypes
  <2>4. QED
    BY <2>1, <2>2, <2>3 DEF UpdatesAccounted, Busy
<1>8. ASSUME NEW u \in Users, NEW n \in 1 .. MaxRequests, Throttled(u, n) PROVE UpdatesAccounted'
  BY <1>8 DEF Throttled, UpdatesAccounted, Busy, call
<1>9. ASSUME NEW h \in Calls, NEW c \in Channels, CacheHit(h, c) \/ CacheMiss(h, c)
      PROVE  UpdatesAccounted'
  <2>1. UNCHANGED <<inbox, asked, excused, request, who, serves>> /\ pc[h] = "check"
    BY <1>9 DEF CacheHit, CacheMiss, telegram, filter
  <2>2. pc'[h] \in {"check", "ask"} /\ \A g \in Calls \ {h} : pc'[g] = pc[g]
    BY <1>9, <1>t DEF CacheHit, CacheMiss, CallTypes
  <2>3. QED
    BY <2>1, <2>2 DEF UpdatesAccounted, Busy
<1>10. ASSUME NEW h \in Calls, GetChatMember(h) \/ StoreAnswer(h) PROVE UpdatesAccounted'
  <2>1. /\ UNCHANGED <<inbox, asked, excused, request, who, serves>>
        /\ pc[h] \in {"ask", "store"}
    BY <1>10 DEF GetChatMember, StoreAnswer, telegram, filter
  <2>2. pc'[h] \in {"store", "check"} /\ \A g \in Calls \ {h} : pc'[g] = pc[g]
    BY <1>10, <1>t DEF GetChatMember, StoreAnswer, CallTypes
  <2>3. QED
    BY <2>1, <2>2 DEF UpdatesAccounted, Busy
<1>11. ASSUME NEW h \in Calls, Approve(h) \/ Decline(h) \/ ResolveFails(h)
       PROVE  UpdatesAccounted'
  <2>1. /\ UNCHANGED <<inbox, asked, who, serves>>
        /\ request' \subseteq request /\ excused \subseteq excused'
        /\ pc[h] = "check" /\ pc' = [pc EXCEPT ![h] = "commit"]
        /\ <<who[h], serves[h]>> \in excused' \/ who[h] \notin request'
    BY <1>11 DEF Approve, Decline, ResolveFails, Resolves, Takes
  <2>2. pc'[h] = "commit" /\ \A g \in Calls \ {h} : pc'[g] = pc[g]
    BY <1>t, <2>1 DEF CallTypes
  <2>3. QED
    BY <2>1, <2>2 DEF UpdatesAccounted, Busy
<1>12. ASSUME NEW h \in Calls, ShowResult(h) \/ Commit(h) \/ HandlerFails(h)
       PROVE  UpdatesAccounted'
  <2>1. /\ UNCHANGED <<asked, excused, request>> /\ inbox' \subseteq inbox
        /\ Forget(h)
    BY <1>12 DEF ShowResult, Commit, HandlerFails, telegram, filter
  <2>2. /\ pc'[h] = "idle"
        /\ \A g \in Calls \ {h} : pc'[g] = pc[g] /\ who'[g] = who[g] /\ serves'[g] = serves[g]
    BY <1>t, <2>1 DEF Forget, CallTypes
  <2>3. QED
    BY <2>1, <2>2 DEF UpdatesAccounted, Busy
<1>13. QED
  BY <1>1, <1>2, <1>3, <1>4, <1>5, <1>6, <1>7, <1>8, <1>9, <1>10, <1>11, <1>12, StepCases

LEMMA ForgottenStep ==
    TypeOK /\ UpdatesAccounted /\ RequestNotForgotten /\ [Next]_vars => RequestNotForgotten'
<1> SUFFICES ASSUME TypeOK, UpdatesAccounted, RequestNotForgotten, [Next]_vars
             PROVE  RequestNotForgotten'
  OBVIOUS
<1>t. WorldTypes /\ CallTypes
  BY DEF TypeOK
<1>u. /\ inbox \cup excused \subseteq inbox' \cup excused'
      /\ request' \subseteq request /\ UNCHANGED asked
      => RequestNotForgotten'
  BY DEF RequestNotForgotten
<1>1. CASE UNCHANGED vars
  BY <1>1, <1>u DEF vars, telegram, filter
<1>2. ASSUME NEW c \in Channels, NEW u \in Users, Subscribe(c, u) \/ Unsubscribe(c, u)
      PROVE  RequestNotForgotten'
  BY <1>2, <1>u DEF Subscribe, Unsubscribe, filter
<1>3. ASSUME NEW u \in Users, TapLink(u) PROVE RequestNotForgotten'
  <2>1. /\ request' = request \cup {u} /\ inbox' = inbox \cup {<<u, asked'[u]>>}
        /\ UNCHANGED excused
        /\ \A v \in Users \ {u} : asked'[v] = asked[v]
    BY <1>3, <1>t DEF TapLink, filter, WorldTypes
  <2>2. request \subseteq Users
    BY <1>t DEF WorldTypes
  <2>3. QED
    BY <2>1, <2>2 DEF RequestNotForgotten
<1>4. ASSUME NEW u \in Users, Cool(u) PROVE RequestNotForgotten'
  BY <1>4, <1>u DEF Cool, telegram
<1>5. ASSUME NEW c \in Channels, ToggleRequirement(c) PROVE RequestNotForgotten'
  BY <1>5, <1>u DEF ToggleRequirement, telegram, filter
<1>6. CASE Tick
  BY <1>6, <1>u DEF Tick, filter
<1>7. ASSUME NEW h \in Calls, NEW u \in Users, NEW n \in 0 .. MaxRequests, Start(h, u, n)
      PROVE  RequestNotForgotten'
  BY <1>7, <1>u DEF Start, telegram
<1>8. ASSUME NEW u \in Users, NEW n \in 1 .. MaxRequests, Throttled(u, n)
      PROVE  RequestNotForgotten'
  BY <1>8, <1>u DEF Throttled
<1>9. ASSUME NEW h \in Calls, NEW c \in Channels, CacheHit(h, c) \/ CacheMiss(h, c)
      PROVE  RequestNotForgotten'
  BY <1>9, <1>u DEF CacheHit, CacheMiss, telegram, filter
<1>10. ASSUME NEW h \in Calls,
              GetChatMember(h) \/ StoreAnswer(h) \/ ShowResult(h) \/ HandlerFails(h)
       PROVE  RequestNotForgotten'
  BY <1>10, <1>u DEF GetChatMember, StoreAnswer, ShowResult, HandlerFails, telegram, filter
<1>11. ASSUME NEW h \in Calls, Approve(h) \/ Decline(h) \/ ResolveFails(h)
       PROVE  RequestNotForgotten'
  BY <1>11, <1>u DEF Approve, Decline, ResolveFails, Resolves, Takes
<1>12. ASSUME NEW h \in Calls, Commit(h) PROVE RequestNotForgotten'
  <2>1. /\ UNCHANGED <<request, asked, excused>>
        /\ inbox' = inbox \ {<<who[h], serves[h]>>}
        /\ pc[h] = "commit"
    BY <1>12 DEF Commit, filter
  <2>2. /\ who[h] \in Users /\ serves[h] \in Nat /\ asked[who[h]] \in Nat
        /\ \/ <<who[h], serves[h]>> \in excused
           \/ who[h] \notin request
           \/ serves[h] < asked[who[h]]
    BY <1>t, <2>1, BoundsAreNumbers DEF UpdatesAccounted, Busy, CallTypes, WorldTypes
  <2>3. ASSUME NEW u \in request PROVE <<u, asked[u]>> \in inbox' \cup excused
    <3>1. <<u, asked[u]>> \in inbox \cup excused
      BY DEF RequestNotForgotten
    <3>2. u = who[h] /\ asked[u] = serves[h] => <<u, asked[u]>> \in excused
      BY <2>2
    <3>3. QED
      BY <2>1, <3>1, <3>2
  <2>4. QED
    BY <2>1, <2>3 DEF RequestNotForgotten
<1>13. QED
  BY <1>1, <1>2, <1>3, <1>4, <1>5, <1>6, <1>7, <1>8, <1>9, <1>10, <1>11, <1>12, StepCases

(* Failures, repeated deliveries and late handlers forget no open request. *)
THEOREM NoRequestForgotten == Spec => []RequestNotForgotten
<1>1. Init => TypeOK /\ UpdatesAccounted /\ RequestNotForgotten
  BY TypeInit, UpdatesInit
<1>2. TypeOK /\ UpdatesAccounted /\ RequestNotForgotten /\ [Next]_vars
         => TypeOK' /\ UpdatesAccounted' /\ RequestNotForgotten'
  BY TypeStep, UpdatesStep, ForgottenStep
<1>3. QED
  BY <1>1, <1>2, PTL DEF Spec

-----------------------------------------------------------------------------
(* A handler holds nothing against its user but what its reading asks for. *)

LEMMA NeededInit == Init => ChecksAreNeeded
  BY DEF Init, ChecksAreNeeded, Verifiable

(* What handler h does is of no concern to the others. *)
LEMMA NeededLocal ==
    ASSUME ChecksAreNeeded, NEW h \in Calls,
           \A g \in Calls \ {h} :
              /\ pc'[g] = pc[g] /\ serves'[g] = serves[g] /\ at'[g] = at[g]
              /\ need'[g] = need[g] /\ todo'[g] = todo[g] /\ missing'[g] = missing[g],
           todo'[h] \cup missing'[h] \subseteq need'[h] \ LinkOnly,
           pc'[h] \in {"ask", "store"} => at'[h] \in need'[h] \ LinkOnly,
           pc'[h] = "idle" => serves'[h] = 0 /\ missing'[h] = {}
    PROVE  ChecksAreNeeded'
  BY DEF ChecksAreNeeded, Verifiable

LEMMA NeededStep == TypeOK /\ ChecksAreNeeded /\ [Next]_vars => ChecksAreNeeded'
<1> SUFFICES ASSUME TypeOK, ChecksAreNeeded, [Next]_vars PROVE ChecksAreNeeded'
  OBVIOUS
<1>t. CallTypes
  BY DEF TypeOK
<1>u. UNCHANGED <<pc, serves, need, todo, missing, at>> => ChecksAreNeeded'
  BY DEF ChecksAreNeeded, Verifiable
<1>n. \A h \in Calls : todo[h] \cup missing[h] \subseteq need[h] \ LinkOnly
  BY DEF ChecksAreNeeded, Verifiable
<1>1. CASE UNCHANGED vars
  BY <1>1, <1>u DEF vars, call
<1>2. ASSUME NEW c \in Channels, NEW u \in Users, Subscribe(c, u) \/ Unsubscribe(c, u)
      PROVE  ChecksAreNeeded'
  BY <1>2, <1>u DEF Subscribe, Unsubscribe, call
<1>3. ASSUME NEW u \in Users, TapLink(u) \/ Cool(u) PROVE ChecksAreNeeded'
  BY <1>3, <1>u DEF TapLink, Cool, call
<1>4. ASSUME NEW c \in Channels, ToggleRequirement(c) PROVE ChecksAreNeeded'
  BY <1>4, <1>u DEF ToggleRequirement, call
<1>5. CASE Tick
  BY <1>5, <1>u DEF Tick
<1>6. ASSUME NEW h \in Calls, NEW u \in Users, NEW n \in 0 .. MaxRequests, Start(h, u, n)
      PROVE  ChecksAreNeeded'
  <2>1. todo'[h] = need'[h] \ LinkOnly /\ missing'[h] = missing[h] /\ pc'[h] = "check"
    BY <1>6, <1>t DEF Start, CallTypes
  <2>2. missing[h] = {}
    BY <1>6 DEF Start, ChecksAreNeeded
  <2>3. QED
    BY <1>6, <1>t, <2>1, <2>2, NeededLocal DEF Start, CallTypes
<1>7. ASSUME NEW u \in Users, NEW n \in 1 .. MaxRequests, Throttled(u, n) PROVE ChecksAreNeeded'
  BY <1>7, <1>u DEF Throttled, call
<1>8. ASSUME NEW h \in Calls, NEW c \in Channels, CacheHit(h, c) \/ CacheMiss(h, c)
      PROVE  ChecksAreNeeded'
  <2>1. pc[h] = "check" /\ c \in need[h] \ LinkOnly
    BY <1>8, <1>n DEF CacheHit, CacheMiss
  <2>2. CASE CacheHit(h, c)
    BY <1>t, <1>n, <2>1, <2>2, NeededLocal DEF CacheHit, Checked, CallTypes
  <2>3. CASE CacheMiss(h, c)
    BY <1>t, <1>n, <2>1, <2>3, NeededLocal DEF CacheMiss, CallTypes
  <2>4. QED
    BY <1>8, <2>2, <2>3
<1>9. ASSUME NEW h \in Calls, GetChatMember(h) PROVE ChecksAreNeeded'
  <2>1. at[h] \in need[h] \ LinkOnly
    BY <1>9 DEF GetChatMember, ChecksAreNeeded, Verifiable
  <2>2. pc' = [pc EXCEPT ![h] = "store"] /\ UNCHANGED <<serves, need, todo, missing, at>>
    BY <1>9 DEF GetChatMember
  <2>3. QED
    BY <1>t, <1>n, <2>1, <2>2, NeededLocal DEF CallTypes
<1>10. ASSUME NEW h \in Calls, StoreAnswer(h) PROVE ChecksAreNeeded'
  <2>1. at[h] \in need[h] \ LinkOnly
    BY <1>10 DEF StoreAnswer, ChecksAreNeeded, Verifiable
  <2>2. QED
    BY <1>10, <1>t, <1>n, <2>1, NeededLocal DEF StoreAnswer, Checked, CallTypes
<1>11. ASSUME NEW h \in Calls, Approve(h) \/ Decline(h) \/ ResolveFails(h)
       PROVE  ChecksAreNeeded'
  <2>1. pc' = [pc EXCEPT ![h] = "commit"] /\ UNCHANGED <<serves, need, todo, missing, at>>
    BY <1>11 DEF Approve, Decline, ResolveFails, Resolves
  <2>2. QED
    BY <1>t, <1>n, <2>1, NeededLocal DEF CallTypes
<1>12. ASSUME NEW h \in Calls, ShowResult(h) \/ Commit(h) \/ HandlerFails(h)
       PROVE  ChecksAreNeeded'
  <2>1. Forget(h)
    BY <1>12 DEF ShowResult, Commit, HandlerFails
  <2>2. QED
    BY <1>t, <2>1, NeededLocal DEF Forget, CallTypes
<1>13. QED
  BY <1>1, <1>2, <1>3, <1>4, <1>5, <1>6, <1>7, <1>8, <1>9, <1>10, <1>11, <1>12, StepCases

(* All parts together: the invariant that TLC checks is inductive. *)
THEOREM InductiveInvariant == Spec => []IInv
<1>1. Init => IInv
  BY TypeInit, NeededInit, YesInit, DecisionInit, AccountInit, UpdatesInit DEF IInv
<1>2. IInv /\ [Next]_vars => IInv'
  BY TypeStep, NeededStep, YesStep, DecisionStep, AccountStep, AuditStep, UpdatesStep,
     ForgottenStep
  DEF IInv
<1>3. QED
  BY <1>1, <1>2, PTL DEF Spec
=============================================================================
