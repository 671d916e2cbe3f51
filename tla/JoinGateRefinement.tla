------------------------- MODULE JoinGateRefinement -------------------------
(***************************************************************************)
(* JoinGate.tla implements Gate.tla, for every set of users and channels,  *)
(* any finite number of concurrent handlers and every TTL and handler      *)
(* time.  Telegram, the clock and the admin map to the steps of the same   *)
(* meaning; a handler's checks, its cache and its awaits are invisible;    *)
(* its decision, its commit and its failure are steps of its desk.         *)
(***************************************************************************)
EXTENDS JoinGateProofs

Occupied(h) == [who |-> who[h], need |-> need[h], verdict |-> decision[h]]

(* The desk of a handler of a join request, and of any other handler. *)
LEMMA DeskOf ==
    ASSUME IInv, NEW h \in Calls
    PROVE  /\ serves[h] \in Nat
           /\ serves[h] > 0 => /\ desk[h] = Occupied(h)
                               /\ desk[h] # Promise!Free
                               /\ who[h] \in Users
                               /\ pc[h] # "idle"
           /\ serves[h] = 0 => desk[h] = Promise!Free
<1>1. serves[h] \in Nat /\ (pc[h] # "idle" => who[h] \in Users)
  BY BoundsAreNumbers DEF IInv, TypeOK, CallTypes
<1>2. serves[h] > 0 => pc[h] # "idle"
  BY <1>1 DEF IInv, ChecksAreNeeded
<1>3. who[h] \in Users => Occupied(h) # Promise!Free
  <2>1. Occupied(h).who = who[h] /\ Promise!Free.who = Nobody
    BY DEF Occupied, Promise!Free
  <2>2. QED
    BY <2>1, NamesAreFree
<1>4. QED
  BY <1>1, <1>2, <1>3 DEF desk, Occupied, Promise!Free

(* No step of this handler is a step of a desk when neither who it serves, *)
(* nor its reading, nor its decision changes.                              *)
LEMMA DesksStay == UNCHANGED <<who, serves, need, decision>> => UNCHANGED desk
  BY DEF desk

(* Both start with nobody asking and no handler at work.                   *)
LEMMA RefineInit == Init => Promise!Init
<1> SUFFICES ASSUME Init PROVE Promise!Init
  OBVIOUS
<1>1. desk = [h \in Calls |-> Promise!Free]
  BY DEF Init, desk, Promise!Free
<1>2. QED
  BY <1>1 DEF Init, Promise!Init

(* The steps of the world: people come and go, ask, and time passes. *)
LEMMA PassRefined ==
    ASSUME IInv, IInv', Tick \/ \E u \in Users, c \in Channels : Subscribe(c, u)
    PROVE  Promise!Next
<1> USE LongIsNat
<1>t. WorldTypes /\ WorldTypes'
  BY DEF IInv, TypeOK
<1>1. ASSUME NEW c \in Channels, NEW u \in Users
      PROVE  gone'[c][u] \in {0, gone[c][u], gone[c][u] + 1}
  <2>1. gone[c][u] \in 0 .. Long
    BY <1>t DEF WorldTypes
  <2>2. CASE Tick
    <3>1. gone'[c][u] = 0 \/ gone'[c][u] = Older(gone[c][u])
      BY <2>2 DEF Tick
    <3>2. QED
      BY <2>1, <3>1 DEF Older
  <2>3. ASSUME NEW v \in Users, NEW d \in Channels, Subscribe(d, v)
        PROVE  gone'[c][u] \in {0, gone[c][u], gone[c][u] + 1}
    BY <1>t, <2>3 DEF Subscribe, WorldTypes
  <2>4. QED
    BY <2>2, <2>3
<1>2. /\ UNCHANGED <<required, request, inside, approvals, declines>>
      /\ UNCHANGED <<who, serves, need, decision>>
  BY DEF Tick, Subscribe, database, call
<1>3. Promise!Pass
  BY <1>t, <1>1, <1>2, DesksStay DEF Promise!Pass, WorldTypes
<1>4. QED
  BY <1>3 DEF Promise!Next

(* A tap on the link is the request.                                       *)
LEMMA AskRefined == ASSUME NEW u \in Users, TapLink(u) PROVE Promise!Next
<1>1. Promise!Ask(u)
  BY DesksStay DEF TapLink, Promise!Ask, database, call
<1>2. QED
  BY <1>1 DEF Promise!Next

(* The admin's toggle is the same in both.                                 *)
LEMMA ToggleRefined ==
    ASSUME NEW c \in Channels, ToggleRequirement(c) PROVE Promise!Next
<1>1. Promise!Toggle(c)
  BY DesksStay DEF ToggleRequirement, Promise!Toggle, telegram, call
<1>2. QED
  BY <1>1 DEF Promise!Next

-----------------------------------------------------------------------------
(* The steps of a handler. *)

(* A handler's step touches no other handler's desk.                       *)
LEMMA OneDesk ==
    ASSUME NEW h \in Calls, NEW r,
           \A g \in Calls \ {h} : /\ who'[g] = who[g] /\ serves'[g] = serves[g]
                                  /\ need'[g] = need[g] /\ decision'[g] = decision[g],
           desk'[h] = r
    PROVE  desk' = [desk EXCEPT ![h] = r]
  BY DEF desk

(* The start of a join request's handler takes the request to its desk     *)
(* (on_chat_join_request).                                                 *)
LEMMA StartRefined ==
    ASSUME IInv, NEW h \in Calls, NEW u \in Users, NEW n \in 0 .. MaxRequests, Start(h, u, n)
    PROVE  Promise!Next \/ UNCHANGED Promise!vars
<1> DEFINE r == [who |-> u, need |-> required, verdict |-> "none"]
<1>1. /\ UNCHANGED <<gone, required, request, inside, approvals, declines>>
      /\ serves[h] = 0 /\ decision[h] = "none"
  BY DEF Start, telegram, database, IInv, ChecksAreNeeded, DecisionIsSound
<1>2. /\ who'[h] = u /\ need'[h] = required /\ serves'[h] = n /\ decision' = decision
      /\ \A g \in Calls \ {h} : who'[g] = who[g] /\ serves'[g] = serves[g] /\ need'[g] = need[g]
  BY DEF Start, IInv, TypeOK, CallTypes
<1>3. CASE n = 0
  <2>1. UNCHANGED desk
    BY <1>1, <1>2, <1>3 DEF desk
  <2>2. QED
    BY <1>1, <2>1 DEF Promise!vars
<1>4. CASE n > 0
  <2>1. desk[h] = Promise!Free
    BY <1>1, DeskOf
  <2>2. desk'[h] = r
    BY <1>1, <1>2, <1>4 DEF desk
  <2>3. desk' = [desk EXCEPT ![h] = r]
    BY <1>2, <2>2, OneDesk
  <2>4. Promise!PickUp(h, u)
    BY <1>1, <2>1, <2>3 DEF Promise!PickUp
  <2>5. QED
    BY <2>4 DEF Promise!Next
<1>5. QED
  BY <1>3, <1>4, BoundsAreNumbers

(* What the three outcomes of a decision have in common. *)
LEMMA ResolvesRefined ==
    ASSUME IInv, NEW h \in Calls,
           NEW d \in {"approved", "declined", "unresolved"}, Resolves(h, d)
    PROVE  /\ Promise!Decides(h, d)
           /\ desk[h] # Promise!Free
           /\ desk[h].who = who[h]
           /\ Promise!Verify(h) = Verifiable(h)
<1>1. serves[h] > 0 /\ decision[h] = "none"
  BY DEF Resolves, IInv, DecisionIsSound
<1>2. desk[h] = Occupied(h) /\ desk[h] # Promise!Free
  BY <1>1, DeskOf
<1>3. /\ decision'[h] = d /\ UNCHANGED <<who, serves, need>>
      /\ \A g \in Calls \ {h} : decision'[g] = decision[g]
  BY DEF Resolves, IInv, TypeOK, CallTypes
<1>4. desk'[h] = [desk[h] EXCEPT !.verdict = d]
  BY <1>1, <1>2, <1>3 DEF desk, Occupied
<1>5. desk' = [desk EXCEPT ![h].verdict = d]
  BY <1>3, <1>4, OneDesk
<1>6. UNCHANGED <<gone, required, approvals, declines>>
  BY DEF Resolves, database
<1>7. QED
  BY <1>1, <1>2, <1>5, <1>6 DEF Promise!Decides, Promise!Verify, Verifiable, Occupied

(* Telegram lets the user in: nothing was missing, so every channel to be  *)
(* verified has a "yes", which is recent.                                  *)
LEMMA AdmitRefined ==
    ASSUME IInv, NEW h \in Calls, NEW d \in {"approved", "unresolved"},
           Resolves(h, d), Takes(h), missing[h] = {}
    PROVE  Promise!Admit(h)
<1>1. /\ Promise!Decides(h, d) /\ desk[h].who = who[h]
      /\ Promise!Verify(h) = Verifiable(h)
  BY ResolvesRefined
<1>2. ASSUME NEW c \in Verifiable(h) PROVE gone[c][who[h]] < Long
  <2>1. h \in Busy /\ todo[h] = {}
    BY DEF Resolves, Busy
  <2>2. c \in Verifiable(h) \ (todo[h] \cup missing[h])
    BY <2>1
  <2>3. gone[c][who[h]] < Lifetime + TTL + age[h]
    BY <2>1, <2>2 DEF IInv, YesIsRecent, CheckIsRecent
  <2>4. /\ age[h] \in 0 .. Lifetime
        /\ c \in Channels /\ who[h] \in Users /\ gone[c][who[h]] \in 0 .. Long
    BY <2>1 DEF IInv, TypeOK, WorldTypes, CallTypes, Busy, Verifiable
  <2>5. QED
    BY <2>3, <2>4, TimesAreNumbers, LongIsNat DEF Long
<1>3. /\ who[h] \in request
      /\ request' = request \ {who[h]} /\ inside' = inside \cup {who[h]}
  BY DEF Takes
<1>4. QED
  BY <1>1, <1>2, <1>3 DEF Promise!Admit

(* Telegram refuses: a channel of the handler's own reading was missing. *)
LEMMA RefuseRefined ==
    ASSUME IInv, NEW h \in Calls, NEW d \in {"declined", "unresolved"},
           Resolves(h, d), Takes(h), missing[h] # {}
    PROVE  Promise!Refuse(h)
<1>1. /\ Promise!Decides(h, d) /\ desk[h].who = who[h]
      /\ Promise!Verify(h) = Verifiable(h)
  BY ResolvesRefined
<1>2. Verifiable(h) # {}
  BY DEF IInv, ChecksAreNeeded
<1>3. /\ who[h] \in request
      /\ request' = request \ {who[h]} /\ UNCHANGED inside
  BY DEF Takes
<1>4. QED
  BY <1>1, <1>2, <1>3 DEF Promise!Refuse

(* Whatever the outcome, the decision is one step of the desk              *)
(* (handle_join_request).                                                  *)
LEMMA DecisionRefined ==
    ASSUME IInv, NEW h \in Calls, Approve(h) \/ Decline(h) \/ ResolveFails(h)
    PROVE  Promise!Next
<1>1. CASE Approve(h)
  BY <1>1, AdmitRefined DEF Approve, Promise!Next
<1>2. CASE Decline(h)
  BY <1>2, RefuseRefined DEF Decline, Promise!Next
<1>3. CASE ResolveFails(h)
  <2>1. Resolves(h, "unresolved")
    BY <1>3 DEF ResolveFails
  <2>2. CASE Takes(h)
    BY <2>1, <2>2, AdmitRefined, RefuseRefined DEF Promise!Next
  <2>3. CASE UNCHANGED <<request, inside>>
    <3>1. Promise!GiveUp(h)
      BY <2>1, <2>3, ResolvesRefined DEF Promise!GiveUp
    <3>2. QED
      BY <3>1 DEF Promise!Next
  <2>4. QED
    BY <1>3, <2>2, <2>3 DEF ResolveFails
<1>4. QED
  BY <1>1, <1>2, <1>3

(* A handler that ends leaves its desk free. *)
LEMMA ForgetRefined ==
    ASSUME IInv, NEW h \in Calls, Forget(h)
    PROVE  desk' = [desk EXCEPT ![h] = Promise!Free]
<1>1. /\ serves'[h] = 0
      /\ \A g \in Calls \ {h} : /\ who'[g] = who[g] /\ serves'[g] = serves[g]
                                /\ need'[g] = need[g] /\ decision'[g] = decision[g]
  BY DEF Forget, IInv, TypeOK, CallTypes
<1>2. desk'[h] = Promise!Free
  BY <1>1 DEF desk, Promise!Free
<1>3. QED
  BY <1>1, <1>2, OneDesk

(* The commit puts the verdict on record.                                  *)
LEMMA CommitRefined == ASSUME IInv, NEW h \in Calls, Commit(h) PROVE Promise!Next
<1>1. serves[h] > 0 /\ decision[h] # "none"
  BY DEF Commit, IInv, DecisionIsSound
<1>2. desk[h] = Occupied(h)
  BY <1>1, DeskOf
<1>3. /\ UNCHANGED <<gone, required, request, inside>>
      /\ desk' = [desk EXCEPT ![h] = Promise!Free]
  BY ForgetRefined DEF Commit
<1>4. Promise!Record(h)
  BY <1>1, <1>2, <1>3 DEF Commit, Promise!Record, Promise!Vacate, Occupied
<1>5. QED
  BY <1>4 DEF Promise!Next

(* A button's handler has no desk; that of a join request is left. *)
LEMMA LeaveRefined ==
    ASSUME IInv, NEW h \in Calls, ShowResult(h) \/ HandlerFails(h)
    PROVE  Promise!Next \/ UNCHANGED Promise!vars
<1>1. /\ UNCHANGED <<gone, required, request, inside, approvals, declines>>
      /\ desk' = [desk EXCEPT ![h] = Promise!Free]
  BY ForgetRefined DEF ShowResult, HandlerFails, telegram, database
<1>2. CASE desk[h] = Promise!Free
  <2>1. UNCHANGED desk
    BY <1>1, <1>2 DEF desk
  <2>2. QED
    BY <1>1, <2>1 DEF Promise!vars
<1>3. CASE desk[h] # Promise!Free
  <2>1. Promise!Abandon(h)
    BY <1>1, <1>3 DEF Promise!Abandon, Promise!Vacate
  <2>2. QED
    BY <2>1 DEF Promise!Next
<1>4. QED
  BY <1>2, <1>3

-----------------------------------------------------------------------------
(* Every step is one of the gate's or invisible to it.                     *)
LEMMA RefineStep == IInv /\ IInv' /\ [Next]_vars => [Promise!Next]_(Promise!vars)
<1> SUFFICES ASSUME IInv, IInv', [Next]_vars
             PROVE  Promise!Next \/ UNCHANGED Promise!vars
  OBVIOUS
<1>s. /\ UNCHANGED <<gone, required, request, inside, approvals, declines>>
      /\ UNCHANGED <<who, serves, need, decision>>
      => UNCHANGED Promise!vars
  BY DesksStay DEF Promise!vars
<1>1. CASE UNCHANGED vars
  BY <1>1, <1>s DEF vars, telegram, database, call
<1>2. ASSUME NEW u \in Users, NEW c \in Channels, Unsubscribe(c, u)
      PROVE  UNCHANGED Promise!vars
  BY <1>2, <1>s DEF Unsubscribe, database, call
<1>3. ASSUME NEW u \in Users, Cool(u) PROVE UNCHANGED Promise!vars
  BY <1>3, <1>s DEF Cool, telegram, database, call
<1>4. ASSUME NEW u \in Users, NEW n \in 1 .. MaxRequests, Throttled(u, n)
      PROVE  UNCHANGED Promise!vars
  BY <1>4, <1>s DEF Throttled, database, call
<1>5. ASSUME NEW h \in Calls, NEW c \in Channels, CacheHit(h, c) \/ CacheMiss(h, c)
      PROVE  UNCHANGED Promise!vars
  BY <1>5, <1>s DEF CacheHit, CacheMiss, telegram, database
<1>6. ASSUME NEW h \in Calls, GetChatMember(h) \/ StoreAnswer(h)
      PROVE  UNCHANGED Promise!vars
  BY <1>6, <1>s DEF GetChatMember, StoreAnswer, telegram, database
<1>7. QED
  BY <1>1, <1>2, <1>3, <1>4, <1>5, <1>6, StepCases, PassRefined, AskRefined,
     ToggleRefined, StartRefined, DecisionRefined, CommitRefined, LeaveRefined

(* The handlers, their cache and their failures implement the gate of      *)
(* Gate.tla.                                                               *)
THEOREM JoinGateImplementsGate == Spec => ImplementsGate
  BY RefineInit, RefineStep, InductiveInvariant, PTL
  DEF Spec, ImplementsGate, Promise!Spec
=============================================================================
