--------------------------- MODULE CaptchaProofs ---------------------------
(***************************************************************************)
(* Proofs about Captcha.tla, for any users, emojis, cards and handlers.    *)
(***************************************************************************)
EXTENDS Captcha, TLAPS

(* The initial state. *)
LEMMA InitIsGood == Init => AnswersInv
BY BoundsAreNumbers, DefaultIsAnEmoji
DEF Init, AnswersInv, TypeOK, WorldTypes, CallTypes, OnlyOfferedAnswers, PassedByARightAnswer,
    Busy, Cards, Updates, StartUpdate, Taps, OptionLists

(* Ending a handler leaves the others' fields alone and clears its own. *)
LEMMA ForgetKeepsTypes ==
    ASSUME NEW h \in Calls, TypeOK, Forget(h)
    PROVE  CallTypes'
<1> USE DEF TypeOK, CallTypes, Forget, Busy, Updates
<1>1. /\ pc' \in [Calls -> {"idle", "verify", "arm", "show", "refresh", "delete", "commit", "pass"}]
      /\ who' \in [Calls -> Users \cup {Nobody}]
      /\ serves' \in [Calls -> Updates]
      /\ options' \in [Calls -> SUBSET Emojis]
      /\ right' \in [Calls -> Emojis \cup {NoEmoji}]
    OBVIOUS
<1>2. \A k \in Calls : k # h => /\ pc'[k] = pc[k]
                                /\ who'[k] = who[k]
                                /\ serves'[k] = serves[k]
                                /\ options'[k] = options[k]
                                /\ right'[k] = right[k]
    OBVIOUS
<1>3. pc'[h] = "idle"
    OBVIOUS
<1> QED
    BY <1>1, <1>2, <1>3

(* Ending a handler takes no answer away that was offered. *)
LEMMA ForgetKeepsAnswers ==
    ASSUME NEW h \in Calls, TypeOK, OnlyOfferedAnswers, Forget(h),
           UNCHANGED <<correct, answer, offered>>
    PROVE  OnlyOfferedAnswers'
<1>1. \A k \in Calls : k # h => /\ pc'[k] = pc[k]
                                /\ serves'[k] = serves[k]
                                /\ right'[k] = right[k]
    BY DEF TypeOK, CallTypes, Forget
<1>2. pc'[h] = "idle"
    BY DEF TypeOK, CallTypes, Forget
<1> QED
    BY <1>1, <1>2 DEF OnlyOfferedAnswers, Busy

(* A handler that goes on keeps its fields, and the others theirs. *)
LEMMA GotoMovesOne ==
    ASSUME NEW h \in Calls, NEW next, TypeOK, Goto(h, next)
    PROVE  /\ pc' = [pc EXCEPT ![h] = next]
           /\ pc'[h] = next
           /\ \A k \in Calls : k # h => pc'[k] = pc[k]
           /\ who' = who /\ serves' = serves /\ options' = options /\ right' = right
BY DEF TypeOK, CallTypes, Goto

(* Steps that do not touch the handlers. *)
LEMMA IdleCallsKeepTypes ==
    ASSUME CallTypes, UNCHANGED call
    PROVE  CallTypes'
BY DEF CallTypes, call, Busy

(* An edit of the configuration. *)
LEMMA EditIsGood ==
    ASSUME AnswersInv, NEW new \in OptionLists, NEW e \in Emojis, Edit(new, e),
           wizard' \in {"none", "emojis", "correct"},
           pickers' \in [Screens -> SUBSET Emojis]
    PROVE  AnswersInv'
<1> USE DEF AnswersInv, TypeOK, Edit, Event, rows, chat, call
<1>1. WorldTypes'
    BY BoundsAreNumbers DEF WorldTypes
<1>2. CallTypes'
    BY IdleCallsKeepTypes
<1>3. OnlyOfferedAnswers'
    BY DEF OnlyOfferedAnswers, Busy
<1>4. PassedByARightAnswer'
    BY DEF PassedByARightAnswer
<1> QED
    BY <1>1, <1>2, <1>3, <1>4

(* The admin's steps. *)
LEMMA AdminIsGood == AnswersInv /\ AdminStep => AnswersInv'
<1> SUFFICES ASSUME AnswersInv, AdminStep PROVE AnswersInv'
    OBVIOUS
<1> USE DEF AnswersInv, TypeOK
<1>1. CASE AskEmojis \/ WizardCleared
    <2>1. WorldTypes'
        BY <1>1 DEF AskEmojis, WizardCleared, WorldTypes, config, rows, chat, call, history
    <2>2. CallTypes'
        BY <1>1, IdleCallsKeepTypes DEF AskEmojis, WizardCleared
    <2>3. OnlyOfferedAnswers' /\ PassedByARightAnswer'
        BY <1>1 DEF AskEmojis, WizardCleared, OnlyOfferedAnswers, PassedByARightAnswer, Busy,
                    config, rows, call, history
    <2> QED
        BY <2>1, <2>2, <2>3
<1>2. ASSUME NEW s \in Screens, AskCorrect(s) PROVE AnswersInv'
    <2>1. WorldTypes'
        BY <1>2 DEF AskCorrect, WorldTypes, OptionLists, config, rows, chat, call, history
    <2>2. CallTypes'
        BY <1>2, IdleCallsKeepTypes DEF AskCorrect
    <2>3. OnlyOfferedAnswers' /\ PassedByARightAnswer'
        BY <1>2 DEF AskCorrect, OnlyOfferedAnswers, PassedByARightAnswer, Busy,
                    config, rows, call, history
    <2> QED
        BY <2>1, <2>2, <2>3
<1>3. ASSUME NEW s \in Screens, NEW e \in Emojis, SetCorrect(s, e) PROVE AnswersInv'
    <2>1. pickers' \in [Screens -> SUBSET Emojis]
        BY <1>3 DEF SetCorrect, WorldTypes
    <2>2. wizard' \in {"none", "emojis", "correct"} /\ Edit(emojis, e)
        BY <1>3 DEF SetCorrect
    <2> QED
        BY <2>1, <2>2, EditIsGood DEF WorldTypes
<1>4. ASSUME NEW new \in OptionLists, ReceiveEmojis(new) PROVE AnswersInv'
    <2>1. PICK first \in new : Edit(new, IF correct \in new THEN correct ELSE first)
        BY <1>4 DEF ReceiveEmojis
    <2> DEFINE e == IF correct \in new THEN correct ELSE first
    <2>2. e \in Emojis
        BY DEF OptionLists
    <2>3. /\ wizard' \in {"none", "emojis", "correct"}
          /\ pickers' \in [Screens -> SUBSET Emojis]
        BY <1>4 DEF ReceiveEmojis, WorldTypes
    <2> QED
        BY <2>1, <2>2, <2>3, EditIsGood
<1> QED
    BY <1>1, <1>2, <1>3, <1>4 DEF AdminStep

(* An update reaches its handler. *)
LEMMA BeginIsGood ==
    ASSUME AnswersInv, NEW h \in Calls, NEW u \in Users, NEW r \in Updates,
           NEW next \in {"commit", "arm", "verify"}, Begin(h, u, r, next),
           next = "verify" => r \in Taps
    PROVE  AnswersInv'
<1> USE DEF AnswersInv, TypeOK
<1>1. WorldTypes'
    BY DEF Begin, WorldTypes, config, rows, chat, admin, history
<1>2. /\ pc'[h] = next
      /\ who'[h] = u
      /\ serves'[h] = r
      /\ options'[h] = emojis
      /\ right'[h] = correct
    BY DEF Begin, CallTypes
<1>3. \A k \in Calls : k # h => /\ pc'[k] = pc[k]
                                /\ who'[k] = who[k]
                                /\ serves'[k] = serves[k]
                                /\ options'[k] = options[k]
                                /\ right'[k] = right[k]
    BY DEF Begin, CallTypes
<1>4. CallTypes'
    <2>1. /\ pc' \in [Calls -> {"idle", "verify", "arm", "show", "refresh", "delete", "commit", "pass"}]
          /\ who' \in [Calls -> Users \cup {Nobody}]
          /\ serves' \in [Calls -> Updates]
        BY DEF Begin, CallTypes
    <2>2. /\ options' \in [Calls -> SUBSET Emojis]
          /\ right' \in [Calls -> Emojis \cup {NoEmoji}]
        BY DEF Begin, CallTypes, WorldTypes, OptionLists
    <2> QED
        BY <2>1, <2>2, <1>2, <1>3 DEF CallTypes, Busy, WorldTypes, OptionLists
<1>5. OnlyOfferedAnswers'
    BY <1>2, <1>3 DEF Begin, OnlyOfferedAnswers, Busy, config, history
<1>6. PassedByARightAnswer'
    BY DEF Begin, PassedByARightAnswer, rows, history
<1> QED
    BY <1>1, <1>4, <1>5, <1>6

(* The steps of users, Redis and Telegram's deliveries. *)
LEMMA UserIsGood == AnswersInv /\ (\E u \in Users : UserStep(u)) => AnswersInv'
<1> SUFFICES ASSUME AnswersInv, NEW u \in Users, UserStep(u) PROVE AnswersInv'
    OBVIOUS
<1> USE DEF AnswersInv, TypeOK
<1>1. ASSUME NEW r \in Updates, Sends(u, r) \/ Discard(u, r) \/ SessionExpired(u, r) PROVE AnswersInv'
    <2>0. inbox' \in [Users -> SUBSET Updates]
        <3>1. /\ inbox' = [inbox EXCEPT ![u] = inbox'[u]]
              /\ inbox'[u] \subseteq inbox[u] \cup {r}
            BY <1>1 DEF Sends, Discard, SessionExpired, WorldTypes
        <3> QED
            BY <3>1 DEF WorldTypes
    <2>1. WorldTypes'
        BY <1>1, <2>0
        DEF Sends, Discard, SessionExpired, WorldTypes, config, rows, admin, call, history
    <2>2. CallTypes'
        BY <1>1, IdleCallsKeepTypes DEF Sends, Discard, SessionExpired
    <2>3. OnlyOfferedAnswers' /\ PassedByARightAnswer'
        BY <1>1 DEF Sends, Discard, SessionExpired, OnlyOfferedAnswers, PassedByARightAnswer,
                    Busy, config, rows, call, history
    <2> QED
        BY <2>1, <2>2, <2>3
<1>2. CASE PressStart(u)
    BY <1>1, <1>2 DEF PressStart, Updates
<1>3. ASSUME NEW c \in Cards, NEW e \in Emojis, Tap(u, c, e) PROVE AnswersInv'
    BY <1>1, <1>3 DEF Tap, Updates, Taps
<1>4. CASE AnswerExpires(u)
    <2>1. WorldTypes'
        BY <1>4, BoundsAreNumbers
        DEF AnswerExpires, Event, WorldTypes, config, rows, chat, admin, call, history
    <2>2. CallTypes'
        BY <1>4, IdleCallsKeepTypes DEF AnswerExpires
    <2>3. OnlyOfferedAnswers' /\ PassedByARightAnswer'
        BY <1>4 DEF AnswerExpires, OnlyOfferedAnswers, PassedByARightAnswer, WorldTypes,
                    Busy, config, rows, call, history
    <2> QED
        BY <2>1, <2>2, <2>3
<1>5. ASSUME NEW r \in Updates, Deliver(u, r) PROVE AnswersInv'
    <2>1. PICK h \in Calls : (r = StartUpdate /\ CmdStart(h, u)) \/ OnCaptchaAnswer(h, u, r)
        BY <1>5 DEF Deliver
    <2>2. CASE r = StartUpdate /\ CmdStart(h, u)
        BY <2>2, BeginIsGood DEF CmdStart
    <2>3. CASE OnCaptchaAnswer(h, u, r)
        BY <2>3, BeginIsGood DEF OnCaptchaAnswer
    <2> QED
        BY <2>1, <2>2, <2>3
<1> QED
    BY <1>1, <1>2, <1>3, <1>4, <1>5 DEF UserStep

(* A handler's step between its start and its commit. *)
LEMMA MoveKeepsTypes ==
    ASSUME CallTypes, NEW h \in Busy, Goto(h, pc'[h]),
           pc'[h] \in {"arm", "show", "refresh", "delete", "commit", "pass"},
           pc'[h] \in {"refresh", "delete", "pass"} => serves[h] \in Taps
    PROVE  CallTypes'
<1>1. /\ \A k \in Calls : k # h => pc'[k] = pc[k]
      /\ pc' \in [Calls -> {"idle", "verify", "arm", "show", "refresh", "delete", "commit", "pass"}]
      /\ who' = who /\ serves' = serves /\ options' = options /\ right' = right
    BY DEF Goto, CallTypes, Busy
<1> QED
    BY <1>1 DEF CallTypes, Busy

(* The steps of a handler. *)
LEMMA HandlerIsGood ==
    ASSUME AnswersInv, NEW h \in Calls, HandlerStep(h) \/ HandlerFails(h)
    PROVE  AnswersInv'
<1> USE DEF AnswersInv, TypeOK
<1>1. CASE Verify(h)
    <2>1. Goto(h, pc'[h]) /\ h \in Busy
        BY <1>1 DEF Verify, Goto, CallTypes, Busy
    <2>2. pc'[h] \in {"delete", "arm"} /\ serves[h] \in Taps
        BY <1>1 DEF Verify, Goto, CallTypes
    <2>3. CallTypes'
        BY <2>1, <2>2, MoveKeepsTypes
    <2>4. WorldTypes' /\ PassedByARightAnswer'
        BY <1>1 DEF Verify, WorldTypes, PassedByARightAnswer, config, rows, chat, admin, history
    <2>5. pc'[h] = "delete" => serves[h].emoji \in offered
        <3>1. pc'[h] = "delete" => serves[h].emoji = answer[who[h]]
            BY <1>1 DEF Verify, Goto, CallTypes
        <3>2. who[h] \in Users /\ serves[h].emoji # NoEmoji
            BY <2>1, <2>2, NamesAreFree DEF CallTypes, Taps
        <3> QED
            BY <3>1, <3>2 DEF OnlyOfferedAnswers
    <2>6. OnlyOfferedAnswers'
        BY <1>1, <2>1, <2>2, <2>5, GotoMovesOne DEF Verify, OnlyOfferedAnswers, Busy, config, history
    <2> QED
        BY <2>3, <2>4, <2>6
<1>2. CASE Arm(h)
    <2>1. Goto(h, pc'[h]) /\ h \in Busy
        BY <1>2 DEF Arm, Goto, CallTypes, Busy
    <2>2. pc'[h] \in {"show", "refresh"} /\ (pc'[h] = "refresh" => serves[h] \in Taps)
        BY <1>2 DEF Arm, Goto, CallTypes, Updates
    <2>3. CallTypes'
        BY <2>1, <2>2, MoveKeepsTypes
    <2>4. right[h] \in Emojis /\ right[h] \in offered
        BY <2>1 DEF CallTypes, OnlyOfferedAnswers
    <2>5. WorldTypes' /\ PassedByARightAnswer'
        BY <1>2, <2>4 DEF Arm, WorldTypes, PassedByARightAnswer, config, rows, chat, admin, history
    <2>6. OnlyOfferedAnswers'
        <3>1. \A u \in Users : answer'[u] \in offered' \cup {NoEmoji}
            BY <1>2, <2>4 DEF Arm, OnlyOfferedAnswers, WorldTypes, history
        <3> QED
            BY <3>1, <1>2, <2>1, <2>2, GotoMovesOne DEF Arm, OnlyOfferedAnswers, Busy, config, history
    <2> QED
        BY <2>3, <2>5, <2>6
<1>3. CASE Show(h) \/ Refresh(h) \/ DeleteCard(h)
    <2>1. Goto(h, pc'[h]) /\ h \in Busy
        BY <1>3 DEF Show, Refresh, DeleteCard, Goto, CallTypes, Busy
    <2>2. /\ pc'[h] \in {"commit", "pass"}
          /\ pc'[h] = "pass" => pc[h] = "delete" /\ serves[h] \in Taps
        BY <1>3 DEF Show, Refresh, DeleteCard, Goto, CallTypes
    <2>3. CallTypes'
        BY <2>1, <2>2, MoveKeepsTypes
    <2>4. options[h] \in SUBSET Emojis
        BY DEF CallTypes
    <2>5. shown' \in [Users -> [Cards -> SUBSET Emojis]] /\ inbox' \in [Users -> SUBSET Updates]
        <3>1. CASE Show(h)
            <4>1. PICK c \in Cards :
                     /\ shown' = [shown EXCEPT ![who[h]][c] = options[h]]
                     /\ inbox' = [inbox EXCEPT ![who[h]] = {r \in @ : r.card # c}]
                BY <3>1 DEF Show
            <4>2. shown' \in [Users -> [Cards -> SUBSET Emojis]]
                BY <4>1, <2>4 DEF WorldTypes
            <4>3. inbox' \in [Users -> SUBSET Updates]
                <5>1. {r \in inbox[who[h]] : r.card # c} \subseteq inbox[who[h]]
                    OBVIOUS
                <5>2. who[h] \in Users
                    BY <2>1 DEF CallTypes
                <5> QED
                    BY <5>1, <5>2, <4>1 DEF WorldTypes
            <4> QED
                BY <4>2, <4>3
        <3>2. CASE Refresh(h)
            BY <3>2, <2>4 DEF Refresh, WorldTypes
        <3>3. CASE DeleteCard(h)
            BY <3>3 DEF DeleteCard, WorldTypes
        <3> QED
            BY <1>3, <3>1, <3>2, <3>3
    <2>6. WorldTypes' /\ PassedByARightAnswer'
        BY <1>3, <2>5 DEF Show, Refresh, DeleteCard, WorldTypes, PassedByARightAnswer,
                          config, rows, admin, history
    <2>7. OnlyOfferedAnswers'
        BY <1>3, <2>1, <2>2, GotoMovesOne
        DEF Show, Refresh, DeleteCard, OnlyOfferedAnswers, Busy, config, history
    <2> QED
        BY <2>3, <2>6, <2>7
<1>4. CASE Commit(h) \/ CommitPassed(h)
    <2>1. Answered(h) /\ h \in Busy
        BY <1>4 DEF Commit, CommitPassed, Busy
    <2>2. CallTypes'
        BY <2>1, ForgetKeepsTypes DEF Answered
    <2>3. OnlyOfferedAnswers'
        BY <2>1, ForgetKeepsAnswers DEF Answered, config
    <2>4. who[h] \in Users
        BY <2>1 DEF CallTypes
    <2>5. CommitPassed(h) => serves[h].emoji \in Emojis /\ serves[h].emoji \in offered
        BY DEF CommitPassed, CallTypes, OnlyOfferedAnswers, Taps
    <2>6. /\ inbox' \in [Users -> SUBSET Updates]
          /\ known' \in SUBSET Users
          /\ passed' \in SUBSET Users
          /\ won' \in [Users -> Emojis \cup {NoEmoji}]
        BY <1>4, <2>1, <2>4, <2>5 DEF Commit, CommitPassed, Answered, WorldTypes
    <2>7. WorldTypes'
        BY <2>1, <2>6 DEF Answered, WorldTypes, config, admin
    <2>8. PassedByARightAnswer'
        BY <1>4, <2>1, <2>4, <2>5
        DEF Commit, CommitPassed, Answered, PassedByARightAnswer, WorldTypes
    <2> QED
        BY <2>2, <2>3, <2>7, <2>8
<1>5. CASE TelegramRefuses(h) \/ HandlerFails(h)
    <2>1. RolledBack(h) /\ events' \in 0 .. MaxEvents
        BY <1>5, BoundsAreNumbers DEF TelegramRefuses, HandlerFails, Event, WorldTypes
    <2>2. CallTypes'
        BY <2>1, ForgetKeepsTypes DEF RolledBack
    <2>3. OnlyOfferedAnswers'
        BY <2>1, ForgetKeepsAnswers DEF RolledBack, config, history
    <2>4. WorldTypes' /\ PassedByARightAnswer'
        BY <2>1 DEF RolledBack, WorldTypes, PassedByARightAnswer, config, rows, chat, admin, history
    <2> QED
        BY <2>2, <2>3, <2>4
<1> QED
    BY <1>1, <1>2, <1>3, <1>4, <1>5 DEF HandlerStep

(* Nothing happens. *)
LEMMA StutterIsGood == AnswersInv /\ UNCHANGED vars => AnswersInv'
<1> SUFFICES ASSUME AnswersInv, UNCHANGED vars PROVE AnswersInv'
    OBVIOUS
<1> USE DEF AnswersInv, TypeOK, vars
<1>1. WorldTypes'
    BY DEF WorldTypes, config, rows, chat, admin, history
<1>2. CallTypes'
    BY IdleCallsKeepTypes
<1>3. OnlyOfferedAnswers' /\ PassedByARightAnswer'
    BY DEF OnlyOfferedAnswers, PassedByARightAnswer, Busy, config, rows, call, history
<1> QED
    BY <1>1, <1>2, <1>3

(* A handler that has verified a tap began with a row of its user. *)
LEMMA KnownStep ==
    AnswersInv /\ AnswersAreOfTheKnown /\ [Next]_vars => AnswersAreOfTheKnown'
<1> SUFFICES ASSUME AnswersInv, AnswersAreOfTheKnown, [Next]_vars
             PROVE  AnswersAreOfTheKnown'
    OBVIOUS
<1> USE DEF AnswersInv, TypeOK, CallTypes, AnswersAreOfTheKnown
<1>1. CASE AdminStep \/ UNCHANGED vars
    BY <1>1 DEF AdminStep, AskEmojis, AskCorrect, SetCorrect, ReceiveEmojis, Edit, WizardCleared,
                vars, rows, call
<1>2. ASSUME NEW u \in Users, UserStep(u) PROVE AnswersAreOfTheKnown'
    <2>1. ASSUME NEW r \in Updates, Deliver(u, r) PROVE AnswersAreOfTheKnown'
        BY <2>1 DEF Deliver, CmdStart, OnCaptchaAnswer, Begin, rows
    <2>2. CASE UNCHANGED <<rows, call>>
        BY <2>2 DEF rows, call
    <2> QED
        BY <1>2, <2>1, <2>2
        DEF UserStep, PressStart, Tap, Sends, AnswerExpires, SessionExpired, Discard
<1>3. ASSUME NEW h \in Calls, HandlerStep(h) \/ HandlerFails(h) PROVE AnswersAreOfTheKnown'
    <2>1. CASE Verify(h) \/ Arm(h) \/ Show(h) \/ Refresh(h) \/ DeleteCard(h)
        BY <2>1 DEF Verify, Arm, Show, Refresh, DeleteCard, Goto, rows
    <2>2. CASE Commit(h) \/ CommitPassed(h)
        BY <2>2 DEF Commit, CommitPassed, Answered, Forget
    <2>3. CASE TelegramRefuses(h) \/ HandlerFails(h)
        BY <2>3 DEF TelegramRefuses, HandlerFails, RolledBack, Forget, rows
    <2> QED
        BY <1>3, <2>1, <2>2, <2>3 DEF HandlerStep
<1> QED
    BY <1>1, <1>2, <1>3 DEF Next

(* The inductive invariant holds in every reachable state. *)
THEOREM InductiveInvariant == Spec => []IInv
<1>1. Init => AnswersInv /\ AnswersAreOfTheKnown
    BY InitIsGood DEF Init, AnswersAreOfTheKnown
<1>2. AnswersInv /\ [Next]_vars => AnswersInv'
    BY AdminIsGood, UserIsGood, HandlerIsGood, StutterIsGood DEF Next
<1> QED
    BY <1>1, <1>2, KnownStep, PTL DEF Spec, IInv

(* Every variable has its type. *)
THEOREM TypeCorrect == Spec => []TypeOK
BY InductiveInvariant, PTL DEF IInv, AnswersInv

(* Nobody has passed but with an emoji that was once the correct one. *)
THEOREM PassesAreEarned == Spec => []PassedByARightAnswer
BY InductiveInvariant, PTL DEF IInv, AnswersInv

(* captcha_passed is never taken back. *)
THEOREM PassesAreFinal == Spec => PassIsFinal
<1>1. [Next]_vars => [passed \subseteq passed']_vars
    <2> SUFFICES ASSUME Next PROVE passed \subseteq passed'
        OBVIOUS
    <2>1. CASE AdminStep
        BY <2>1 DEF AdminStep, AskEmojis, AskCorrect, SetCorrect, ReceiveEmojis, Edit,
                    WizardCleared, rows
    <2>2. CASE \E u \in Users : UserStep(u)
        BY <2>2 DEF UserStep, PressStart, Tap, Sends, AnswerExpires, Deliver, CmdStart,
                    OnCaptchaAnswer, Begin, SessionExpired, Discard, rows
    <2>3. CASE \E h \in Calls : HandlerStep(h) \/ HandlerFails(h)
        BY <2>3 DEF HandlerStep, HandlerFails, Verify, Arm, Show, Refresh, DeleteCard, Commit,
                    CommitPassed, TelegramRefuses, RolledBack, rows
    <2> QED
        BY <2>1, <2>2, <2>3 DEF Next
<1> QED
    BY <1>1, PTL DEF Spec, PassIsFinal

-----------------------------------------------------------------------------
(* The refinement. *)

(* What has been solved is that of the handlers past their verification;   *)
(* a step that moves no handler there or away leaves it alone.             *)
LEMMA SolvedStays ==
    ASSUME UNCHANGED <<who, serves>>,
           \A h \in Calls : pc'[h] \in {"delete", "pass"} <=> pc[h] \in {"delete", "pass"}
    PROVE  UNCHANGED solved
BY DEF solved, Verified

(* What a handler that ends takes away is at most its own. *)
LEMMA ForgottenIsLost ==
    ASSUME AnswersInv, NEW h \in Calls, Forget(h)
    PROVE  /\ solved' \in {solved, solved \ {<<who[h], serves[h].emoji>>}}
           /\ pc[h] \notin {"delete", "pass"} => solved' = solved
<1>1. Verified' = Verified \ {h}
    BY DEF Verified, Forget, AnswersInv, TypeOK, CallTypes
<1>2. \A k \in Calls \ {h} : who'[k] = who[k] /\ serves'[k] = serves[k]
    BY DEF Forget, AnswersInv, TypeOK, CallTypes
<1>3. solved' = {<<who[k], serves[k].emoji>> : k \in Verified \ {h}}
    BY <1>1, <1>2 DEF solved, Verified
<1>4. solved' \in {solved, solved \ {<<who[h], serves[h].emoji>>}}
    BY <1>3 DEF solved
<1>5. pc[h] \notin {"delete", "pass"} => solved' = solved
    BY <1>3 DEF solved, Verified
<1> QED
    BY <1>4, <1>5

(* A tap that was verified named the answer in Redis. *)
LEMMA VerifySolves ==
    ASSUME IInv, NEW h \in Calls, Verify(h)
    PROVE  Promise!Next \/ UNCHANGED Promise!vars
<1> DEFINE u == who[h]
<1> USE DEF IInv, AnswersInv, TypeOK, CallTypes
<1>1. /\ u \in Users /\ u \in known /\ serves[h] \in Taps
      /\ UNCHANGED <<who, serves, correct, offered, known, answer, passed, won>>
      /\ pc' = [pc EXCEPT ![h] = IF serves[h].emoji = answer[u] THEN "delete" ELSE "arm"]
    BY DEF Verify, Goto, Busy, AnswersAreOfTheKnown, config, rows, history
<1>2. CASE serves[h].emoji = answer[u]
    <2>1. Verified' = Verified \cup {h}
        BY <1>1, <1>2 DEF Verified
    <2>2. solved' = solved \cup {<<u, answer[u]>>}
        BY <1>1, <1>2, <2>1 DEF solved
    <2>3. answer[u] # NoEmoji
        BY <1>1, <1>2, NamesAreFree DEF Taps
    <2> QED
        BY <1>1, <2>2, <2>3 DEF Promise!Solve, Promise!Next
<1>3. CASE serves[h].emoji # answer[u]
    <2>1. Verified' = Verified
        BY <1>1, <1>3 DEF Verified, Verify
    <2> QED
        BY <1>1, <2>1 DEF solved, Promise!vars
<1> QED
    BY <1>2, <1>3

(* A commit records what its handler has solved; any other end of a        *)
(* handler loses it.                                                       *)
LEMMA EndsRecordOrLose ==
    ASSUME IInv, NEW h \in Calls,
           Commit(h) \/ CommitPassed(h) \/ TelegramRefuses(h) \/ HandlerFails(h)
    PROVE  Promise!Next \/ UNCHANGED Promise!vars
<1> DEFINE u == who[h]
           e == serves[h].emoji
<1> USE DEF IInv, AnswersInv, TypeOK, CallTypes
<1>1. h \in Busy /\ u \in Users
    BY DEF Commit, CommitPassed, TelegramRefuses, HandlerFails, Busy
<1>2. pc[h] \in {"delete", "pass"} => e \in Emojis /\ <<u, e>> \in solved
    BY DEF solved, Verified, Taps
<1>3. CASE Commit(h)
    <2>1. solved' = solved
        BY <1>3, ForgottenIsLost DEF Commit, Answered
    <2> QED
        BY <1>1, <1>3, <2>1
        DEF Commit, Answered, config, Promise!Meet, Promise!Next
<1>4. CASE CommitPassed(h)
    <2>1. solved' \in {solved, solved \ {<<u, e>>}}
        BY <1>4, ForgottenIsLost DEF CommitPassed, Answered
    <2>2. Promise!Record(u, e)
        BY <1>2, <1>4, <2>1 DEF CommitPassed, Answered, config, Promise!Record
    <2> QED
        BY <1>1, <1>2, <1>4, <2>2 DEF CommitPassed, Promise!Next
<1>5. CASE TelegramRefuses(h) \/ HandlerFails(h)
    <2>1. /\ solved' \in {solved, solved \ {<<u, e>>}}
          /\ pc[h] \notin {"delete", "pass"} => solved' = solved
        BY <1>5, ForgottenIsLost DEF TelegramRefuses, HandlerFails, RolledBack
    <2>2. UNCHANGED <<correct, offered, known, answer, passed, won>>
        BY <1>5 DEF TelegramRefuses, HandlerFails, RolledBack, config, rows, history
    <2> QED
        BY <1>1, <1>2, <2>1, <2>2 DEF Promise!Lose, Promise!Next, Promise!vars
<1> QED
    BY <1>3, <1>4, <1>5

(* The other steps of a handler: only Arm, which asks, can be seen. *)
LEMMA GoingOnIsSeen ==
    ASSUME IInv, NEW h \in Calls, Arm(h) \/ Show(h) \/ Refresh(h) \/ DeleteCard(h)
    PROVE  Promise!Next \/ UNCHANGED Promise!vars
<1> USE DEF IInv, AnswersInv, TypeOK, CallTypes
<1>1. UNCHANGED solved
    BY SolvedStays DEF Arm, Show, Refresh, DeleteCard, Goto
<1>2. CASE Arm(h)
    <2>1. who[h] \in Users /\ right[h] \in Emojis /\ right[h] \in offered
        BY <1>2 DEF Arm, Busy, OnlyOfferedAnswers
    <2> QED
        BY <1>1, <1>2, <2>1 DEF Arm, config, rows, history, Promise!Ask, Promise!Next
<1>3. CASE Show(h) \/ Refresh(h) \/ DeleteCard(h)
    BY <1>1, <1>3 DEF Show, Refresh, DeleteCard, config, rows, history, Promise!vars
<1> QED
    BY <1>2, <1>3

(* The steps of the admin, the users, Redis and Telegram. *)
LEMMA OthersAreSeen ==
    ASSUME IInv, AdminStep \/ \E u \in Users : UserStep(u)
    PROVE  Promise!Next \/ UNCHANGED Promise!vars
<1> USE DEF config, rows, history, call, solved, Verified
<1>1. ASSUME NEW new, NEW e \in Emojis, Edit(new, e) PROVE Promise!Next
    BY <1>1 DEF Edit, Promise!Choose, Promise!Next
<1>2. CASE AdminStep
    <2>1. ASSUME NEW new \in OptionLists, ReceiveEmojis(new) PROVE Promise!Next
        BY <1>1, <2>1 DEF ReceiveEmojis, OptionLists
    <2> QED
        BY <1>1, <1>2, <2>1
        DEF AdminStep, AskEmojis, AskCorrect, SetCorrect, WizardCleared, Promise!vars
<1>3. ASSUME NEW u \in Users, UserStep(u) PROVE Promise!Next \/ UNCHANGED Promise!vars
    <2>1. CASE AnswerExpires(u)
        BY <2>1 DEF AnswerExpires, Promise!Withdraw, Promise!Next
    <2>2. ASSUME NEW r \in Updates, Deliver(u, r) PROVE UNCHANGED Promise!vars
        <3>1. PICK h \in Calls, next \in {"commit", "arm", "verify"} : Begin(h, u, r, next)
            BY <2>2 DEF Deliver, CmdStart, OnCaptchaAnswer
        <3>2. Verified' = Verified /\ h \notin Verified
            BY <3>1 DEF Begin, IInv, AnswersInv, TypeOK, CallTypes
        <3>3. \A k \in Calls \ {h} : who'[k] = who[k] /\ serves'[k] = serves[k]
            BY <3>1 DEF Begin, IInv, AnswersInv, TypeOK, CallTypes
        <3>4. solved' = solved
            BY <3>2, <3>3
        <3> QED
            BY <3>1, <3>4 DEF Begin, Promise!vars
    <2> QED
        BY <1>3, <2>1, <2>2
        DEF UserStep, PressStart, Tap, Sends, SessionExpired, Discard, Promise!vars
<1> QED
    BY <1>2, <1>3

(* Every step is one of the challenge's or invisible to it. *)
LEMMA ChallengeStep == IInv /\ [Next]_vars => [Promise!Next]_(Promise!vars)
<1> SUFFICES ASSUME IInv, [Next]_vars
             PROVE  Promise!Next \/ UNCHANGED Promise!vars
    OBVIOUS
<1>1. CASE UNCHANGED vars
    BY <1>1 DEF vars, config, rows, history, call, solved, Verified, Promise!vars
<1>2. ASSUME NEW h \in Calls, HandlerStep(h) \/ HandlerFails(h)
      PROVE  Promise!Next \/ UNCHANGED Promise!vars
    BY <1>2, VerifySolves, GoingOnIsSeen, EndsRecordOrLose DEF HandlerStep
<1> QED
    BY <1>1, <1>2, OthersAreSeen DEF Next

(* Cards, deliveries and failed handlers implement the challenge of        *)
(* Challenge.tla, for any users, emojis, cards and handlers.               *)
THEOREM CaptchaImplementsChallenge == Spec => ImplementsChallenge
<1>1. Init => Promise!Init
    BY DEF Init, Promise!Init, solved, Verified
<1> QED
    BY <1>1, ChallengeStep, InductiveInvariant, PTL DEF Spec, ImplementsChallenge, Promise!Spec
=============================================================================
